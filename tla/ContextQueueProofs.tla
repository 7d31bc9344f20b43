-------------------------- MODULE ContextQueueProofs --------------------------
(***************************************************************************)
(* For any set of items, any priorities and any initial capacity: a push   *)
(* never overwrites an item, and no item is ever in two sleds.             *)
(*                                                                         *)
(* The argument is the invariant Sided: a labelling of the sleds with the  *)
(* chain they are in, which every link respects.  A link changed in one    *)
(* chain then leaves the others as they were.                              *)
(***************************************************************************)
EXTENDS ContextQueue, TLAPS

IInv == TypeOK /\ Sided

\* The new half of the array, once grown, is free.
RoomSide(side) == [i \in 0 .. RoomCapacity - 1 |-> IF i \in Sleds THEN side[i] ELSE "free"]

RoomSleds == 0 .. RoomCapacity - 1

(* Growing keeps the types and adds sleds: increase_capacity.               *)
LEMMA RoomType ==
  ASSUME TypeOK
  PROVE  /\ RoomCapacity \in Nat \ {0}
         /\ Sleds \subseteq RoomSleds
         /\ RoomFree \in RoomSleds
         /\ RoomContent \in [RoomSleds -> Items \cup {NULL}]
         /\ RoomNext \in [RoomSleds -> RoomSleds \cup {NULL}]
         /\ RoomPriority \in [RoomSleds -> Nat]
<1> USE QueueAssumption DEF TypeOK, Sleds, RoomSleds
<1>1. CASE Exhausted
  <2>1. RoomCapacity = 2 * capacity /\ RoomFree = capacity
    BY <1>1 DEF RoomCapacity, RoomFree
  <2>2. /\ RoomCapacity \in Nat \ {0}
        /\ Sleds \subseteq RoomSleds
        /\ RoomFree \in RoomSleds
    BY <2>1
  <2>3. ASSUME NEW i \in RoomSleds
        PROVE  (IF i \in Sleds THEN next[i] ELSE FreshLinks(capacity, RoomCapacity - 1)[i])
                 \in RoomSleds \cup {NULL}
    BY <2>1 DEF FreshLinks
  <2>4. RoomNext \in [RoomSleds -> RoomSleds \cup {NULL}]
    BY <2>3 DEF RoomNext
  <2>5. QED
    BY <2>2, <2>4 DEF RoomContent, RoomPriority
<1>2. CASE ~ Exhausted
  <2>1. RoomCapacity = capacity /\ RoomFree = free_list /\ free_list \in Sleds
    BY <1>2 DEF RoomCapacity, RoomFree, Exhausted
  <2>2. QED
    BY <2>1 DEF RoomContent, RoomPriority, RoomNext
<1>3. QED
  BY <1>1, <1>2

(* Growing the array keeps its structure: the new half is a free chain of   *)
(* its own, and only used when the old one is exhausted.                    *)
LEMMA RoomStructure ==
  ASSUME TypeOK, NEW side \in [Sleds -> Sides],
         Structure(Sleds, content, next, side, free_list)
  PROVE  /\ RoomSide(side) \in [RoomSleds -> Sides]
         /\ Structure(RoomSleds, RoomContent, RoomNext, RoomSide(side), RoomFree)
         /\ RoomFree # NULL
         /\ \A i \in Sleds : /\ RoomSide(side)[i] = side[i]
                             /\ RoomNext[i] = next[i]
                             /\ RoomContent[i] = content[i]
         /\ \A i \in Sleds : \A j \in RoomSleds : RoomNext[j] = i => j \in Sleds
<1> USE QueueAssumption DEF TypeOK, Sides
<1>1. CASE Exhausted
  <2> USE DEF Sleds, RoomSleds
  <2>1. RoomCapacity = 2 * capacity /\ RoomFree = capacity
    BY <1>1 DEF RoomCapacity, RoomFree
  <2>2. \A i \in Sleds : i \in RoomSleds /\ RoomNext[i] = next[i] /\ RoomContent[i] = content[i]
                         /\ RoomSide(side)[i] = side[i]
    BY <2>1 DEF RoomNext, RoomContent, RoomSide
  <2>3. \A i \in RoomSleds \ Sleds :
          /\ RoomNext[i] = (IF i < RoomCapacity - 1 THEN i + 1 ELSE NULL)
          /\ RoomContent[i] = NULL
          /\ RoomSide(side)[i] = "free"
    BY <2>1 DEF RoomNext, RoomContent, RoomSide, FreshLinks
  <2>4. RoomSide(side) \in [RoomSleds -> Sides]
    BY <2>2, <2>3 DEF RoomSide
  <2>5. \A i \in RoomSleds : RoomContent[i] = NULL <=> RoomSide(side)[i] = "free"
    BY <2>2, <2>3 DEF Structure
  <2>6. \A i \in RoomSleds : RoomNext[i] # NULL => RoomSide(side)[RoomNext[i]] = RoomSide(side)[i]
    <3> TAKE i \in RoomSleds
    <3>1. CASE i \in Sleds
      BY <2>2, <3>1 DEF Structure
    <3>2. CASE i \notin Sleds
      BY <2>1, <2>3, <3>2
    <3>3. QED
      BY <3>1, <3>2
  <2>7. \A i, j \in RoomSleds : RoomNext[i] = RoomNext[j] /\ RoomNext[i] # NULL => i = j
    <3> TAKE i, j \in RoomSleds
    <3>1. \A k \in Sleds : RoomNext[k] \in Sleds \cup {NULL}
      BY <2>2
    <3>2. \A k \in RoomSleds \ Sleds : RoomNext[k] # NULL => RoomNext[k] = k + 1 /\ k + 1 \notin Sleds
      BY <2>1, <2>3
    <3>3. CASE i \in Sleds /\ j \in Sleds
      BY <2>2, <3>3 DEF Structure
    <3>4. CASE i \notin Sleds /\ j \notin Sleds
      BY <3>2, <3>4
    <3>5. CASE i \in Sleds /\ j \notin Sleds
      BY <3>1, <3>2, <3>5
    <3>6. CASE i \notin Sleds /\ j \in Sleds
      BY <3>1, <3>2, <3>6
    <3>7. QED
      BY <3>3, <3>4, <3>5, <3>6
  <2>8. \A i, j \in RoomSleds : RoomContent[i] = RoomContent[j] /\ RoomContent[i] # NULL => i = j
    BY <2>2, <2>3 DEF Structure
  <2>9. \A i \in Sleds : \A j \in RoomSleds : RoomNext[j] = i => j \in Sleds
    <3> SUFFICES ASSUME NEW i \in Sleds, NEW j \in RoomSleds \ Sleds
                 PROVE  RoomNext[j] # i
      OBVIOUS
    <3>1. RoomNext[j] = j + 1 \/ RoomNext[j] = NULL
      BY <2>3
    <3>2. j + 1 \notin Sleds /\ NULL \notin Sleds
      BY <2>1
    <3>3. QED
      BY <3>1, <3>2
  <2>10. Heads(RoomSleds, RoomNext, RoomSide(side), RoomFree, "free")
    <3>1. RoomFree \in RoomSleds /\ RoomFree \notin Sleds
      BY <2>1
    <3>2. \A i \in Sleds : RoomNext[i] # RoomFree
      BY <2>2, <2>1
    <3>3. \A i \in RoomSleds \ Sleds : RoomNext[i] # RoomFree
      BY <2>3, <2>1
    <3>4. QED
      BY <3>1, <3>2, <3>3, <2>3 DEF Heads
  <2>11. QED
    BY <2>1, <2>2, <2>4, <2>5, <2>6, <2>7, <2>8, <2>9, <2>10 DEF Structure
<1>2. CASE ~ Exhausted
  <2>1. RoomCapacity = capacity /\ RoomFree = free_list /\ free_list \in Sleds /\ free_list # NULL
    BY <1>2 DEF RoomCapacity, RoomFree, Exhausted, Sleds
  <2>2. RoomSleds = Sleds
    BY <2>1 DEF RoomSleds, Sleds
  <2>3. RoomContent = content /\ RoomNext = next /\ RoomSide(side) = side
    BY <2>1, <2>2 DEF RoomContent, RoomNext, RoomSide, RoomSleds
  <2>4. QED
    BY <2>1, <2>2, <2>3
<1>3. QED
  BY <1>1, <1>2

------------------------------------------------------------------------------
\* The head of a free list, filled with x and labelled s.
Taken(S, con, nxt, side, free, x, s, con2, nxt2, side2) ==
  /\ NULL \notin S /\ free \in S /\ x \in Items /\ s \in {"push", "new"}
  /\ con \in [S -> Items \cup {NULL}]
  /\ nxt \in [S -> S \cup {NULL}]
  /\ side \in [S -> Sides]
  /\ Structure(S, con, nxt, side, free)
  /\ \A i \in S : con[i] # x
  /\ con2 = [con EXCEPT ![free] = x]
  /\ nxt2 = [nxt EXCEPT ![free] = NULL]
  /\ side2 = [side EXCEPT ![free] = s]

(* Taking the head of the free list into use: the first half of both pushes.*)
(* The sled taken is a chain of its own, and no other chain is disturbed.   *)
LEMMA TakeFree ==
  ASSUME NEW S, NEW con, NEW nxt, NEW side, NEW free, NEW x, NEW s,
         NEW con2, NEW nxt2, NEW side2,
         Taken(S, con, nxt, side, free, x, s, con2, nxt2, side2)
  PROVE  /\ side2 \in [S -> Sides]
         /\ Structure(S, con2, nxt2, side2, nxt[free])
         /\ Heads(S, nxt2, side2, free, s)
         /\ nxt2[free] = NULL
         /\ \A b : Ended(S, nxt, side, b, "pop") => Ended(S, nxt2, side2, b, "pop")
         /\ \A b : Ended(S, nxt, side, b, "push") => Ended(S, nxt2, side2, b, "push")
<1> USE QueueAssumption DEF Taken
<1>1. free # NULL /\ x # NULL /\ s # "free" /\ side[free] = "free" /\ con[free] = NULL
      /\ \A i \in S : nxt[i] # free
  BY DEF Structure, Heads
<1>2. side2 \in [S -> Sides] /\ nxt2 \in [S -> S \cup {NULL}]
  BY DEF Sides
<1>3. \A i \in S : con2[i] = NULL <=> side2[i] = "free"
  BY <1>1 DEF Structure
<1>4. \A i \in S : nxt2[i] # NULL => side2[nxt2[i]] = side2[i]
  BY <1>1 DEF Structure
<1>5. \A i, j \in S : nxt2[i] = nxt2[j] /\ nxt2[i] # NULL => i = j
  BY <1>1 DEF Structure
<1>6. \A i, j \in S : con2[i] = con2[j] /\ con2[i] # NULL => i = j
  BY <1>1 DEF Structure
<1>7. nxt[free] # NULL => Heads(S, nxt2, side2, nxt[free], "free")
  BY <1>1 DEF Structure, Heads
<1>8. Heads(S, nxt2, side2, free, s)
  BY <1>1 DEF Heads
<1>9. ASSUME NEW b, NEW t \in {"pop", "push"}, Ended(S, nxt, side, b, t)
      PROVE  Ended(S, nxt2, side2, b, t)
  BY <1>1, <1>9 DEF Ended, Heads, Ends
<1>10. QED
  BY <1>2, <1>3, <1>4, <1>5, <1>6, <1>7, <1>8, <1>9 DEF Structure

\* A chain of one sled, relabelled and linked behind the end of the push chain.
LinkedLast(S, con, nxt, side, free, new, last, nxt2, side2) ==
  /\ NULL \notin S
  /\ nxt \in [S -> S \cup {NULL}]
  /\ side \in [S -> Sides]
  /\ Structure(S, con, nxt, side, free)
  /\ Heads(S, nxt, side, new, "new") /\ nxt[new] = NULL
  /\ Ends(S, nxt, side, last, "push")
  /\ nxt2 = [nxt EXCEPT ![last] = new]
  /\ side2 = [side EXCEPT ![new] = "push"]

(* Linking a chain of one sled behind the end of the push chain.            *)
LEMMA LinkLast ==
  ASSUME NEW S, NEW con, NEW nxt, NEW side, NEW free, NEW new, NEW last,
         NEW nxt2, NEW side2,
         LinkedLast(S, con, nxt, side, free, new, last, nxt2, side2)
  PROVE  /\ side2 \in [S -> Sides]
         /\ Structure(S, con, nxt2, side2, free)
         /\ Ends(S, nxt2, side2, new, "push")
         /\ \A h : Heads(S, nxt, side, h, "push") => Heads(S, nxt2, side2, h, "push")
         /\ \A b : Ended(S, nxt, side, b, "pop") => Ended(S, nxt2, side2, b, "pop")
<1> USE DEF LinkedLast
<1>1. /\ new \in S /\ last \in S /\ new # last /\ new # NULL
      /\ side[new] = "new" /\ side[last] = "push" /\ nxt[last] = NULL
      /\ \A i \in S : nxt[i] # new
  BY DEF Heads, Ends
<1>2. side2 \in [S -> Sides] /\ nxt2 \in [S -> S \cup {NULL}]
  BY <1>1 DEF Sides
<1>3. \A i \in S : con[i] = NULL <=> side2[i] = "free"
  BY <1>1 DEF Structure
<1>4. \A i \in S : nxt2[i] # NULL => side2[nxt2[i]] = side2[i]
  BY <1>1 DEF Structure
<1>5. \A i, j \in S : nxt2[i] = nxt2[j] /\ nxt2[i] # NULL => i = j
  BY <1>1 DEF Structure
<1>6. free # NULL => Heads(S, nxt2, side2, free, "free")
  BY <1>1 DEF Structure, Heads
<1>7. Ends(S, nxt2, side2, new, "push")
  BY <1>1 DEF Ends
<1>8. \A h : Heads(S, nxt, side, h, "push") => Heads(S, nxt2, side2, h, "push")
  BY <1>1 DEF Heads
<1>9. \A b : Ended(S, nxt, side, b, "pop") => Ended(S, nxt2, side2, b, "pop")
  BY <1>1 DEF Ended, Heads, Ends
<1>10. QED
  BY <1>2, <1>3, <1>4, <1>5, <1>6, <1>7, <1>8, <1>9 DEF Structure

\* A chain of one sled, relabelled and linked in front of curr.
LinkedBefore(S, con, nxt, side, free, new, curr, prev, b, nxt2, side2) ==
  /\ NULL \notin S /\ b # NULL
  /\ nxt \in [S -> S \cup {NULL}]
  /\ side \in [S -> Sides]
  /\ Structure(S, con, nxt, side, free)
  /\ Heads(S, nxt, side, new, "new") /\ nxt[new] = NULL
  /\ Ended(S, nxt, side, b, "push")
  /\ curr \in S /\ side[curr] = "push"
  /\ prev \in S \cup {NULL}
  /\ prev = NULL => curr = b.first
  /\ prev # NULL => side[prev] = "push" /\ nxt[prev] = curr
  /\ nxt2 = IF prev = NULL THEN [nxt EXCEPT ![new] = curr]
            ELSE [nxt EXCEPT ![new] = curr, ![prev] = new]
  /\ side2 = [side EXCEPT ![new] = "push"]

(* Linking a chain of one sled in front of a sled of the push chain, behind *)
(* its predecessor if it has one: InsertBefore.                             *)
LEMMA LinkBefore ==
  ASSUME NEW S, NEW con, NEW nxt, NEW side, NEW free, NEW new, NEW curr, NEW prev,
         NEW b, NEW nxt2, NEW side2,
         LinkedBefore(S, con, nxt, side, free, new, curr, prev, b, nxt2, side2)
  PROVE  /\ side2 \in [S -> Sides]
         /\ Structure(S, con, nxt2, side2, free)
         /\ Ends(S, nxt2, side2, b.last, "push")
         /\ Heads(S, nxt2, side2, IF prev = NULL THEN new ELSE b.first, "push")
         /\ \A c : Ended(S, nxt, side, c, "pop") => Ended(S, nxt2, side2, c, "pop")
<1> USE DEF LinkedBefore
<1>1. /\ new \in S /\ new # curr /\ new # prev /\ new # NULL /\ side[new] = "new"
      /\ \A i \in S : nxt[i] # new
      /\ Heads(S, nxt, side, b.first, "push") /\ Ends(S, nxt, side, b.last, "push")
  BY DEF Heads, Ended
<1>2. side2 \in [S -> Sides] /\ nxt2 \in [S -> S \cup {NULL}]
  BY <1>1 DEF Sides
<1>3. \A i \in S : con[i] = NULL <=> side2[i] = "free"
  BY <1>1 DEF Structure
<1>4. /\ nxt2[new] = curr
      /\ prev # NULL => nxt2[prev] = new
      /\ \A i \in S : i # new /\ i # prev => nxt2[i] = nxt[i]
      /\ \A i \in S : i # new /\ i # prev => nxt[i] # curr
  <2>1. \A i \in S : i # prev => nxt[i] # curr
    <3>1. CASE prev = NULL
      BY <1>1, <3>1 DEF Heads
    <3>2. CASE prev # NULL
      BY <3>2 DEF Structure
    <3>3. QED
      BY <3>1, <3>2
  <2>2. QED
    BY <1>1, <2>1
<1>5. \A i \in S : nxt2[i] # NULL => side2[nxt2[i]] = side2[i]
  BY <1>1, <1>4 DEF Structure
<1>6. \A i, j \in S : nxt2[i] = nxt2[j] /\ nxt2[i] # NULL => i = j
  BY <1>1, <1>4 DEF Structure
<1>7. free # NULL => Heads(S, nxt2, side2, free, "free")
  BY <1>1, <1>4 DEF Structure, Heads
<1>8. Ends(S, nxt2, side2, b.last, "push")
  BY <1>1, <1>4 DEF Ends
<1>9. Heads(S, nxt2, side2, IF prev = NULL THEN new ELSE b.first, "push")
  BY <1>1, <1>4 DEF Heads
<1>10. \A c : Ended(S, nxt, side, c, "pop") => Ended(S, nxt2, side2, c, "pop")
  BY <1>1, <1>4 DEF Ended, Heads, Ends
<1>11. QED
  BY <1>2, <1>3, <1>5, <1>6, <1>7, <1>8, <1>9, <1>10 DEF Structure

\* The head of the pop chain, emptied and linked in front of the free list.
Popped(S, con, nxt, side, free, b, con2, nxt2, side2) ==
  /\ NULL \notin S /\ b # NULL /\ free \in S \cup {NULL}
  /\ con \in [S -> Items \cup {NULL}]
  /\ nxt \in [S -> S \cup {NULL}]
  /\ side \in [S -> Sides]
  /\ Structure(S, con, nxt, side, free)
  /\ Ended(S, nxt, side, b, "pop")
  /\ con2 = [con EXCEPT ![b.first] = NULL]
  /\ nxt2 = [nxt EXCEPT ![b.first] = free]
  /\ side2 = [side EXCEPT ![b.first] = "free"]

(* Returning the head of the pop chain to the free list: PopFront.          *)
LEMMA PopHead ==
  ASSUME NEW S, NEW con, NEW nxt, NEW side, NEW free, NEW b,
         NEW con2, NEW nxt2, NEW side2,
         Popped(S, con, nxt, side, free, b, con2, nxt2, side2)
  PROVE  /\ side2 \in [S -> Sides]
         /\ Structure(S, con2, nxt2, side2, b.first)
         /\ nxt[b.first] # NULL => /\ Heads(S, nxt2, side2, nxt[b.first], "pop")
                                   /\ Ends(S, nxt2, side2, b.last, "pop")
         /\ \A c : Ended(S, nxt, side, c, "push") => Ended(S, nxt2, side2, c, "push")
<1> USE DEF Popped
<1>1. /\ b.first \in S /\ side[b.first] = "pop" /\ con[b.first] # NULL /\ b.first # free
      /\ \A i \in S : nxt[i] # b.first
      /\ Ends(S, nxt, side, b.last, "pop")
      /\ free # NULL => side[free] = "free" /\ \A i \in S : nxt[i] # free
  BY DEF Ended, Heads, Structure
<1>2. side2 \in [S -> Sides] /\ nxt2 \in [S -> S \cup {NULL}]
  BY <1>1 DEF Sides
<1>3. \A i \in S : con2[i] = NULL <=> side2[i] = "free"
  BY <1>1 DEF Structure
<1>4. \A i \in S : nxt2[i] # NULL => side2[nxt2[i]] = side2[i]
  BY <1>1 DEF Structure
<1>5. \A i, j \in S : nxt2[i] = nxt2[j] /\ nxt2[i] # NULL => i = j
  BY <1>1 DEF Structure
<1>6. \A i, j \in S : con2[i] = con2[j] /\ con2[i] # NULL => i = j
  BY <1>1 DEF Structure
<1>7. Heads(S, nxt2, side2, b.first, "free")
  BY <1>1 DEF Heads
<1>8. ASSUME nxt[b.first] # NULL
      PROVE  Heads(S, nxt2, side2, nxt[b.first], "pop") /\ Ends(S, nxt2, side2, b.last, "pop")
  BY <1>1, <1>8 DEF Structure, Heads, Ends
<1>9. \A c : Ended(S, nxt, side, c, "push") => Ended(S, nxt2, side2, c, "push")
  BY <1>1 DEF Ended, Heads, Ends
<1>10. QED
  BY <1>2, <1>3, <1>4, <1>5, <1>6, <1>7, <1>8, <1>9 DEF Structure

------------------------------------------------------------------------------
(* The one sled array that new_with_capacity lays out: all of it free.      *)
LEMMA InitInv == Init => IInv
<1> USE QueueAssumption
<1>1. StartCapacity \in Nat \ {0}
  BY DEF StartCapacity
<1>2. SUFFICES ASSUME Init
               PROVE  TypeOK /\ Sided
  BY DEF IInv
<1>3. /\ Sleds = 0 .. StartCapacity - 1
      /\ 0 \in Sleds
      /\ next \in [Sleds -> Sleds \cup {NULL}]
      /\ \A i \in Sleds : next[i] = IF i < StartCapacity - 1 THEN i + 1 ELSE NULL
  BY <1>1, <1>2 DEF Init, Sleds, FreshLinks
<1>4. TypeOK
  BY <1>1, <1>2, <1>3 DEF Init, TypeOK
<1>5. Sided
  <2> DEFINE side == [i \in Sleds |-> "free"]
  <2>1. side \in [Sleds -> Sides]
    BY DEF Sides
  <2>2. Structure(Sleds, content, next, side, free_list)
    <3>1. Heads(Sleds, next, side, free_list, "free")
      BY <1>1, <1>2, <1>3 DEF Heads, Init, Sleds
    <3>2. \A i, j \in Sleds : next[i] = next[j] /\ next[i] # NULL => i = j
      BY <1>1, <1>3 DEF Sleds
    <3>3. QED
      BY <1>2, <1>3, <3>1, <3>2 DEF Structure, Init
  <2>3. /\ Ended(Sleds, next, side, pop_buffer, "pop")
        /\ Ended(Sleds, next, side, push_buffer, "push")
        /\ Walking(Sleds, next, side, push_buffer, cursor)
    BY <1>2 DEF Init, Ended, Walking
  <2> HIDE DEF side
  <2>4. cursor = NULL
    BY <1>2 DEF Init
  <2>5. QED
    BY <2>1, <2>2, <2>3, <2>4 DEF Sided
<1>6. QED
  BY <1>4, <1>5

(* Both pushes occupy a sled alike, and keep the array typed.               *)
LEMMA OccupyType ==
  ASSUME TypeOK, NEW p \in Priorities, NEW x \in Items, NEW links,
         links \in [RoomSleds -> RoomSleds \cup {NULL}], Occupy(p, x, links)
  PROVE  /\ Sleds' = RoomSleds
         /\ capacity' \in Nat \ {0}
         /\ content' \in [Sleds' -> Items \cup {NULL}]
         /\ next' \in [Sleds' -> Sleds' \cup {NULL}]
         /\ priority' \in [Sleds' -> Nat]
         /\ free_list' \in Sleds' \cup {NULL}
<1>1. Sleds' = RoomSleds
  BY DEF Occupy, Sleds, RoomSleds
<1>2. QED
  BY <1>1, RoomType, QueueAssumption DEF Occupy

(* A walk is only under way in a push buffer that has a sled.               *)
LEMMA WalkInBuffer ==
  ASSUME TypeOK, Sided, cursor # NULL
  PROVE  /\ alive /\ push_buffer \in Tracker(Sleds) /\ cursor \in Cursor(Sleds)
         /\ cursor.curr = NULL => cursor.prev # NULL
<1> USE QueueAssumption DEF TypeOK
<1>1. PICK side \in [Sleds -> Sides] :
        /\ Ended(Sleds, next, side, push_buffer, "push")
        /\ Walking(Sleds, next, side, push_buffer, cursor)
  BY DEF Sided
<1>2. alive /\ push_buffer \in Tracker(Sleds) /\ cursor \in Cursor(Sleds)
  BY <1>1 DEF Sided, Walking
<1>3. push_buffer.first \in Sleds
  BY <1>2 DEF Tracker
<1>4. QED
  BY <1>1, <1>2, <1>3 DEF Walking, Sleds

(* Every method leaves links, trackers and cursor inside the array, also    *)
(* when increase_capacity has just moved its end.                           *)
LEMMA NextType == IInv /\ [Next]_vars => TypeOK'
<1> SUFFICES ASSUME TypeOK, Sided, [Next]_vars
             PROVE  TypeOK'
  BY DEF IInv
<1> USE QueueAssumption
<1>1. ASSUME NEW p \in Priorities, NEW x \in Items, PushBack(p, x)
      PROVE  TypeOK'
  <2> DEFINE links == next'
  <2>1. links \in [RoomSleds -> RoomSleds \cup {NULL}] /\ Occupy(p, x, links)
    BY <1>1, RoomType DEF PushBack, Occupy
  <2>2. push_buffer' \in Tracker(Sleds')
    BY <1>1, <2>1, RoomType, OccupyType DEF PushBack, Single, Joined, Tracker, TypeOK
  <2>3. pop_buffer' \in Tracker(Sleds') \cup {NULL}
    BY <1>1, <2>1, RoomType, OccupyType DEF PushBack, Tracker, TypeOK
  <2>4. QED
    BY <1>1, <2>1, <2>2, <2>3, OccupyType DEF PushBack, TypeOK, Idle
<1>2. ASSUME NEW p \in Priorities, NEW x \in Items, PushWithPriority(p, x)
      PROVE  TypeOK'
  <2> DEFINE links == next'
  <2>1. links \in [RoomSleds -> RoomSleds \cup {NULL}] /\ Occupy(p, x, links)
    BY <1>2, RoomType DEF PushWithPriority, Occupy
  <2>2. push_buffer' \in Tracker(Sleds')
    BY <1>2, <2>1, RoomType, OccupyType DEF PushWithPriority, Single, Tracker, TypeOK
  <2>3. pop_buffer' \in Tracker(Sleds') \cup {NULL}
    BY <1>2, <2>1, RoomType, OccupyType DEF PushWithPriority, Tracker, TypeOK
  <2>4. cursor' \in Cursor(Sleds') \cup {NULL}
    BY <1>2, <2>1, RoomType, OccupyType DEF PushWithPriority, Cursor, Tracker, TypeOK, Idle
  <2>5. QED
    BY <1>2, <2>1, <2>2, <2>3, <2>4, OccupyType DEF PushWithPriority, TypeOK
<1>3. CASE Walk
  BY <1>3 DEF Walk, array, TypeOK, Sleds, Cursor, Tracker
<1>4. CASE InsertBefore
  <2>1. cursor \in Cursor(Sleds) /\ push_buffer \in Tracker(Sleds)
    BY <1>4, WalkInBuffer DEF InsertBefore
  <2>2. cursor.new \in Sleds /\ cursor.curr \in Sleds /\ cursor.prev \in Sleds \cup {NULL}
    BY <1>4, <2>1 DEF InsertBefore, Cursor
  <2>3. next' \in [Sleds -> Sleds \cup {NULL}]
    BY <1>4, <2>2 DEF InsertBefore, TypeOK
  <2>4. push_buffer' \in Tracker(Sleds)
    BY <1>4, <2>1, <2>2 DEF InsertBefore, Joined, Tracker
  <2>5. QED
    BY <1>4, <2>3, <2>4 DEF InsertBefore, TypeOK, Sleds
<1>5. CASE InsertLast
  <2>1. cursor \in Cursor(Sleds) /\ push_buffer \in Tracker(Sleds)
    BY <1>5, WalkInBuffer DEF InsertLast
  <2>2. cursor.new \in Sleds /\ cursor.prev \in Sleds \cup {NULL}
    BY <2>1 DEF Cursor
  <2>3. next' \in [Sleds -> Sleds \cup {NULL}]
    BY <1>5, <2>2 DEF InsertLast, TypeOK
  <2>4. push_buffer' \in Tracker(Sleds)
    BY <1>5, <2>1, <2>2 DEF InsertLast, Joined, Tracker
  <2>5. QED
    BY <1>5, <2>3, <2>4 DEF InsertLast, TypeOK, Sleds
<1>6. CASE PopFrontEmpty
  BY <1>6 DEF PopFrontEmpty, array, TypeOK, Sleds
<1>7. CASE PopFront
  <2>1. pop_buffer \in Tracker(Sleds) /\ pop_buffer.first \in Sleds
    BY <1>7 DEF PopFront, TypeOK, Tracker
  <2>2. /\ content' \in [Sleds -> Items \cup {NULL}]
        /\ next' \in [Sleds -> Sleds \cup {NULL}]
        /\ priority' \in [Sleds -> Nat]
        /\ free_list' \in Sleds \cup {NULL}
        /\ result' \in Items \cup {NULL}
    BY <1>7, <2>1 DEF PopFront, TypeOK
  <2>3. pop_buffer' \in Tracker(Sleds) \cup {NULL}
    BY <1>7, <2>1 DEF PopFront, TypeOK, Tracker
  <2>4. QED
    BY <1>7, <2>2, <2>3 DEF PopFront, TypeOK, Sleds
<1>8. CASE SwapBuffers
  BY <1>8 DEF SwapBuffers, array, TypeOK, Sleds
<1>9. CASE Drop
  BY <1>9 DEF Drop, TypeOK, Sleds
<1>10. CASE UNCHANGED vars
  BY <1>10 DEF vars, TypeOK, Sleds
<1>11. QED
  BY <1>1, <1>2, <1>3, <1>4, <1>5, <1>6, <1>7, <1>8, <1>9, <1>10 DEF Next

------------------------------------------------------------------------------
(* What the two pushes have in common, with the sled labelled s.            *)
LEMMA OccupySided ==
  ASSUME TypeOK, NEW p \in Priorities, NEW x \in Items, x \notin Held,
         NEW side \in [Sleds -> Sides],
         Structure(Sleds, content, next, side, free_list),
         Ended(Sleds, next, side, pop_buffer, "pop"),
         Ended(Sleds, next, side, push_buffer, "push"),
         NEW s \in {"push", "new"},
         NEW links, links = [RoomNext EXCEPT ![RoomFree] = NULL],
         NEW con2, con2 = [RoomContent EXCEPT ![RoomFree] = x],
         NEW side2, side2 = [RoomSide(side) EXCEPT ![RoomFree] = s]
  PROVE  /\ links \in [RoomSleds -> RoomSleds \cup {NULL}]
         /\ side2 \in [RoomSleds -> Sides]
         /\ Structure(RoomSleds, con2, links, side2, RoomNext[RoomFree])
         /\ Heads(RoomSleds, links, side2, RoomFree, s)
         /\ links[RoomFree] = NULL
         /\ Ended(RoomSleds, links, side2, pop_buffer, "pop")
         /\ Ended(RoomSleds, links, side2, push_buffer, "push")
<1> USE QueueAssumption
<1>1. NULL \notin RoomSleds
  BY RoomType DEF RoomSleds
<1>2. \A i \in RoomSleds : RoomContent[i] # x
  <2>1. \A i \in RoomSleds : RoomContent[i] = (IF i \in Sleds THEN content[i] ELSE NULL)
    BY DEF RoomContent, RoomSleds
  <2>2. \A i \in Sleds : content[i] # x
    BY DEF Held
  <2>3. QED
    BY <2>1, <2>2
<1>3. ASSUME NEW b, NEW t, Ended(Sleds, next, side, b, t)
      PROVE  Ended(RoomSleds, RoomNext, RoomSide(side), b, t)
  <2>1. SUFFICES ASSUME b # NULL
                 PROVE  /\ Heads(RoomSleds, RoomNext, RoomSide(side), b.first, t)
                        /\ Ends(RoomSleds, RoomNext, RoomSide(side), b.last, t)
    BY DEF Ended
  <2>2. Heads(Sleds, next, side, b.first, t) /\ Ends(Sleds, next, side, b.last, t)
    BY <1>3, <2>1 DEF Ended
  <2>3. QED
    BY <2>2, RoomType, RoomStructure DEF Heads, Ends
<1>4. /\ RoomSide(side) \in [RoomSleds -> Sides]
      /\ Structure(RoomSleds, RoomContent, RoomNext, RoomSide(side), RoomFree)
  BY RoomStructure
<1>5. /\ RoomFree \in RoomSleds
      /\ RoomContent \in [RoomSleds -> Items \cup {NULL}]
      /\ RoomNext \in [RoomSleds -> RoomSleds \cup {NULL}]
  BY RoomType
<1>6. /\ Ended(RoomSleds, RoomNext, RoomSide(side), pop_buffer, "pop")
      /\ Ended(RoomSleds, RoomNext, RoomSide(side), push_buffer, "push")
  BY <1>3
<1>7. links \in [RoomSleds -> RoomSleds \cup {NULL}]
  BY <1>5
<1>8. Taken(RoomSleds, RoomContent, RoomNext, RoomSide(side), RoomFree, x, s,
            con2, links, side2)
  BY <1>1, <1>2, <1>4, <1>5 DEF Taken
<1>9. /\ side2 \in [RoomSleds -> Sides]
      /\ Structure(RoomSleds, con2, links, side2, RoomNext[RoomFree])
  BY ONLY <1>8, TakeFree
<1>10. /\ Heads(RoomSleds, links, side2, RoomFree, s)
       /\ links[RoomFree] = NULL
  BY ONLY <1>8, TakeFree
<1>11. /\ Ended(RoomSleds, RoomNext, RoomSide(side), pop_buffer, "pop")
         => Ended(RoomSleds, links, side2, pop_buffer, "pop")
       /\ Ended(RoomSleds, RoomNext, RoomSide(side), push_buffer, "push")
         => Ended(RoomSleds, links, side2, push_buffer, "push")
  BY ONLY <1>8, TakeFree
<1>12. QED
  BY <1>6, <1>7, <1>9, <1>10, <1>11

(* push_back takes the free list's head and links it behind the push        *)
(* chain; the free list and the pop chain stay as they are.                 *)
LEMMA PushBackSided ==
  ASSUME IInv, NEW p \in Priorities, NEW x \in Items, PushBack(p, x)
  PROVE  Sided'
<1> USE QueueAssumption DEF IInv
<1>1. alive /\ cursor = NULL /\ alive' /\ cursor' = NULL /\ x \notin Held
      /\ pop_buffer' = pop_buffer
  BY DEF PushBack, Idle, TypeOK
<1>2. PICK side \in [Sleds -> Sides] :
        /\ Structure(Sleds, content, next, side, free_list)
        /\ Ended(Sleds, next, side, pop_buffer, "pop")
        /\ Ended(Sleds, next, side, push_buffer, "push")
  BY <1>1 DEF Sided
<1>3. Sleds' = RoomSleds /\ RoomFree \in RoomSleds /\ RoomNext \in [RoomSleds -> RoomSleds \cup {NULL}]
  BY RoomType DEF PushBack, Occupy, Sleds, RoomSleds
<1>4. NULL \notin RoomSleds
  BY RoomType DEF RoomSleds
<1> DEFINE links == [RoomNext EXCEPT ![RoomFree] = NULL]
<1>5. /\ content' = [RoomContent EXCEPT ![RoomFree] = x]
      /\ free_list' = RoomNext[RoomFree]
  BY DEF PushBack, Occupy
<1>6. CASE push_buffer = NULL
  <2> DEFINE side2 == [RoomSide(side) EXCEPT ![RoomFree] = "push"]
  <2>1. next' = links /\ push_buffer' = Single(RoomFree)
    BY <1>6 DEF PushBack, Occupy
  <2> HIDE DEF links, side2
  <2>2. /\ side2 \in [RoomSleds -> Sides]
        /\ Structure(RoomSleds, content', links, side2, free_list')
        /\ Heads(RoomSleds, links, side2, RoomFree, "push")
        /\ links[RoomFree] = NULL
        /\ Ended(RoomSleds, links, side2, pop_buffer, "pop")
    BY <1>1, <1>2, <1>5, OccupySided DEF links, side2
  <2>3. Ended(RoomSleds, links, side2, push_buffer', "push")
    BY <2>1, <2>2 DEF Ended, Heads, Ends, Single
  <2>4. QED
    BY <1>1, <1>3, <2>1, <2>2, <2>3 DEF Sided, Walking
<1>7. CASE push_buffer # NULL
  <2> DEFINE last == push_buffer.last
             side1 == [RoomSide(side) EXCEPT ![RoomFree] = "new"]
             side2 == [side1 EXCEPT ![RoomFree] = "push"]
             links2 == [links EXCEPT ![last] = RoomFree]
  <2>1. next' = links2 /\ push_buffer' = Joined(push_buffer, push_buffer.first, RoomFree)
    BY <1>7 DEF PushBack, Occupy
  <2> HIDE DEF links, side1
  <2>2. /\ links \in [RoomSleds -> RoomSleds \cup {NULL}]
        /\ side1 \in [RoomSleds -> Sides]
        /\ Structure(RoomSleds, content', links, side1, free_list')
        /\ Heads(RoomSleds, links, side1, RoomFree, "new")
        /\ links[RoomFree] = NULL
        /\ Ended(RoomSleds, links, side1, pop_buffer, "pop")
        /\ Ended(RoomSleds, links, side1, push_buffer, "push")
    BY <1>1, <1>2, <1>5, OccupySided DEF links, side1
  <2> HIDE DEF last, side2, links2
  <2>3. /\ Ends(RoomSleds, links, side1, last, "push")
        /\ Heads(RoomSleds, links, side1, push_buffer.first, "push")
    BY <1>7, <2>2 DEF Ended, last
  <2>4. /\ side2 \in [RoomSleds -> Sides]
        /\ Structure(RoomSleds, content', links2, side2, free_list')
        /\ Ends(RoomSleds, links2, side2, RoomFree, "push")
        /\ Heads(RoomSleds, links2, side2, push_buffer.first, "push")
        /\ Ended(RoomSleds, links2, side2, pop_buffer, "pop")
    <3>1. LinkedLast(RoomSleds, content', links, side1, free_list', RoomFree, last,
                     links2, side2)
      BY <1>4, <2>2, <2>3 DEF LinkedLast, side2, links2
    <3>2. QED
      BY ONLY <2>2, <2>3, <3>1, LinkLast
  <2>5. Ended(RoomSleds, links2, side2, push_buffer', "push")
    BY <2>1, <2>4 DEF Ended, Joined
  <2>6. QED
    BY <1>1, <1>3, <2>1, <2>4, <2>5 DEF Sided, Walking
<1>8. QED
  BY <1>6, <1>7

(* push_with_priority up to its loop: the sled it takes is a chain of its   *)
(* own, the one the cursor holds, unless the push chain was empty.          *)
LEMMA PushWithPrioritySided ==
  ASSUME IInv, NEW p \in Priorities, NEW x \in Items, PushWithPriority(p, x)
  PROVE  Sided'
<1> USE QueueAssumption DEF IInv
<1>1. alive /\ cursor = NULL /\ alive' /\ x \notin Held /\ pop_buffer' = pop_buffer
  BY DEF PushWithPriority, Idle, TypeOK
<1>2. PICK side \in [Sleds -> Sides] :
        /\ Structure(Sleds, content, next, side, free_list)
        /\ Ended(Sleds, next, side, pop_buffer, "pop")
        /\ Ended(Sleds, next, side, push_buffer, "push")
  BY <1>1 DEF Sided
<1>3. Sleds' = RoomSleds
  BY DEF PushWithPriority, Occupy, Sleds, RoomSleds
<1>4. NULL \notin RoomSleds
  BY RoomType DEF RoomSleds
<1>5. /\ content' = [RoomContent EXCEPT ![RoomFree] = x]
      /\ free_list' = RoomNext[RoomFree]
      /\ next' = [RoomNext EXCEPT ![RoomFree] = NULL]
  BY DEF PushWithPriority, Occupy
<1>6. CASE push_buffer = NULL
  <2> DEFINE side2 == [RoomSide(side) EXCEPT ![RoomFree] = "push"]
  <2>1. push_buffer' = Single(RoomFree) /\ cursor' = NULL
    BY <1>1, <1>6 DEF PushWithPriority
  <2> HIDE DEF side2
  <2>2. /\ side2 \in [RoomSleds -> Sides]
        /\ Structure(RoomSleds, content', next', side2, free_list')
        /\ Heads(RoomSleds, next', side2, RoomFree, "push")
        /\ next'[RoomFree] = NULL
        /\ Ended(RoomSleds, next', side2, pop_buffer, "pop")
    BY <1>1, <1>2, <1>5, OccupySided DEF side2
  <2>3. Ended(RoomSleds, next', side2, push_buffer', "push")
    BY <2>1, <2>2 DEF Ended, Heads, Ends, Single
  <2>4. QED
    BY <1>1, <1>3, <2>1, <2>2, <2>3 DEF Sided, Walking
<1>7. CASE push_buffer # NULL
  <2> DEFINE side2 == [RoomSide(side) EXCEPT ![RoomFree] = "new"]
  <2>1. push_buffer' = push_buffer
        /\ cursor' = [new |-> RoomFree, prev |-> NULL, curr |-> push_buffer.first]
    BY <1>7 DEF PushWithPriority
  <2> HIDE DEF side2
  <2>2. /\ side2 \in [RoomSleds -> Sides]
        /\ Structure(RoomSleds, content', next', side2, free_list')
        /\ Heads(RoomSleds, next', side2, RoomFree, "new")
        /\ next'[RoomFree] = NULL
        /\ Ended(RoomSleds, next', side2, pop_buffer, "pop")
        /\ Ended(RoomSleds, next', side2, push_buffer, "push")
    BY <1>1, <1>2, <1>5, OccupySided DEF side2
  <2>3. side2[push_buffer.first] = "push"
    BY <1>7, <2>2 DEF Ended, Heads
  <2>4. Walking(RoomSleds, next', side2, push_buffer', cursor')
    BY <1>7, <2>1, <2>2, <2>3 DEF Walking
  <2>5. QED
    BY <1>1, <1>3, <2>1, <2>2, <2>4 DEF Sided
<1>8. QED
  BY <1>6, <1>7

(* One iteration of the loop moves the cursor along the push chain only.    *)
LEMMA WalkSided == ASSUME IInv, Walk PROVE Sided'
<1> USE QueueAssumption DEF IInv
<1>1. cursor # NULL /\ alive /\ cursor \in Cursor(Sleds)
  BY WalkInBuffer DEF Walk
<1>2. PICK side \in [Sleds -> Sides] :
        /\ Structure(Sleds, content, next, side, free_list)
        /\ Ended(Sleds, next, side, pop_buffer, "pop")
        /\ Ended(Sleds, next, side, push_buffer, "push")
        /\ Walking(Sleds, next, side, push_buffer, cursor)
  BY <1>1 DEF Sided
<1>3. /\ cursor'.new = cursor.new /\ cursor'.prev = cursor.curr
      /\ cursor'.curr = next[cursor.curr] /\ cursor.curr \in Sleds
  BY <1>1, WalkInBuffer DEF Walk, Cursor, TypeOK
<1>4. Sleds' = Sleds
  BY DEF Walk, array, Sleds
<1>5. cursor.curr # NULL
  BY DEF Walk
<1>6. Walking(Sleds, next, side, push_buffer, cursor')
  BY <1>1, <1>2, <1>3, <1>5 DEF Walking, Structure
<1>7. QED
  BY <1>1, <1>2, <1>4, <1>6 DEF Sided, Walk, array

(* The early return of push_with_priority: the new sled joins the push      *)
(* chain between the two neighbours the cursor stands at.                   *)
LEMMA InsertBeforeSided == ASSUME IInv, InsertBefore PROVE Sided'
<1> USE QueueAssumption DEF IInv
<1>1. /\ cursor # NULL /\ alive /\ alive' = alive /\ cursor' = NULL
      /\ cursor \in Cursor(Sleds) /\ push_buffer \in Tracker(Sleds)
      /\ push_buffer # NULL /\ cursor.curr # NULL
  BY WalkInBuffer DEF InsertBefore, Sided, Walking
<1>2. PICK side \in [Sleds -> Sides] :
        /\ Structure(Sleds, content, next, side, free_list)
        /\ Ended(Sleds, next, side, pop_buffer, "pop")
        /\ Ended(Sleds, next, side, push_buffer, "push")
        /\ Walking(Sleds, next, side, push_buffer, cursor)
  BY <1>1 DEF Sided
<1> DEFINE side2 == [side EXCEPT ![cursor.new] = "push"]
<1>3. NULL \notin Sleds
  BY DEF Sleds, TypeOK
<1>4. /\ Heads(Sleds, next, side, cursor.new, "new") /\ next[cursor.new] = NULL
      /\ cursor.curr \in Sleds /\ side[cursor.curr] = "push"
      /\ cursor.prev \in Sleds \cup {NULL}
      /\ cursor.prev = NULL => cursor.curr = push_buffer.first
      /\ cursor.prev # NULL => side[cursor.prev] = "push" /\ next[cursor.prev] = cursor.curr
  BY <1>1, <1>2 DEF Walking, Cursor
<1>5. next' = IF cursor.prev = NULL THEN [next EXCEPT ![cursor.new] = cursor.curr]
              ELSE [next EXCEPT ![cursor.new] = cursor.curr, ![cursor.prev] = cursor.new]
  BY DEF InsertBefore
<1>6. next \in [Sleds -> Sleds \cup {NULL}]
  BY DEF TypeOK
<1>7. side2 = [side EXCEPT ![cursor.new] = "push"]
  OBVIOUS
<1> HIDE DEF side2
<1>8. /\ side2 \in [Sleds -> Sides]
      /\ Structure(Sleds, content, next', side2, free_list)
      /\ Ends(Sleds, next', side2, push_buffer.last, "push")
      /\ Heads(Sleds, next', side2,
               IF cursor.prev = NULL THEN cursor.new ELSE push_buffer.first, "push")
      /\ Ended(Sleds, next', side2, pop_buffer, "pop")
  <2>1. LinkedBefore(Sleds, content, next, side, free_list, cursor.new, cursor.curr,
                     cursor.prev, push_buffer, next', side2)
    BY <1>1, <1>2, <1>3, <1>4, <1>5, <1>6, <1>7 DEF LinkedBefore
  <2>2. QED
    BY ONLY <1>2, <2>1, LinkBefore
<1>9. /\ push_buffer'.first = IF cursor.prev = NULL THEN cursor.new ELSE push_buffer.first
      /\ push_buffer'.last = push_buffer.last
  BY <1>1 DEF InsertBefore, Joined, Tracker, TypeOK
<1>10. Sleds' = Sleds
  BY DEF InsertBefore, Sleds
<1>11. Ended(Sleds, next', side2, push_buffer', "push")
  BY <1>8, <1>9 DEF Ended
<1>12. content' = content /\ free_list' = free_list /\ pop_buffer' = pop_buffer
  BY DEF InsertBefore
<1>13. QED
  BY <1>1, <1>8, <1>10, <1>11, <1>12 DEF Sided, Walking

(* The loop ran off the push chain: the new sled becomes its last one.      *)
LEMMA InsertLastSided == ASSUME IInv, InsertLast PROVE Sided'
<1> USE QueueAssumption DEF IInv
<1>1. /\ cursor # NULL /\ alive /\ alive' = alive /\ cursor' = NULL
      /\ cursor \in Cursor(Sleds) /\ push_buffer \in Tracker(Sleds)
      /\ push_buffer # NULL /\ cursor.prev # NULL
  BY WalkInBuffer DEF InsertLast, Sided, Walking
<1>2. PICK side \in [Sleds -> Sides] :
        /\ Structure(Sleds, content, next, side, free_list)
        /\ Ended(Sleds, next, side, pop_buffer, "pop")
        /\ Ended(Sleds, next, side, push_buffer, "push")
        /\ Walking(Sleds, next, side, push_buffer, cursor)
  BY <1>1 DEF Sided
<1> DEFINE side2 == [side EXCEPT ![cursor.new] = "push"]
<1>3. NULL \notin Sleds
  BY DEF Sleds, TypeOK
<1>4. /\ Heads(Sleds, next, side, cursor.new, "new") /\ next[cursor.new] = NULL
      /\ Ends(Sleds, next, side, cursor.prev, "push")
  BY <1>1, <1>2 DEF Walking, Cursor, Ends, InsertLast
<1>5. next' = [next EXCEPT ![cursor.prev] = cursor.new]
  BY DEF InsertLast
<1>6. next \in [Sleds -> Sleds \cup {NULL}]
  BY DEF TypeOK
<1>7. side2 = [side EXCEPT ![cursor.new] = "push"]
  OBVIOUS
<1>8. Heads(Sleds, next, side, push_buffer.first, "push")
  BY <1>1, <1>2 DEF Ended
<1> HIDE DEF side2
<1>9. /\ side2 \in [Sleds -> Sides]
      /\ Structure(Sleds, content, next', side2, free_list)
      /\ Ends(Sleds, next', side2, cursor.new, "push")
      /\ Heads(Sleds, next', side2, push_buffer.first, "push")
      /\ Ended(Sleds, next', side2, pop_buffer, "pop")
  <2>1. LinkedLast(Sleds, content, next, side, free_list, cursor.new, cursor.prev,
                   next', side2)
    BY <1>2, <1>3, <1>4, <1>5, <1>6, <1>7 DEF LinkedLast
  <2>2. QED
    BY ONLY <1>2, <1>8, <2>1, LinkLast
<1>10. /\ push_buffer'.first = push_buffer.first
       /\ push_buffer'.last = cursor.new
  BY <1>1 DEF InsertLast, Joined, Tracker, TypeOK
<1>11. Sleds' = Sleds
  BY DEF InsertLast, Sleds
<1>12. Ended(Sleds, next', side2, push_buffer', "push")
  BY <1>9, <1>10 DEF Ended
<1>13. content' = content /\ free_list' = free_list /\ pop_buffer' = pop_buffer
  BY DEF InsertLast
<1>14. QED
  BY <1>1, <1>9, <1>11, <1>12, <1>13 DEF Sided, Walking

(* pop_front moves the first sled of the pop chain to the free list.        *)
LEMMA PopFrontSided == ASSUME IInv, PopFront PROVE Sided'
<1> USE QueueAssumption DEF IInv
<1>1. /\ alive /\ alive' = alive /\ cursor = NULL /\ cursor' = cursor
      /\ pop_buffer # NULL /\ push_buffer' = push_buffer
  BY DEF PopFront, Idle
<1>2. PICK side \in [Sleds -> Sides] :
        /\ Structure(Sleds, content, next, side, free_list)
        /\ Ended(Sleds, next, side, pop_buffer, "pop")
        /\ Ended(Sleds, next, side, push_buffer, "push")
  BY <1>1 DEF Sided
<1> DEFINE side2 == [side EXCEPT ![pop_buffer.first] = "free"]
<1>3. /\ NULL \notin Sleds
      /\ content \in [Sleds -> Items \cup {NULL}]
      /\ next \in [Sleds -> Sleds \cup {NULL}]
      /\ free_list \in Sleds \cup {NULL}
  BY DEF Sleds, TypeOK
<1>4. /\ content' = [content EXCEPT ![pop_buffer.first] = NULL]
      /\ next' = [next EXCEPT ![pop_buffer.first] = free_list]
      /\ free_list' = pop_buffer.first
  BY DEF PopFront
<1>5. side2 = [side EXCEPT ![pop_buffer.first] = "free"]
  OBVIOUS
<1> HIDE DEF side2
<1>6. /\ side2 \in [Sleds -> Sides]
      /\ Structure(Sleds, content', next', side2, free_list')
      /\ next[pop_buffer.first] # NULL =>
           /\ Heads(Sleds, next', side2, next[pop_buffer.first], "pop")
           /\ Ends(Sleds, next', side2, pop_buffer.last, "pop")
      /\ Ended(Sleds, next', side2, push_buffer, "push")
  <2>1. Popped(Sleds, content, next, side, free_list, pop_buffer,
               content', next', side2)
    BY <1>1, <1>2, <1>3, <1>4, <1>5 DEF Popped
  <2>2. side2 \in [Sleds -> Sides] /\ Structure(Sleds, content', next', side2, free_list')
    BY ONLY <1>4, <2>1, PopHead
  <2>3. next[pop_buffer.first] # NULL =>
           /\ Heads(Sleds, next', side2, next[pop_buffer.first], "pop")
           /\ Ends(Sleds, next', side2, pop_buffer.last, "pop")
    BY ONLY <2>1, PopHead
  <2>4. Ended(Sleds, next', side2, push_buffer, "push")
    BY ONLY <1>2, <2>1, PopHead
  <2>5. QED
    BY <2>2, <2>3, <2>4
<1>7. Ended(Sleds, next', side2, pop_buffer', "pop")
  <2>1. CASE next[pop_buffer.first] = NULL
    BY <2>1 DEF PopFront, Ended
  <2>2. CASE next[pop_buffer.first] # NULL
    BY <1>6, <2>2 DEF PopFront, Ended
  <2>3. QED
    BY <2>1, <2>2
<1>8. Sleds' = Sleds
  BY DEF PopFront, Sleds
<1>9. QED
  BY <1>1, <1>6, <1>7, <1>8 DEF Sided, Walking

(* swap_buffers exchanges the two sides and touches no link.                *)
LEMMA SwapBuffersSided == ASSUME IInv, SwapBuffers PROVE Sided'
<1> USE QueueAssumption DEF IInv
<1>1. /\ alive /\ alive' = alive /\ cursor = NULL /\ cursor' = cursor
      /\ pop_buffer' = push_buffer /\ push_buffer' = pop_buffer
      /\ content' = content /\ next' = next /\ free_list' = free_list /\ Sleds' = Sleds
  BY DEF SwapBuffers, Idle, array, Sleds
<1>2. PICK side \in [Sleds -> Sides] :
        /\ Structure(Sleds, content, next, side, free_list)
        /\ Ended(Sleds, next, side, pop_buffer, "pop")
        /\ Ended(Sleds, next, side, push_buffer, "push")
  BY <1>1 DEF Sided
<1> DEFINE side2 == [i \in Sleds |-> IF side[i] = "pop" THEN "push"
                                    ELSE IF side[i] = "push" THEN "pop" ELSE side[i]]
<1>3. side2 \in [Sleds -> Sides] /\ \A i \in Sleds : side2[i] = "free" <=> side[i] = "free"
  BY DEF Sides
<1>4. Structure(Sleds, content, next, side2, free_list)
  BY <1>2, <1>3 DEF Structure, TypeOK, Heads
<1>5. /\ Ended(Sleds, next, side2, pop_buffer, "push")
      /\ Ended(Sleds, next, side2, push_buffer, "pop")
  BY <1>2 DEF Ended, Heads, Ends
<1> HIDE DEF side2
<1>6. QED
  BY <1>1, <1>3, <1>4, <1>5 DEF Sided, Walking

------------------------------------------------------------------------------
(* Every operation of the queue keeps the inductive invariant.              *)
LEMMA NextInv == IInv /\ [Next]_vars => IInv'
<1> SUFFICES ASSUME IInv, [Next]_vars
             PROVE  Sided'
  BY NextType DEF IInv
<1>1. ASSUME NEW p \in Priorities, NEW x \in Items, PushBack(p, x) PROVE Sided'
  BY <1>1, PushBackSided
<1>2. ASSUME NEW p \in Priorities, NEW x \in Items, PushWithPriority(p, x) PROVE Sided'
  BY <1>2, PushWithPrioritySided
<1>3. CASE Walk
  BY <1>3, WalkSided
<1>4. CASE InsertBefore
  BY <1>4, InsertBeforeSided
<1>5. CASE InsertLast
  BY <1>5, InsertLastSided
<1>6. CASE PopFrontEmpty
  BY <1>6 DEF PopFrontEmpty, array, IInv, Sided, Sleds
<1>7. CASE PopFront
  BY <1>7, PopFrontSided
<1>8. CASE SwapBuffers
  BY <1>8, SwapBuffersSided
<1>9. CASE Drop
  BY <1>9 DEF Drop, Idle, Sided
<1>10. CASE UNCHANGED vars
  BY <1>10 DEF vars, IInv, Sided, Sleds
<1>11. QED
  BY <1>1, <1>2, <1>3, <1>4, <1>5, <1>6, <1>7, <1>8, <1>9, <1>10 DEF Next

(* The array keeps its types and its split into chains under every sequence *)
(* of method calls.                                                         *)
THEOREM QueueInvariant == Spec => [](TypeOK /\ Sided)
<1>1. IInv <=> TypeOK /\ Sided
  BY DEF IInv
<1>2. QED
  BY <1>1, InitInv, NextInv, PTL DEF Spec

(* The debug_assert! of push_back and push_with_priority never fires.       *)
THEOREM PushNeverOverwrites == Spec => []PushFindsVacantSled
<1>1. TypeOK /\ Sided => PushFindsVacantSled
  BY QueueAssumption DEF TypeOK, Sided, Structure, Heads, PushFindsVacantSled
<1>2. QED
  BY <1>1, QueueInvariant, PTL

(* An item is in at most one sled until the queue is dropped.               *)
THEOREM ItemsUnique == Spec => [](alive => NoItemTwice)
<1>1. TypeOK /\ Sided => (alive => NoItemTwice)
  BY DEF Sided, Structure, NoItemTwice
<1>2. QED
  BY <1>1, QueueInvariant, PTL
==============================================================================
