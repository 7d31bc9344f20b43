----------------------------- MODULE ContextQueue -----------------------------
(***************************************************************************)
(* The two-sided queue of radlr-rust-runtime/types/context_queue.rs.       *)
(*                                                                         *)
(* One array of sleds holds three disjoint chains linked through `next`:   *)
(* the free list, the pop buffer and the push buffer.  The array is three  *)
(* functions here (content, next, priority), one per field of Sled.  Each  *)
(* method is one action, except that the walk of push_with_priority along  *)
(* the push buffer is one action per iteration of its loop: `cursor` holds *)
(* the loop's locals, and while it is set no other method can be called.   *)
(***************************************************************************)
EXTENDS Integers, Sequences, FiniteSets

CONSTANTS
  Items,         \* the contexts that may be queued
  Priorities,    \* the priorities they may be queued with
  InitCapacity,  \* the capacity asked of new_with_capacity
  LenMod,        \* the length counters are u16: 2^16
  NULL           \* Option::None

ASSUME QueueAssumption ==
  /\ Priorities \subseteq Nat
  /\ InitCapacity \in Nat
  /\ LenMod \in Nat \ {0}
  /\ NULL \notin Items
  /\ NULL \notin Nat

VARIABLES
  capacity,      \* number of sleds in the array
  content,       \* sled -> the item it holds, or NULL
  next,          \* sled -> the sled it links to, or NULL
  priority,      \* sled -> the priority of its item
  free_list,     \* first vacant sled, or NULL
  pop_buffer,    \* tracker of the pop chain, or NULL
  push_buffer,   \* tracker of the push chain, or NULL
  cursor,        \* locals of a push_with_priority walk, or NULL
  result,        \* what the last pop_front returned
  alive          \* FALSE once dropped

vars == <<capacity, content, next, priority, free_list, pop_buffer, push_buffer,
          cursor, result, alive>>

array == <<capacity, content, next, priority>>

Sleds == 0 .. capacity - 1

Tracker(S) == [len : 0 .. LenMod - 1, first : S, last : S]

Cursor(S) == [new : S, prev : S \cup {NULL}, curr : S \cup {NULL}]

\* An Option that is None is not Some of a tracker or of a walk.
ASSUME NoneAssumption == NULL \notin Tracker(Nat) /\ NULL \notin Cursor(Nat)

Held == {content[i] : i \in Sleds} \ {NULL}

Idle == alive /\ cursor = NULL

------------------------------------------------------------------------------
\* Mutated: the last sled of a section links past its end.
FreshLinksPastEnd(start, end) == [i \in start .. end |-> i + 1]

\* init_buffer: the links of a fresh section of the array, a chain up to `end`.
FreshLinks(start, end) == [i \in start .. end |-> IF i < end THEN i + 1 ELSE NULL]

\* new_with_capacity asks for at least one sled.
StartCapacity == IF InitCapacity > 1 THEN InitCapacity ELSE 1

Init ==
  /\ capacity = StartCapacity
  /\ content = [i \in Sleds |-> NULL]
  /\ next = FreshLinks(0, StartCapacity - 1)
  /\ priority = [i \in Sleds |-> 0]
  /\ free_list = 0
  /\ pop_buffer = NULL
  /\ push_buffer = NULL
  /\ cursor = NULL
  /\ result = NULL
  /\ alive = TRUE

\* increase_capacity: the array as it is once there is a vacant sled.  Growing
\* doubles it and makes the new half the free list.
Exhausted == free_list = NULL
RoomCapacity == IF Exhausted THEN 2 * capacity ELSE capacity
RoomFree == IF Exhausted THEN capacity ELSE free_list
RoomContent ==
  [i \in 0 .. RoomCapacity - 1 |-> IF i \in Sleds THEN content[i] ELSE NULL]
RoomNext ==
  [i \in 0 .. RoomCapacity - 1 |->
     IF i \in Sleds THEN next[i] ELSE FreshLinks(capacity, RoomCapacity - 1)[i]]
RoomPriority ==
  [i \in 0 .. RoomCapacity - 1 |-> IF i \in Sleds THEN priority[i] ELSE 0]

\* Both pushes begin alike: take the head of the free list, growing the array
\* when there is none, and fill it; `links` is what becomes of the next fields.
Occupy(p, x, links) ==
  /\ capacity' = RoomCapacity
  /\ free_list' = RoomNext[RoomFree]
  /\ content' = [RoomContent EXCEPT ![RoomFree] = x]
  /\ priority' = [RoomPriority EXCEPT ![RoomFree] = p]
  /\ next' = links

\* Mutated: the length is not counted up.
JoinedUncounted(buffer, first, last) ==
  [len |-> buffer.len, first |-> first, last |-> last]

\* The tracker of a buffer that `new` has just joined.
Joined(buffer, first, last) ==
  [len |-> (buffer.len + 1) % LenMod, first |-> first, last |-> last]

\* The tracker of a buffer whose only sled is `new`.
Single(new) == [len |-> 1 % LenMod, first |-> new, last |-> new]

PushBack(p, x) ==
  /\ Idle
  /\ x \notin Held
  /\ \/ /\ push_buffer = NULL
        /\ Occupy(p, x, [RoomNext EXCEPT ![RoomFree] = NULL])
        /\ push_buffer' = Single(RoomFree)
     \/ /\ push_buffer # NULL
        /\ Occupy(p, x, [RoomNext EXCEPT ![RoomFree] = NULL,
                                         ![push_buffer.last] = RoomFree])
        /\ push_buffer' = Joined(push_buffer, push_buffer.first, RoomFree)
  /\ UNCHANGED <<pop_buffer, cursor, result, alive>>

\* push_with_priority up to its loop.
PushWithPriority(p, x) ==
  /\ Idle
  /\ x \notin Held
  /\ Occupy(p, x, [RoomNext EXCEPT ![RoomFree] = NULL])
  /\ \/ /\ push_buffer = NULL
        /\ push_buffer' = Single(RoomFree)
        /\ UNCHANGED cursor
     \/ /\ push_buffer # NULL
        /\ cursor' = [new |-> RoomFree, prev |-> NULL, curr |-> push_buffer.first]
        /\ UNCHANGED push_buffer
  /\ UNCHANGED <<pop_buffer, result, alive>>

\* One iteration that finds no reason to stop.
Walk ==
  /\ cursor # NULL
  /\ cursor.curr # NULL
  /\ ~ priority[cursor.new] > priority[cursor.curr]
  /\ cursor' = [cursor EXCEPT !.prev = cursor.curr, !.curr = next[cursor.curr]]
  /\ UNCHANGED <<array, free_list, pop_buffer, push_buffer, result, alive>>

\* Mutated: a sled of equal priority stops the walk.
InsertBeforeEqual ==
  /\ cursor # NULL
  /\ cursor.curr # NULL
  /\ priority[cursor.new] >= priority[cursor.curr]
  /\ \/ /\ cursor.prev = NULL
        /\ next' = [next EXCEPT ![cursor.new] = cursor.curr]
        /\ push_buffer' = Joined(push_buffer, cursor.new, push_buffer.last)
     \/ /\ cursor.prev # NULL
        /\ next' = [next EXCEPT ![cursor.new] = cursor.curr, ![cursor.prev] = cursor.new]
        /\ push_buffer' = Joined(push_buffer, push_buffer.first, push_buffer.last)
  /\ cursor' = NULL
  /\ UNCHANGED <<capacity, content, priority, free_list, pop_buffer, result, alive>>

\* The iteration that meets the first sled of lower priority.
InsertBefore ==
  /\ cursor # NULL
  /\ cursor.curr # NULL
  /\ priority[cursor.new] > priority[cursor.curr]
  /\ \/ /\ cursor.prev = NULL
        /\ next' = [next EXCEPT ![cursor.new] = cursor.curr]
        /\ push_buffer' = Joined(push_buffer, cursor.new, push_buffer.last)
     \/ /\ cursor.prev # NULL
        /\ next' = [next EXCEPT ![cursor.new] = cursor.curr, ![cursor.prev] = cursor.new]
        /\ push_buffer' = Joined(push_buffer, push_buffer.first, push_buffer.last)
  /\ cursor' = NULL
  /\ UNCHANGED <<capacity, content, priority, free_list, pop_buffer, result, alive>>

\* The loop ran off the end of the chain.
InsertLast ==
  /\ cursor # NULL
  /\ cursor.curr = NULL
  /\ next' = [next EXCEPT ![cursor.prev] = cursor.new]
  /\ push_buffer' = Joined(push_buffer, push_buffer.first, cursor.new)
  /\ cursor' = NULL
  /\ UNCHANGED <<capacity, content, priority, free_list, pop_buffer, result, alive>>

PopFrontEmpty ==
  /\ Idle
  /\ pop_buffer = NULL
  /\ result' = NULL
  /\ UNCHANGED <<array, free_list, pop_buffer, push_buffer, cursor, alive>>

\* Mutated: the vacated sled does not link to the rest of the free list.
PopFrontLeaking ==
  /\ Idle
  /\ pop_buffer # NULL
  /\ LET first == pop_buffer.first IN
       /\ result' = content[first]
       /\ content' = [content EXCEPT ![first] = NULL]
       /\ next' = [next EXCEPT ![first] = NULL]
       /\ priority' = [priority EXCEPT ![first] = 0]
       /\ free_list' = first
       /\ \/ /\ next[first] = NULL
             /\ pop_buffer' = NULL
          \/ /\ next[first] # NULL
             /\ pop_buffer' = [len   |-> (pop_buffer.len - 1) % LenMod,
                               first |-> next[first],
                               last  |-> pop_buffer.last]
  /\ UNCHANGED <<capacity, push_buffer, cursor, alive>>

\* Mutated: the content is copied out of the sled instead of taken.
PopFrontCopying ==
  /\ Idle
  /\ pop_buffer # NULL
  /\ LET first == pop_buffer.first IN
       /\ result' = content[first]
       /\ next' = [next EXCEPT ![first] = free_list]
       /\ priority' = [priority EXCEPT ![first] = 0]
       /\ free_list' = first
       /\ \/ /\ next[first] = NULL
             /\ pop_buffer' = NULL
          \/ /\ next[first] # NULL
             /\ pop_buffer' = [len   |-> (pop_buffer.len - 1) % LenMod,
                               first |-> next[first],
                               last  |-> pop_buffer.last]
  /\ UNCHANGED <<capacity, content, push_buffer, cursor, alive>>

\* The vacated sled becomes the head of the free list.
PopFront ==
  /\ Idle
  /\ pop_buffer # NULL
  /\ LET first == pop_buffer.first IN
       /\ result' = content[first]
       /\ content' = [content EXCEPT ![first] = NULL]
       /\ next' = [next EXCEPT ![first] = free_list]
       /\ priority' = [priority EXCEPT ![first] = 0]
       /\ free_list' = first
       /\ \/ /\ next[first] = NULL
             /\ pop_buffer' = NULL
          \/ /\ next[first] # NULL
             /\ pop_buffer' = [len   |-> (pop_buffer.len - 1) % LenMod,
                               first |-> next[first],
                               last  |-> pop_buffer.last]
  /\ UNCHANGED <<capacity, push_buffer, cursor, alive>>

SwapBuffers ==
  /\ Idle
  /\ pop_buffer' = push_buffer
  /\ push_buffer' = pop_buffer
  /\ UNCHANGED <<array, free_list, cursor, result, alive>>

\* The sleds from `head` to the end of its chain, in link order.
ChainFrom(head) ==
  LET chain[i \in Sleds] == <<i>> \o (IF next[i] = NULL THEN <<>> ELSE chain[next[i]])
  IN  IF head = NULL THEN <<>> ELSE chain[head]

Chain(buffer) == IF buffer = NULL THEN <<>> ELSE ChainFrom(buffer.first)

Members(s) == {s[i] : i \in DOMAIN s}

\* Mutated: only the pop buffer is walked.
DropPopBuffer ==
  /\ Idle
  /\ alive' = FALSE
  /\ content' = [i \in Sleds |->
                   IF i \in Members(Chain(pop_buffer)) THEN NULL ELSE content[i]]
  /\ pop_buffer' = NULL
  /\ push_buffer' = NULL
  /\ UNCHANGED <<capacity, next, priority, free_list, cursor, result>>

\* Drop takes the content of every sled of the two chains, then frees the
\* array: an item still in a sled is never dropped.
Drop ==
  /\ Idle
  /\ alive' = FALSE
  /\ content' = [i \in Sleds |->
                   IF i \in Members(Chain(pop_buffer)) \cup Members(Chain(push_buffer))
                   THEN NULL ELSE content[i]]
  /\ pop_buffer' = NULL
  /\ push_buffer' = NULL
  /\ UNCHANGED <<capacity, next, priority, free_list, cursor, result>>

Next ==
  \/ \E p \in Priorities, x \in Items : PushBack(p, x) \/ PushWithPriority(p, x)
  \/ Walk
  \/ InsertBefore
  \/ InsertLast
  \/ PopFrontEmpty
  \/ PopFront
  \/ SwapBuffers
  \/ Drop

Spec == Init /\ [][Next]_vars

------------------------------------------------------------------------------
\* Reports of the queue to its callers.
PopLen == IF pop_buffer = NULL THEN 0 ELSE pop_buffer.len
PushLen == IF push_buffer = NULL THEN 0 ELSE push_buffer.len

------------------------------------------------------------------------------
(* Type correctness: every link, tracker and cursor stays inside the array. *)
TypeOK ==
  /\ capacity \in Nat \ {0}
  /\ content \in [Sleds -> Items \cup {NULL}]
  /\ next \in [Sleds -> Sleds \cup {NULL}]
  /\ priority \in [Sleds -> Nat]
  /\ free_list \in Sleds \cup {NULL}
  /\ pop_buffer \in Tracker(Sleds) \cup {NULL}
  /\ push_buffer \in Tracker(Sleds) \cup {NULL}
  /\ cursor \in Cursor(Sleds) \cup {NULL}
  /\ result \in Items \cup {NULL}
  /\ alive \in BOOLEAN

(* The free list, the two buffers and a sled being inserted share the array *)
(* without overlap and without losing a sled: no operation leaks a slot or  *)
(* links one chain into another.                                            *)
Partition ==
  alive =>
    LET chains == <<ChainFrom(free_list), Chain(pop_buffer), Chain(push_buffer),
                    IF cursor = NULL THEN <<>> ELSE <<cursor.new>>>>
    IN  /\ \A s \in Sleds : \E k \in DOMAIN chains : s \in Members(chains[k])
        /\ \A k, m \in DOMAIN chains : \A i \in DOMAIN chains[k], j \in DOMAIN chains[m] :
             chains[k][i] = chains[m][j] => k = m /\ i = j

(* The debug_assert!(incoming.content.is_none()) of both pushes: the free   *)
(* list offers a vacant sled, so a push overwrites no item.                 *)
PushFindsVacantSled == alive /\ free_list # NULL => content[free_list] = NULL

(* No item sits in two sleds: neither popping nor dropping yields it twice. *)
NoItemTwice ==
  \A i, j \in Sleds : content[i] = content[j] /\ content[i] # NULL => i = j

(* Drop reaches every item the queue owns through one of its two buffers.   *)
DropReleasesAll == ~ alive => Held = {}

(* The lengths reported to the parse loops are those of the chains; the     *)
(* loops stop on pop_is_empty(), so a wrong count would abandon contexts.   *)
LenExact ==
  /\ PopLen = Len(Chain(pop_buffer))
  /\ PushLen = Len(Chain(push_buffer))

------------------------------------------------------------------------------
\* The inductive invariant: every sled has a side that links respect, so that
\* what one chain does is invisible to the others.
Sides == {"free", "pop", "push", "new"}

\* h begins a chain of side s; l ends one.
Heads(S, nxt, side, h, s) == h \in S /\ side[h] = s /\ \A i \in S : nxt[i] # h
Ends(S, nxt, side, l, s) == l \in S /\ side[l] = s /\ nxt[l] = NULL

Structure(S, con, nxt, side, free) ==
  /\ \A i \in S : con[i] = NULL <=> side[i] = "free"
  /\ \A i \in S : nxt[i] # NULL => side[nxt[i]] = side[i]
  /\ \A i, j \in S : nxt[i] = nxt[j] /\ nxt[i] # NULL => i = j
  /\ \A i, j \in S : con[i] = con[j] /\ con[i] # NULL => i = j
  /\ free # NULL => Heads(S, nxt, side, free, "free")

Ended(S, nxt, side, buffer, s) ==
  buffer # NULL => /\ Heads(S, nxt, side, buffer.first, s)
                   /\ Ends(S, nxt, side, buffer.last, s)

\* The walk stands between two neighbours of the push chain.
Walking(S, nxt, side, buffer, cur) ==
  cur # NULL =>
    /\ buffer # NULL
    /\ Heads(S, nxt, side, cur.new, "new")
    /\ nxt[cur.new] = NULL
    /\ cur.curr # NULL => side[cur.curr] = "push"
    /\ cur.prev = NULL => cur.curr = buffer.first
    /\ cur.prev # NULL => side[cur.prev] = "push" /\ nxt[cur.prev] = cur.curr

(* The inductive invariant of the proofs: the array splits into the free    *)
(* list, the pop chain, the push chain and a sled being inserted.           *)
Sided ==
  /\ cursor # NULL => alive
  /\ alive => \E side \in [Sleds -> Sides] :
                /\ Structure(Sleds, content, next, side, free_list)
                /\ Ended(Sleds, next, side, pop_buffer, "pop")
                /\ Ended(Sleds, next, side, push_buffer, "push")
                /\ Walking(Sleds, next, side, push_buffer, cursor)

------------------------------------------------------------------------------
\* Refinement: the entries along a chain.
Entries(s) == [i \in DOMAIN s |-> [item |-> content[s[i]], priority |-> priority[s[i]]]]

Abstract ==
  INSTANCE AbstractQueue
    WITH popQ <- Entries(Chain(pop_buffer)), pushQ <- Entries(Chain(push_buffer))

(* The linked lists implement the two sequences of AbstractQueue: order,    *)
(* stability among equal priorities, and the item each pop returns.         *)
ImplementsAbstract == Abstract!AbsSpec
==============================================================================
