---------------------------- MODULE ForkParserProofs ----------------------------
(***************************************************************************)
(* Proof that a context is stepped only while no other one is behind it,   *)
(* that a generation never starts behind the last one, and that a context  *)
(* that accepted is never queued again, for every grammar, every automaton *)
(* and every input.                                                        *)
(*                                                                         *)
(* The invariant follows min_advance through a sweep: either no context    *)
(* has been stepped yet and the next generation is empty, or nothing that  *)
(* is queued, in either buffer, is behind min_advance.  It needs that both *)
(* buffers are sorted, which is what push_with_priority is for, and that   *)
(* what is staged, grouped and merged keeps its position: the push buffer  *)
(* is filled from the stage once the sweep is over, and only Gated at      *)
(* "merge" and "swap" carries the gate across to the next generation.      *)
(*                                                                         *)
(* Part two proves that a reduction finds the symbols of its rule and      *)
(* takes no others, wherever tokens are not shifted in one state and       *)
(* skipped in another: the symbols of a context that count lead through    *)
(* the states of its stack, from one to the next, whatever is skipped      *)
(* between them, shared with other contexts or put in their place by a     *)
(* merge.                                                                  *)
(***************************************************************************)
EXTENDS ForkNodes, TLAPS, FiniteSetTheorems, WellFoundedInduction

------------------------------------------------------------------------------
ContextFields == {"box", "ptr", "stack", "symbols", "finished"}

IsContext(c) == c = [f \in ContextFields |-> c[f]] /\ c.ptr \in Nat

\* A context that has neither accepted nor failed.
IsPending(c) == IsContext(c) /\ ~ c.finished

IsSequence(s) == s \in Seq(ToSet(s))

\* The entries of a buffer, the furthest behind first.
IsQueue(s) ==
  /\ IsSequence(s)
  /\ \A i \in DOMAIN s : IsPending(s[i].item) /\ s[i].priority = - s[i].item.ptr
  /\ \A i, j \in DOMAIN s : i <= j => s[i].item.ptr <= s[j].item.ptr

\* Nothing in a buffer is behind position m.
NotBehind(s, m) == \A i \in DOMAIN s : s[i].item.ptr >= m

\* Nothing has been stepped in this sweep, nor pushed for the next.
Fresh == min_advance = Beyond /\ pushQ = <<>>

\* Nothing that waits is behind the slowest context of the sweep.
NoneBehind == NotBehind(popQ, min_advance) /\ NotBehind(pushQ, min_advance)

(* The invariant, part by part.                                             *)
QueuesSorted == min_advance \in Nat /\ IsQueue(popQ) /\ IsQueue(pushQ)

\* What is staged or grouped is not behind the slowest context either, but for
\* what was completed before and is not queued again.
StagesOnward ==
  /\ IsSequence(reduction_stage)
  /\ IsSequence(completed)
  /\ \A i \in DOMAIN reduction_stage :
       IsContext(reduction_stage[i].ctx) /\ reduction_stage[i].ctx.ptr >= min_advance
  /\ \A i \in DOMAIN completed : IsContext(completed[i]) /\ completed[i].finished
  /\ \A group \in groups :
       IsContext(group[1].ctx) /\ (group[1].ctx.finished \/ group[1].ctx.ptr >= min_advance)

Gated ==
  /\ phase = "pop" => Fresh \/ NoneBehind
  /\ phase = "step" => /\ IsPending(rec_ctx)
                       /\ NotBehind(popQ, rec_ctx.ptr)
                       /\ Fresh \/ (NoneBehind /\ rec_ctx.ptr >= min_advance)
  /\ phase \in {"reduce", "fork"} =>
       IsPending(rec_ctx) /\ rec_ctx.ptr = min_advance /\ NoneBehind
  /\ phase \in {"merge", "swap"} =>
       popQ = <<>> /\ NotBehind(pushQ, min_advance) /\ reduction_stage = <<>>
  /\ phase # "merge" => groups = {}

IInv ==
  /\ task \in Task
  /\ QueuesSorted
  /\ StagesOnward
  /\ Gated

------------------------------------------------------------------------------
(* Every set of natural numbers has a least element.                        *)
LEMMA LeastNatural ==
  ASSUME NEW T, T \subseteq Nat, T # {}
  PROVE  \E m \in T : \A k \in T : m <= k
<1> DEFINE R == OpToRel(<, Nat)
<1>1. IsWellFoundedOn(R, Nat)
  BY NatLessThanWellFounded
<1> HIDE DEF R
<1>2. PICK m \in T : \A k \in T : ~ (<<k, m>> \in R)
  BY <1>1, WFMin
<1>3. \A k \in T : k < m => <<k, m>> \in R
  BY DEF R, OpToRel
<1>4. \A k \in T : ~ k < m
  BY <1>2, <1>3
<1> QED
  BY <1>4

(* What keeps a context a context, and where it stands.                     *)
LEMMA ContextChanged ==
  ASSUME NEW c, IsContext(c), NEW v
  PROVE  /\ IsContext([c EXCEPT !.box = v]) /\ [c EXCEPT !.box = v].ptr = c.ptr
         /\ IsContext([c EXCEPT !.stack = v]) /\ [c EXCEPT !.stack = v].ptr = c.ptr
         /\ IsContext([c EXCEPT !.symbols = v]) /\ [c EXCEPT !.symbols = v].ptr = c.ptr
         /\ IsContext([c EXCEPT !.finished = v]) /\ [c EXCEPT !.finished = v].ptr = c.ptr
         /\ [c EXCEPT !.box = v].finished = c.finished
         /\ [c EXCEPT !.stack = v].finished = c.finished
         /\ [c EXCEPT !.symbols = v].finished = c.finished
         /\ [c EXCEPT !.finished = v].finished = v
BY DEF IsContext, ContextFields

LEMMA ContextMoved ==
  ASSUME NEW c, IsContext(c), NEW n \in Nat
  PROVE  /\ IsContext([c EXCEPT !.ptr = n]) /\ [c EXCEPT !.ptr = n].ptr = n
         /\ [c EXCEPT !.ptr = n].finished = c.finished
BY DEF IsContext, ContextFields

LEMMA ContextMade ==
  ASSUME NEW b, NEW n \in Nat, NEW s, NEW y
  PROVE  IsPending([box |-> b, ptr |-> n, stack |-> s, symbols |-> y, finished |-> FALSE])
BY DEF IsPending, IsContext, ContextFields

(* The steps of a context never take it back, nor finish it.                *)
LEMMA ContextStepped ==
  ASSUME NEW c, IsContext(c)
  PROVE  /\ IsContext(AfterShift(c)) /\ AfterShift(c).ptr = c.ptr + 1
         /\ IsContext(AfterSkip(c)) /\ AfterSkip(c).ptr = c.ptr + 1
         /\ IsContext(Branch(c)) /\ Branch(c).ptr = c.ptr
         /\ \A n : /\ IsContext(Inserted(c, n)) /\ Inserted(c, n).ptr = c.ptr
                   /\ Inserted(c, n).finished = c.finished
         /\ AfterShift(c).finished = c.finished
         /\ AfterSkip(c).finished = c.finished
         /\ Branch(c).finished = c.finished
<1>1. c.ptr \in Nat /\ c.ptr + 1 \in Nat
  BY DEF IsContext
<1>2. c = [f \in ContextFields |-> c[f]]
  BY DEF IsContext
<1>3. PICK m : m = [c EXCEPT !.ptr = c.ptr + 1]
  OBVIOUS
<1>4. IsContext(m) /\ m.ptr = c.ptr + 1 /\ m.finished = c.finished
  BY <1>1, <1>3, ContextMoved
<1>5. PICK v : v = Append(Resumed(c), Plain(Actions(c)[1].state))
  OBVIOUS
<1>6. AfterShift(c) = [m EXCEPT !.stack = v]
  BY <1>2, <1>3, <1>5 DEF AfterShift, ContextFields
<1>7. /\ IsContext(AfterShift(c)) /\ AfterShift(c).ptr = c.ptr + 1
      /\ AfterShift(c).finished = c.finished
  BY <1>4, <1>6 DEF IsContext, ContextFields
<1>8. AfterSkip(c) = m
  BY <1>3 DEF AfterSkip
<1>9. PICK b : b = [c EXCEPT !.box = boxes]
  OBVIOUS
<1>10. IsContext(b) /\ b.ptr = c.ptr /\ b.finished = c.finished
  BY <1>9, ContextChanged
<1>11. PICK u : u = Append(Front(c.stack), [state |-> Last(c.stack).state, branch |-> Head(branches)])
  OBVIOUS
<1>12. Branch(c) = [b EXCEPT !.stack = u]
  BY <1>2, <1>9, <1>11 DEF Branch, ContextFields
<1>13. IsContext(Branch(c)) /\ Branch(c).ptr = c.ptr /\ Branch(c).finished = c.finished
  BY <1>10, <1>12 DEF IsContext, ContextFields
<1>14. ASSUME NEW n
       PROVE  /\ IsContext(Inserted(c, n)) /\ Inserted(c, n).ptr = c.ptr
              /\ Inserted(c, n).finished = c.finished
  BY ContextChanged DEF Inserted
<1> QED
  BY <1>4, <1>7, <1>8, <1>13, <1>14

------------------------------------------------------------------------------
(* Inserting into a sequence.                                               *)
LEMMA InsertAtPlace ==
  ASSUME NEW S, NEW s \in Seq(S), NEW k \in 1 .. Len(s) + 1, NEW e \in S
  PROVE  /\ Q!InsertAt(s, k, e) \in Seq(S)
         /\ Len(Q!InsertAt(s, k, e)) = Len(s) + 1
         /\ \A i \in 1 .. k - 1 : Q!InsertAt(s, k, e)[i] = s[i]
         /\ Q!InsertAt(s, k, e)[k] = e
         /\ \A i \in k + 1 .. Len(s) + 1 : Q!InsertAt(s, k, e)[i] = s[i - 1]
<1> DEFINE a == SubSeq(s, 1, k - 1)
           b == SubSeq(s, k, Len(s))
           c == a \o <<e>>
           t == c \o b
<1>1. Len(s) \in Nat /\ DOMAIN s = 1 .. Len(s) /\ k \in Int /\ k >= 1 /\ k <= Len(s) + 1
      /\ \A i \in 1 .. Len(s) : s[i] \in S
  OBVIOUS
<1>2. a \in Seq(S) /\ Len(a) = k - 1 /\ \A i \in 1 .. k - 1 : a[i] = s[i]
  <2>1. a = [i \in 1 .. k - 1 |-> s[i]]
    BY <1>1
  <2>2. k - 1 \in Nat /\ \A i \in 1 .. k - 1 : i \in 1 .. Len(s)
    BY <1>1
  <2> HIDE DEF a
  <2>3. a \in [1 .. k - 1 -> S]
    BY ONLY <1>1, <2>1, <2>2
  <2> QED
    BY ONLY <2>1, <2>2, <2>3
<1>3. b \in Seq(S) /\ Len(b) = Len(s) - k + 1 /\ \A i \in 1 .. Len(s) - k + 1 : b[i] = s[k + i - 1]
  <2>1. b = [i \in 1 .. Len(s) - k + 1 |-> s[k + i - 1]]
    BY <1>1
  <2>2. Len(s) - k + 1 \in Nat /\ \A i \in 1 .. Len(s) - k + 1 : k + i - 1 \in 1 .. Len(s)
    BY <1>1
  <2>3. b \in [1 .. Len(s) - k + 1 -> S]
    BY <1>1, <2>1, <2>2
  <2> QED
    BY <2>1, <2>2, <2>3
<1> HIDE DEF a, b
<1>4. <<e>> \in Seq(S) /\ Len(<<e>>) = 1 /\ <<e>>[1] = e
  OBVIOUS
<1>5. c \in Seq(S) /\ Len(c) = k /\ (\A i \in 1 .. k - 1 : c[i] = s[i]) /\ c[k] = e
  BY <1>1, <1>2, <1>4
<1> HIDE DEF c
<1>6. t \in Seq(S) /\ Len(t) = Len(s) + 1
  <2>1. c \in Seq(S) /\ b \in Seq(S)
    BY ONLY <1>3, <1>5
  <2>2. c \o b \in Seq(S) /\ Len(c \o b) = Len(c) + Len(b)
    BY ONLY <2>1
  <2>3. t = c \o b
    OBVIOUS
  <2> HIDE DEF t
  <2>4. t \in Seq(S) /\ Len(t) = Len(c) + Len(b)
    BY ONLY <2>2, <2>3
  <2> QED
    BY ONLY <1>1, <1>3, <1>5, <2>4
<1>7. \A i \in 1 .. k : t[i] = c[i]
  BY <1>1, <1>3, <1>5
<1>8. \A i \in k + 1 .. Len(s) + 1 : t[i] = s[i - 1]
  <2> SUFFICES ASSUME NEW i \in k + 1 .. Len(s) + 1 PROVE t[i] = s[i - 1]
    OBVIOUS
  <2>1. i - k \in 1 .. Len(s) - k + 1 /\ k + (i - k) - 1 = i - 1
    BY <1>1
  <2>2. t[i] = b[i - k]
    <3>1. i \in 1 .. Len(c) + Len(b) /\ ~ i <= Len(c)
      BY <1>1, <1>3, <1>5
    <3> QED
      BY <3>1, <1>3, <1>5
  <2> QED
    BY <2>1, <2>2, <1>3
<1> HIDE DEF t
<1>9. /\ \A i \in 1 .. k - 1 : i \in 1 .. k /\ t[i] = s[i]
      /\ t[k] = e
  BY <1>1, <1>5, <1>7
<1>10. Q!InsertAt(s, k, e) = t
  BY DEF Q!InsertAt, a, b, c, t
<1> QED
  BY <1>6, <1>8, <1>9, <1>10

(* A sequence over any set is a sequence over what it holds.                *)
LEMMA SequenceOf ==
  ASSUME NEW S, NEW s \in Seq(S)
  PROVE  IsSequence(s)
<1>1. Len(s) \in Nat /\ DOMAIN s = 1 .. Len(s)
  OBVIOUS
<1>2. s \in [1 .. Len(s) -> ToSet(s)]
  BY <1>1 DEF ToSet
<1> QED
  BY <1>1, <1>2 DEF IsSequence

(* push_with_priority with the negated position keeps the buffer sorted and *)
(* adds nothing but the context.                                            *)
LEMMA PushKeepsOrder ==
  ASSUME NEW c, IsPending(c), IsQueue(pushQ), Push(c)
  PROVE  /\ IsQueue(pushQ')
         /\ \A m \in Int : NotBehind(pushQ, m) /\ c.ptr >= m => NotBehind(pushQ', m)
         /\ popQ' = popQ /\ rec_ctx' = rec_ctx
<1>1. PICK k \in 1 .. Len(pushQ) + 1 :
        /\ \A j \in 1 .. k - 1 : pushQ[j].priority >= - c.ptr
        /\ k <= Len(pushQ) => pushQ[k].priority < - c.ptr
        /\ pushQ' = Q!InsertAt(pushQ, k, [item |-> c, priority |-> - c.ptr])
  BY DEF Push, Q!AbsPushWithPriority
<1>2. popQ' = popQ /\ rec_ctx' = rec_ctx
  BY DEF Push, Q!AbsPushWithPriority
<1>3. PICK e : e = [item |-> c, priority |-> - c.ptr]
  OBVIOUS
<1>4. e.item = c /\ e.priority = - c.ptr
  BY <1>3
<1>5. PICK S : pushQ \in Seq(S) /\ e \in S
  <2>1. pushQ \in Seq(ToSet(pushQ))
    BY DEF IsQueue, IsSequence
  <2>2. Len(pushQ) \in Nat /\ DOMAIN pushQ = 1 .. Len(pushQ)
    BY <2>1
  <2>3. pushQ \in [1 .. Len(pushQ) -> ToSet(pushQ) \cup {e}]
    BY <2>1, <2>2
  <2>4. pushQ \in Seq(ToSet(pushQ) \cup {e})
    BY <2>2, <2>3
  <2> QED
    BY <2>4
<1>6. Len(pushQ) \in Nat /\ DOMAIN pushQ = 1 .. Len(pushQ)
  BY <1>5
<1>7. /\ pushQ' \in Seq(S)
      /\ Len(pushQ') = Len(pushQ) + 1
      /\ \A i \in 1 .. k - 1 : pushQ'[i] = pushQ[i]
      /\ pushQ'[k] = e
      /\ \A i \in k + 1 .. Len(pushQ) + 1 : pushQ'[i] = pushQ[i - 1]
  BY <1>1, <1>3, <1>5, InsertAtPlace
<1>8. DOMAIN pushQ' = 1 .. Len(pushQ) + 1
  BY <1>7
<1>9. \A i \in DOMAIN pushQ' :
        \/ i \in 1 .. k - 1 /\ i \in DOMAIN pushQ
        \/ i = k
        \/ i \in k + 1 .. Len(pushQ) + 1 /\ i - 1 \in DOMAIN pushQ
  BY <1>1, <1>6, <1>8
<1>10. c.ptr \in Nat
  BY DEF IsPending, IsContext
<1>11. \A i \in DOMAIN pushQ : /\ IsPending(pushQ[i].item)
                              /\ pushQ[i].priority = - pushQ[i].item.ptr
                              /\ pushQ[i].item.ptr \in Nat
  BY DEF IsQueue, IsPending, IsContext
<1>12. \A i \in DOMAIN pushQ' : IsPending(pushQ'[i].item) /\ pushQ'[i].priority = - pushQ'[i].item.ptr
  BY <1>4, <1>7, <1>9, <1>11
<1>13. /\ \A i \in DOMAIN pushQ : i <= k - 1 => pushQ[i].item.ptr <= c.ptr
       /\ \A i \in DOMAIN pushQ : i >= k => pushQ[i].item.ptr >= c.ptr
  <2>1. ASSUME NEW i \in DOMAIN pushQ, i <= k - 1 PROVE pushQ[i].item.ptr <= c.ptr
    <3>1. pushQ[i].priority >= - c.ptr
      BY <1>1, <1>6, <2>1
    <3> QED
      BY <3>1, <1>10, <1>11
  <2>2. ASSUME NEW i \in DOMAIN pushQ, i >= k PROVE pushQ[i].item.ptr >= c.ptr
    <3>1. k \in DOMAIN pushQ /\ pushQ[k].priority < - c.ptr
      BY <1>1, <1>6, <2>2
    <3>2. pushQ[k].item.ptr > c.ptr
      BY <3>1, <1>10, <1>11
    <3>3. pushQ[k].item.ptr <= pushQ[i].item.ptr
      BY <2>2, <3>1 DEF IsQueue
    <3> QED
      BY <3>1, <3>2, <3>3, <1>10, <1>11
  <2> QED
    BY <2>1, <2>2
<1>14. ASSUME NEW i \in DOMAIN pushQ', NEW j \in DOMAIN pushQ', i <= j
       PROVE  pushQ'[i].item.ptr <= pushQ'[j].item.ptr
  <2>1. \A m, n \in DOMAIN pushQ : m <= n => pushQ[m].item.ptr <= pushQ[n].item.ptr
    BY DEF IsQueue
  <2>2. i \in Int /\ j \in Int
    BY <1>8
  <2>3. CASE i \in 1 .. k - 1
    <3>1. i \in DOMAIN pushQ /\ pushQ'[i] = pushQ[i]
      BY <2>3, <1>1, <1>6, <1>7
    <3>2. CASE j \in 1 .. k - 1
      BY <3>1, <3>2, <2>1, <1>1, <1>6, <1>7, <1>14
    <3>3. CASE j = k
      BY <3>1, <3>3, <2>3, <1>4, <1>7, <1>13
    <3>4. CASE j \in k + 1 .. Len(pushQ) + 1
      <4>1. j - 1 \in DOMAIN pushQ /\ pushQ'[j] = pushQ[j - 1] /\ i <= j - 1
        BY <3>4, <2>3, <1>1, <1>6, <1>7
      <4> QED
        BY <3>1, <4>1, <2>1
    <3> QED
      BY <3>2, <3>3, <3>4, <1>9
  <2>4. CASE i = k
    <3>1. CASE j = k
      BY <2>4, <3>1, <1>4, <1>7, <1>10
    <3>2. CASE j \in k + 1 .. Len(pushQ) + 1
      <4>1. j - 1 \in DOMAIN pushQ /\ pushQ'[j] = pushQ[j - 1] /\ j - 1 >= k
        BY <3>2, <1>1, <1>6, <1>7
      <4> QED
        BY <2>4, <4>1, <1>4, <1>7, <1>13
    <3> QED
      BY <3>1, <3>2, <2>4, <1>1, <1>9, <1>14
  <2>5. CASE i \in k + 1 .. Len(pushQ) + 1
    <3>1. j \in k + 1 .. Len(pushQ) + 1
      BY <2>5, <1>1, <1>8, <1>14
    <3>2. /\ i - 1 \in DOMAIN pushQ /\ pushQ'[i] = pushQ[i - 1]
          /\ j - 1 \in DOMAIN pushQ /\ pushQ'[j] = pushQ[j - 1]
          /\ i - 1 <= j - 1
      BY <2>5, <3>1, <1>1, <1>6, <1>7, <1>14
    <3> QED
      BY <3>2, <2>1
  <2> QED
    BY <2>3, <2>4, <2>5, <1>9
<1>15. IsQueue(pushQ')
  BY <1>7, <1>12, <1>14, SequenceOf DEF IsQueue
<1>16. ASSUME NEW m \in Int, NotBehind(pushQ, m), c.ptr >= m
       PROVE  NotBehind(pushQ', m)
  BY <1>4, <1>7, <1>9, <1>16 DEF NotBehind
<1> QED
  BY <1>2, <1>15, <1>16

(* Appending adds one element.                                              *)
LEMMA Appended ==
  ASSUME NEW s, IsSequence(s), NEW e
  PROVE  /\ IsSequence(Append(s, e))
         /\ \A i \in DOMAIN Append(s, e) : \/ i \in DOMAIN s /\ Append(s, e)[i] = s[i]
                                           \/ Append(s, e)[i] = e
<1> DEFINE T == ToSet(s) \cup {e}
           t == Append(s, e)
<1>1. s \in Seq(ToSet(s))
  BY DEF IsSequence
<1>2. Len(s) \in Nat /\ DOMAIN s = 1 .. Len(s)
  BY <1>1
<1>3. s \in [1 .. Len(s) -> T]
  BY <1>1, <1>2
<1>4. s \in Seq(T) /\ e \in T
  BY <1>2, <1>3
<1> HIDE DEF T
<1>5. /\ t \in Seq(T) /\ Len(t) = Len(s) + 1 /\ t[Len(s) + 1] = e
      /\ \A i \in 1 .. Len(s) : t[i] = s[i]
  BY <1>4
<1> HIDE DEF t
<1>6. DOMAIN t = 1 .. Len(s) + 1
  BY <1>2, <1>5
<1>7. \A i \in DOMAIN t : (i \in DOMAIN s /\ t[i] = s[i]) \/ t[i] = e
  BY <1>2, <1>5, <1>6
<1>8. IsSequence(t)
  BY <1>5, SequenceOf
<1> QED
  BY <1>7, <1>8 DEF t

(* A buffer without its front.                                              *)
LEMMA PopKeepsOrder ==
  ASSUME NEW s, IsQueue(s), s # <<>>
  PROVE  /\ IsQueue(Tail(s))
         /\ IsPending(Head(s).item)
         /\ NotBehind(Tail(s), Head(s).item.ptr)
         /\ \A m \in Int : NotBehind(s, m) => NotBehind(Tail(s), m) /\ Head(s).item.ptr >= m
<1>1. s \in Seq(ToSet(s))
  BY DEF IsQueue, IsSequence
<1>2. Len(s) \in Nat /\ DOMAIN s = 1 .. Len(s)
  BY <1>1
<1>3. Len(s) # 0 /\ Head(s) = s[1]
  BY <1>1
<1>4. 1 \in DOMAIN s
  BY <1>2, <1>3
<1>5. PICK t : t = Tail(s)
  OBVIOUS
<1>6. t \in Seq(ToSet(s)) /\ Len(t) = Len(s) - 1
  BY <1>1, <1>5
<1>7. DOMAIN t = 1 .. Len(s) - 1
  BY <1>2, <1>6
<1>8. \A i \in DOMAIN t : t[i] = s[i + 1] /\ i + 1 \in DOMAIN s /\ i \in Int
  BY <1>1, <1>2, <1>3, <1>5, <1>7
<1>9. IsQueue(t)
  <2>1. IsSequence(t)
    BY <1>6, SequenceOf
  <2>2. \A i \in DOMAIN t : IsPending(t[i].item) /\ t[i].priority = - t[i].item.ptr
    BY <1>8 DEF IsQueue
  <2>3. ASSUME NEW i \in DOMAIN t, NEW j \in DOMAIN t, i <= j
        PROVE  t[i].item.ptr <= t[j].item.ptr
    <3>1. i + 1 <= j + 1
      BY <1>8, <2>3
    <3> QED
      BY <1>8, <3>1 DEF IsQueue
  <2> QED
    BY <2>1, <2>2, <2>3 DEF IsQueue
<1>10. \A i \in DOMAIN t : t[i].item.ptr \in Nat /\ s[1].item.ptr \in Nat
  BY <1>4, <1>8 DEF IsQueue, IsPending, IsContext
<1>11. NotBehind(t, s[1].item.ptr)
  <2> SUFFICES ASSUME NEW i \in DOMAIN t PROVE t[i].item.ptr >= s[1].item.ptr
    BY DEF NotBehind
  <2>1. 1 <= i + 1
    BY <1>2, <1>7
  <2>2. s[1].item.ptr <= s[i + 1].item.ptr
    BY <1>4, <1>8, <2>1 DEF IsQueue
  <2> QED
    BY <1>8, <1>10, <2>2
<1>12. \A m \in Int : NotBehind(s, m) => NotBehind(t, m) /\ s[1].item.ptr >= m
  BY <1>4, <1>8 DEF NotBehind
<1>13. IsPending(s[1].item)
  BY <1>4 DEF IsQueue
<1> QED
  BY <1>3, <1>5, <1>9, <1>11, <1>12, <1>13

------------------------------------------------------------------------------
(* A group begins with a candidate; a candidate is finished or has just     *)
(* been staged.                                                             *)
IsCandidate(e) == IsContext(e.ctx) /\ (e.ctx.finished \/ e.ctx.ptr >= min_advance)

LEMMA CandidatesAreContexts ==
  ASSUME StagesOnward
  PROVE  /\ DOMAIN Candidates \subseteq Nat /\ IsFiniteSet(DOMAIN Candidates)
         /\ \A i \in DOMAIN Candidates : IsCandidate(Candidates[i])
<1> DEFINE Past(i) == [nonterm |-> Zero[task.grammar], ctx |-> completed[i], follow |-> NULL]
           past == [i \in DOMAIN completed |-> Past(i)]
<1>1. Len(completed) \in Nat /\ DOMAIN completed = 1 .. Len(completed)
  BY DEF StagesOnward, IsSequence
<1>2. Len(reduction_stage) \in Nat /\ DOMAIN reduction_stage = 1 .. Len(reduction_stage)
  BY DEF StagesOnward, IsSequence
<1>3. \A i \in DOMAIN completed : IsCandidate(Past(i))
  BY DEF StagesOnward, IsCandidate
<1> HIDE DEF Past
<1> DEFINE U == ToSet(reduction_stage) \cup {Past(i) : i \in DOMAIN completed}
<1>4. past \in [1 .. Len(completed) -> U] /\ \A i \in DOMAIN completed : past[i] = Past(i)
  BY <1>1
<1>5. reduction_stage \in [1 .. Len(reduction_stage) -> U]
  <2>1. reduction_stage \in [1 .. Len(reduction_stage) -> ToSet(reduction_stage)]
    BY <1>2 DEF StagesOnward, IsSequence
  <2> QED
    BY <2>1
<1>6. Candidates = reduction_stage \o past
  BY DEF Candidates, Past
<1> HIDE DEF past, U
<1>7. past \in Seq(U) /\ Len(past) = Len(completed) /\ reduction_stage \in Seq(U)
  BY <1>1, <1>2, <1>4, <1>5
<1>8. /\ Len(Candidates) = Len(reduction_stage) + Len(completed)
      /\ \A i \in 1 .. Len(reduction_stage) : Candidates[i] = reduction_stage[i]
      /\ \A i \in Len(reduction_stage) + 1 .. Len(reduction_stage) + Len(completed) :
           Candidates[i] = past[i - Len(reduction_stage)]
      /\ DOMAIN Candidates = 1 .. Len(reduction_stage) + Len(completed)
  <2>1. PICK r, p : r = reduction_stage /\ p = past
    OBVIOUS
  <2>2. r \in Seq(U) /\ p \in Seq(U)
    BY <1>7, <2>1
  <2>3. /\ Len(r \o p) = Len(r) + Len(p)
        /\ \A i \in 1 .. Len(r) : (r \o p)[i] = r[i]
        /\ \A i \in Len(r) + 1 .. Len(r) + Len(p) : (r \o p)[i] = p[i - Len(r)]
        /\ DOMAIN (r \o p) = 1 .. Len(r) + Len(p)
    BY ONLY <2>2
  <2> QED
    BY <1>6, <1>7, <2>1, <2>3
<1>10. ASSUME NEW i \in DOMAIN Candidates
       PROVE  IsCandidate(Candidates[i])
  <2>1. CASE i \in 1 .. Len(reduction_stage)
    BY <2>1, <1>2, <1>8 DEF StagesOnward, IsCandidate
  <2>2. CASE i \in Len(reduction_stage) + 1 .. Len(reduction_stage) + Len(completed)
    <3>1. i - Len(reduction_stage) \in DOMAIN completed
      BY <2>2, <1>1, <1>2
    <3> QED
      BY <2>2, <3>1, <1>3, <1>4, <1>8
  <2> QED
    BY <2>1, <2>2, <1>1, <1>2, <1>8
<1>11. DOMAIN Candidates \subseteq Nat /\ IsFiniteSet(DOMAIN Candidates)
  <2>1. IsFiniteSet(1 .. Len(reduction_stage) + Len(completed))
    BY <1>1, <1>2, FS_Interval
  <2> QED
    BY <1>8, <2>1
<1> QED
  BY <1>10, <1>11

(* The first member of a set of numbers.                                    *)
LEMMA NthMember ==
  ASSUME NEW I, I \subseteq Nat, I # {}
  PROVE  Nth(I, 1) \in I
<1>1. PICK i \in I : \A j \in I : i <= j
  BY LeastNatural
<1>2. {j \in I : j <= i} = {i}
  <2>1. \A j \in I : j \in Int /\ (j <= i => j = i) /\ i <= i
    BY <1>1
  <2> QED
    BY <2>1
<1>3. Cardinality({j \in I : j <= i}) = 1
  BY <1>2, FS_Singleton
<1> QED
  BY <1>3 DEF Nth

LEMMA GroupsAreContexts ==
  ASSUME StagesOnward, NEW group \in MergeGroups
  PROVE  IsCandidate(group[1])
<1>1. PICK i \in DOMAIN Candidates : group = GroupOf(i)
  BY DEF MergeGroups
<1>2. PICK I : I = {j \in DOMAIN Candidates :
                      Surroundings(Candidates[j]) = Surroundings(Candidates[i])}
  OBVIOUS
<1>3. i \in I /\ I \subseteq DOMAIN Candidates
  BY <1>2
<1>4. I \subseteq Nat /\ IsFiniteSet(I)
  BY <1>3, CandidatesAreContexts, FS_Subset
<1>5. Cardinality(I) \in Nat /\ Cardinality(I) # 0
  BY <1>3, <1>4, FS_CardinalityType, FS_EmptySet
<1>6. group = [k \in 1 .. Cardinality(I) |-> Candidates[Nth(I, k)]]
  BY <1>1, <1>2 DEF GroupOf, Picked
<1>7. group[1] = Candidates[Nth(I, 1)]
  BY <1>5, <1>6
<1>8. Nth(I, 1) \in DOMAIN Candidates
  BY <1>3, <1>4, NthMember
<1> QED
  BY <1>7, <1>8, CandidatesAreContexts

LastMerged(group) ==
  LET all == Distinct(FlattenSeq(
               [i \in DOMAIN group |-> Interpretations(Last(group[i].ctx.symbols))]))
  IN IF Len(all) = 1 THEN all[1] ELSE Alts(all)

(* Merging keeps a context where it is.                                     *)
LEMMA FollowedIsContext ==
  ASSUME NEW group, IsContext(group[1].ctx)
  PROVE  /\ IsContext(Followed(group)) /\ Followed(group).ptr = group[1].ctx.ptr
         /\ Followed(group).finished = group[1].ctx.finished
<1>1. PICK c : c = group[1].ctx
  OBVIOUS
<1>2. PICK v : Merged(group) = c \/ Merged(group) = [c EXCEPT !.symbols = v]
  <2>1. PICK l : l = Append(Front(c.symbols), LastMerged(group))
    OBVIOUS
  <2>2. Merged(group) = c \/ Merged(group) = [c EXCEPT !.symbols = l]
    BY <1>1, <2>1 DEF Merged, LastMerged, IsContext, ContextFields
  <2> QED
    BY <2>2
<1>3. IsContext(Merged(group)) /\ Merged(group).ptr = c.ptr /\ Merged(group).finished = c.finished
  <2>1. IsContext(c)
    BY <1>1
  <2>2. PICK d : d = [c EXCEPT !.symbols = v]
    OBVIOUS
  <2>3. IsContext(d) /\ d.ptr = c.ptr /\ d.finished = c.finished
    BY <2>1, <2>2, ContextChanged
  <2> QED
    BY ONLY <1>2, <2>1, <2>2, <2>3
<1> QED
  BY <1>1, <1>3, ContextStepped DEF Followed

------------------------------------------------------------------------------
LEMMA BeyondIsNatural == task \in Task => Beyond \in Nat
BY InputAssumption DEF Beyond, Input

LEMMA BeyondKept == task' = task => Beyond' = Beyond
BY DEF Beyond, Input

LEMMA InitIInv == Init => IInv
<1> SUFFICES ASSUME Init PROVE IInv
  OBVIOUS
<1>1. PICK c : c = [box |-> 0, ptr |-> 0, stack |-> <<Plain(Start[task.grammar].state)>>,
                    symbols |-> <<>>, finished |-> FALSE]
  OBVIOUS
<1>2. IsPending(c) /\ c.ptr = 0
  BY <1>1, ContextMade
<1>3. popQ = <<[item |-> c, priority |-> 0]>>
  BY <1>1 DEF Init
<1>4. IsQueue(popQ)
  <2>1. /\ popQ \in Seq({[item |-> c, priority |-> 0]}) /\ DOMAIN popQ = {1}
        /\ popQ[1].item = c /\ popQ[1].priority = 0
    BY <1>3
  <2> QED
    BY <1>2, <2>1, SequenceOf DEF IsQueue
<1>5. IsSequence(<<>>) /\ DOMAIN <<>> = {}
  BY DEF IsSequence
<1>6. IsQueue(pushQ)
  BY <1>5 DEF Init, IsQueue
<1>7. Fresh /\ phase = "pop" /\ groups = {}
  BY DEF Init, Fresh
<1>8. task \in Task /\ min_advance \in Nat
  BY BeyondIsNatural DEF Init
<1>9. StagesOnward
  BY <1>5 DEF Init, StagesOnward
<1> QED
  BY <1>4, <1>6, <1>7, <1>8, <1>9 DEF IInv, QueuesSorted, Gated

------------------------------------------------------------------------------
(* What an action leaves alone keeps its part of the invariant.             *)
LEMMA StillOnward ==
  ASSUME StagesOnward, min_advance' \in Nat, min_advance \in Nat, min_advance' <= min_advance
  PROVE  /\ \A i \in DOMAIN reduction_stage : reduction_stage[i].ctx.ptr >= min_advance'
         /\ \A group \in groups : group[1].ctx.finished \/ group[1].ctx.ptr >= min_advance'
<1>1. \A n \in Nat : n >= min_advance => n >= min_advance'
  OBVIOUS
<1>2. ASSUME NEW i \in DOMAIN reduction_stage
      PROVE  reduction_stage[i].ctx.ptr >= min_advance'
  <2>1. reduction_stage[i].ctx.ptr \in Nat /\ reduction_stage[i].ctx.ptr >= min_advance
    BY DEF StagesOnward, IsContext
  <2> QED
    BY <1>1, <2>1
<1>3. ASSUME NEW group \in groups, ~ group[1].ctx.finished
      PROVE  group[1].ctx.ptr >= min_advance'
  <2>1. group[1].ctx.ptr \in Nat /\ group[1].ctx.ptr >= min_advance
    BY <1>3 DEF StagesOnward, IsContext
  <2> QED
    BY <1>1, <2>1
<1> QED
  BY <1>2, <1>3

LEMMA StagesKept ==
  ASSUME StagesOnward, UNCHANGED <<reduction_stage, groups, completed>>,
         min_advance' \in Nat, min_advance \in Nat, min_advance' <= min_advance
  PROVE  StagesOnward'
<1>1. /\ \A i \in DOMAIN reduction_stage : reduction_stage[i].ctx.ptr >= min_advance'
      /\ \A group \in groups : group[1].ctx.finished \/ group[1].ctx.ptr >= min_advance'
  BY StillOnward
<1> QED
  BY <1>1 DEF StagesOnward

LEMMA QueuesKept ==
  ASSUME QueuesSorted, min_advance' \in Nat, KeepQueue
  PROVE  /\ QueuesSorted'
         /\ \A m : NotBehind(popQ, m) /\ NotBehind(pushQ, m) =>
                   NotBehind(popQ', m) /\ NotBehind(pushQ', m)
BY DEF QueuesSorted, KeepQueue, queueVars

LEMMA QueuesPushed ==
  ASSUME QueuesSorted, min_advance' \in Nat, NEW c, IsPending(c), Push(c)
  PROVE  /\ QueuesSorted'
         /\ \A m \in Int : NotBehind(popQ, m) /\ NotBehind(pushQ, m) /\ c.ptr >= m =>
                           NotBehind(popQ', m) /\ NotBehind(pushQ', m)
         /\ popQ' = popQ /\ rec_ctx' = rec_ctx
<1>1. IsQueue(popQ) /\ IsQueue(pushQ)
  BY DEF QueuesSorted
<1>2. /\ IsQueue(pushQ')
      /\ \A m \in Int : NotBehind(pushQ, m) /\ c.ptr >= m => NotBehind(pushQ', m)
      /\ popQ' = popQ /\ rec_ctx' = rec_ctx
  BY <1>1, PushKeepsOrder
<1> QED
  BY <1>1, <1>2 DEF QueuesSorted

(* The gate: once a context is stepped, min_advance is where it stands and  *)
(* nothing that waits is behind it.                                         *)
Slowest ==
  /\ IsPending(rec_ctx) /\ IsContext(rec_ctx) /\ rec_ctx.ptr \in Nat
  /\ min_advance \in Nat /\ rec_ctx.ptr <= min_advance
  /\ min_advance' = rec_ctx.ptr
  /\ NotBehind(popQ, rec_ctx.ptr) /\ NotBehind(pushQ, rec_ctx.ptr)
  /\ groups = {}

LEMMA SteppedIsSlowest == ASSUME IInv, Stepping PROVE Slowest
<1>1. IsPending(rec_ctx) /\ IsContext(rec_ctx) /\ rec_ctx.ptr \in Nat /\ groups = {}
  BY DEF IInv, Gated, Stepping, IsPending, IsContext
<1>2. NotBehind(popQ, rec_ctx.ptr)
  BY DEF IInv, Gated, Stepping
<1>3. min_advance \in Nat /\ rec_ctx.ptr <= min_advance
  BY <1>1 DEF IInv, QueuesSorted, Stepping, Ahead
<1>4. min_advance' = rec_ctx.ptr
  BY <1>1, <1>3 DEF Stepping
<1>5. NotBehind(pushQ, rec_ctx.ptr)
  <2>1. CASE Fresh
    BY <2>1 DEF Fresh, NotBehind
  <2>2. CASE NoneBehind /\ rec_ctx.ptr >= min_advance
    <3>1. rec_ctx.ptr = min_advance
      BY <1>1, <1>3, <2>2
    <3> QED
      BY <2>2, <3>1 DEF NoneBehind
  <2> QED
    BY <2>1, <2>2 DEF IInv, Gated, Stepping
<1> QED
  BY <1>1, <1>2, <1>3, <1>4, <1>5 DEF Slowest

(* After a reduction, and while it is split, it is the slowest one still.   *)
LEMMA ReducingIsSlowest ==
  ASSUME IInv, phase \in {"reduce", "fork"}, min_advance' = min_advance
  PROVE  Slowest
BY DEF IInv, QueuesSorted, Gated, NoneBehind, IsPending, IsContext, Slowest

(* What is staged stays onward while the slowest context is stepped.        *)
LEMMA StagesSlowest ==
  ASSUME IInv, Slowest, UNCHANGED <<reduction_stage, groups, completed>>
  PROVE  StagesOnward'
BY StagesKept DEF IInv, Slowest

\* An action may leave the slowest context: it is done with, or about to be
\* split, or it has reduced ...
LEMMA SlowestLeft ==
  ASSUME IInv, Slowest, UNCHANGED <<task, groups>>, StagesOnward', KeepQueue,
         phase' \in {"pop", "fork", "reduce"},
         phase' \in {"fork", "reduce"} => IsPending(rec_ctx') /\ rec_ctx'.ptr = rec_ctx.ptr
  PROVE  IInv'
<1>1. QueuesSorted' /\ NotBehind(popQ', rec_ctx.ptr) /\ NotBehind(pushQ', rec_ctx.ptr)
  BY QueuesKept DEF IInv, Slowest
<1>2. NoneBehind'
  BY <1>1 DEF NoneBehind, Slowest
<1>3. Gated'
  BY <1>2 DEF Gated, Slowest
<1> QED
  BY <1>1, <1>3 DEF IInv

\* ... or push it, or a branch of it, no further back than it stands.
LEMMA SlowestPushed ==
  ASSUME IInv, Slowest, UNCHANGED <<task, groups>>, StagesOnward',
         NEW c, IsPending(c), c.ptr >= rec_ctx.ptr, Push(c),
         phase' \in {"pop", "fork"}
  PROVE  IInv'
<1>1. /\ QueuesSorted' /\ NotBehind(popQ', rec_ctx.ptr) /\ NotBehind(pushQ', rec_ctx.ptr)
      /\ rec_ctx' = rec_ctx
  BY QueuesPushed DEF IInv, Slowest
<1>2. NoneBehind'
  BY <1>1 DEF NoneBehind, Slowest
<1>3. Gated'
  BY <1>1, <1>2 DEF Gated, Slowest
<1> QED
  BY <1>1, <1>3 DEF IInv

------------------------------------------------------------------------------
(* The actions, one by one.                                                 *)
LEMMA PopGated == ASSUME IInv, Pop PROVE IInv'
<1>1. /\ popQ # <<>> /\ IsQueue(popQ) /\ IsQueue(pushQ)
      /\ popQ' = Tail(popQ) /\ pushQ' = pushQ /\ rec_ctx' = Head(popQ).item
      /\ phase' = "step" /\ UNCHANGED <<task, min_advance, groups>> /\ groups = {}
  BY DEF IInv, QueuesSorted, Gated, Pop, Q!AbsPopFront, kernelVars
<1>2. /\ IsQueue(popQ') /\ IsPending(rec_ctx') /\ NotBehind(popQ', rec_ctx'.ptr)
      /\ \A m \in Int : NotBehind(popQ, m) => NotBehind(popQ', m) /\ rec_ctx'.ptr >= m
  BY <1>1, PopKeepsOrder
<1>3. QueuesSorted'
  BY <1>1, <1>2 DEF IInv, QueuesSorted
<1>4. min_advance' = min_advance /\ min_advance \in Nat
  BY <1>1 DEF IInv, QueuesSorted
<1>5. Fresh' \/ (NoneBehind' /\ rec_ctx'.ptr >= min_advance')
  <2>1. CASE Fresh
    BY <2>1, <1>1, BeyondKept DEF Fresh
  <2>2. CASE NoneBehind
    BY <2>2, <1>1, <1>2, <1>4 DEF NoneBehind
  <2> QED
    BY <2>1, <2>2 DEF IInv, Gated, Pop
<1>6. Gated'
  BY <1>1, <1>2, <1>5 DEF Gated
<1>7. StagesOnward'
  BY <1>4, StagesKept DEF IInv, Pop, kernelVars
<1> QED
  BY <1>1, <1>3, <1>6, <1>7 DEF IInv

LEMMA HoldBackGated == ASSUME IInv, HoldBack PROVE IInv'
<1>1. /\ IsPending(rec_ctx) /\ rec_ctx.ptr \in Nat /\ NotBehind(popQ, rec_ctx.ptr)
      /\ min_advance \in Nat /\ rec_ctx.ptr >= min_advance
      /\ min_advance' = min_advance /\ task' = task /\ phase' = "pop" /\ Push(rec_ctx)
      /\ groups' = groups /\ groups = {}
  BY DEF IInv, Gated, QueuesSorted, HoldBack, Ahead, IsPending, IsContext, kernelVars
<1>2. NoneBehind
  <2>1. CASE Fresh
    <3>1. \A i \in DOMAIN popQ : popQ[i].item.ptr \in Nat
      BY DEF IInv, QueuesSorted, IsQueue, IsPending, IsContext
    <3>2. \A i \in DOMAIN popQ : popQ[i].item.ptr >= min_advance
      BY <1>1, <3>1 DEF NotBehind
    <3>3. DOMAIN pushQ = {}
      BY <2>1 DEF Fresh
    <3> QED
      BY <3>2, <3>3 DEF NoneBehind, NotBehind
  <2> QED
    BY <2>1 DEF IInv, Gated, HoldBack
<1>3. /\ QueuesSorted'
      /\ NotBehind(popQ', min_advance) /\ NotBehind(pushQ', min_advance)
  BY <1>1, <1>2, QueuesPushed DEF IInv, NoneBehind
<1>4. NoneBehind'
  BY <1>1, <1>3 DEF NoneBehind
<1>5. Gated'
  BY <1>1, <1>4 DEF Gated
<1>6. StagesOnward'
  BY <1>1, StagesKept DEF IInv, HoldBack, kernelVars
<1> QED
  BY <1>1, <1>3, <1>5, <1>6 DEF IInv

\* A context that shifted or skipped in a sweep is pushed where it now stands.
LEMMA InsertGated ==
  ASSUME IInv, NEW c, IsPending(c), c.ptr = rec_ctx.ptr + 1, NEW n, StepInsert(c, n)
  PROVE  IInv'
<1>1. Slowest
  BY SteppedIsSlowest DEF StepInsert
<1>2. IsPending(Inserted(c, n)) /\ Inserted(c, n).ptr = c.ptr
  BY ContextStepped DEF IsPending
<1>3. Inserted(c, n).ptr >= rec_ctx.ptr
  BY <1>1, <1>2 DEF Slowest
<1>4. StagesOnward'
  BY <1>1, StagesSlowest DEF StepInsert
<1>5. UNCHANGED <<task, groups>> /\ phase' = "pop" /\ Push(Inserted(c, n))
  BY DEF StepInsert
<1> QED
  BY <1>1, <1>2, <1>3, <1>4, <1>5, SlowestPushed

LEMMA StepContext == IInv /\ phase = "step" => IsContext(rec_ctx) /\ IsPending(rec_ctx)
BY DEF IInv, Gated, IsPending

LEMMA StepSkipGated == ASSUME IInv, StepSkip PROVE IInv'
BY StepContext, ContextStepped, InsertGated DEF StepSkip, IsPending

LEMMA StepShiftGated == ASSUME IInv, StepShift PROVE IInv'
BY StepContext, ContextStepped, InsertGated DEF StepShift, IsPending

LEMMA StepErrorGated == ASSUME IInv, StepError PROVE IInv'
<1>1. Slowest
  BY SteppedIsSlowest DEF StepError
<1>2. StagesOnward'
  BY <1>1, StagesSlowest DEF StepError
<1> QED
  BY <1>1, <1>2, SlowestLeft DEF StepError

\* A finished context joins those that are completed.
LEMMA CompletedStages ==
  ASSUME StagesOnward, NEW c, IsContext(c), c.finished, completed' = Append(completed, c),
         reduction_stage' = reduction_stage, groups' \subseteq groups,
         min_advance' \in Nat, min_advance \in Nat, min_advance' <= min_advance
  PROVE  StagesOnward'
<1>1. /\ IsSequence(completed')
      /\ \A i \in DOMAIN completed' : IsContext(completed'[i]) /\ completed'[i].finished
  <2>1. /\ IsSequence(completed)
        /\ \A i \in DOMAIN completed : IsContext(completed[i]) /\ completed[i].finished
    BY DEF StagesOnward
  <2>2. /\ IsSequence(Append(completed, c))
        /\ \A i \in DOMAIN Append(completed, c) :
             \/ i \in DOMAIN completed /\ Append(completed, c)[i] = completed[i]
             \/ Append(completed, c)[i] = c
    BY <2>1, Appended
  <2> QED
    BY <2>1, <2>2
<1>2. /\ \A i \in DOMAIN reduction_stage : reduction_stage[i].ctx.ptr >= min_advance'
      /\ \A group \in groups : group[1].ctx.finished \/ group[1].ctx.ptr >= min_advance'
  BY StillOnward
<1> QED
  BY <1>1, <1>2 DEF StagesOnward

LEMMA StepAcceptGated == ASSUME IInv, StepAccept PROVE IInv'
<1>1. Slowest
  BY SteppedIsSlowest DEF StepAccept
<1>2. /\ IsContext([rec_ctx EXCEPT !.finished = TRUE])
      /\ [rec_ctx EXCEPT !.finished = TRUE].finished
  BY <1>1, ContextChanged DEF Slowest
<1>3. StagesOnward'
  BY <1>1, <1>2, CompletedStages DEF IInv, Slowest, StepAccept
<1> QED
  BY <1>1, <1>3, SlowestLeft DEF StepAccept

LEMMA StepForkGated == ASSUME IInv, StepFork PROVE IInv'
<1>1. Slowest
  BY SteppedIsSlowest DEF StepFork
<1>2. StagesOnward'
  BY <1>1, StagesSlowest DEF StepFork
<1> QED
  BY <1>1, <1>2, SlowestLeft DEF StepFork, Slowest

LEMMA SplitGated == ASSUME IInv, Split PROVE IInv'
<1>1. Slowest
  BY ReducingIsSlowest DEF Split
<1>2. StagesOnward'
  BY <1>1, StagesSlowest DEF Split
<1>3. IsPending(Branch(rec_ctx)) /\ Branch(rec_ctx).ptr = rec_ctx.ptr
  BY <1>1, ContextStepped DEF Slowest, IsPending
<1>4. Branch(rec_ctx).ptr >= rec_ctx.ptr
  BY <1>1, <1>3 DEF Slowest
<1>5. UNCHANGED <<task, groups>> /\ phase' \in {"pop", "fork"} /\ Push(Branch(rec_ctx))
  BY DEF Split
<1> QED
  BY <1>1, <1>2, <1>3, <1>4, <1>5, SlowestPushed

\* A reduction does not move a context.
LEMMA ReduceGated == ASSUME IInv, Slowest, Reduce PROVE IInv'
<1>1. PICK k, node :
        rec_ctx' = [rec_ctx EXCEPT !.stack = AfterReduce(rec_ctx),
                                   !.symbols = Append(SubSeq(@, 1, k - 1), Unique(store, node))]
  BY DEF Reduce
<1>2. PICK s, y : /\ s = AfterReduce(rec_ctx)
                  /\ y = Append(SubSeq(rec_ctx.symbols, 1, k - 1), Unique(store, node))
  OBVIOUS
<1>3. rec_ctx' = [rec_ctx EXCEPT !.stack = s, !.symbols = y]
  BY <1>1, <1>2 DEF Slowest, IsContext, ContextFields
<1>4. IsPending(rec_ctx') /\ rec_ctx'.ptr = rec_ctx.ptr
  BY <1>3 DEF Slowest, IsPending, IsContext, ContextFields
<1>5. StagesOnward'
  BY StagesSlowest DEF Reduce
<1>6. UNCHANGED <<task, groups>> /\ phase' = "reduce" /\ KeepQueue
  BY DEF Reduce
<1> QED
  BY <1>4, <1>5, <1>6, SlowestLeft

LEMMA StepReduceGated == ASSUME IInv, StepReduce PROVE IInv'
BY SteppedIsSlowest, ReduceGated DEF StepReduce

LEMMA ReduceAgainGated == ASSUME IInv, ReduceAgain PROVE IInv'
BY ReducingIsSlowest, ReduceGated DEF ReduceAgain, Reducing

\* A context that goes on after a reduction is staged, not queued.
LEMMA StageGated ==
  ASSUME IInv, NEW c, IsContext(c), c.ptr >= rec_ctx.ptr, NEW follow, StageFor(c, follow)
  PROVE  IInv'
<1>1. Slowest
  BY ReducingIsSlowest DEF StageFor, Reducing
<1>2. PICK e : e = [nonterm |-> nonterm, ctx |-> c, follow |-> follow]
  OBVIOUS
<1>3. reduction_stage' = Append(reduction_stage, e) /\ e.ctx = c
  BY <1>2 DEF StageFor
<1>4. /\ IsSequence(reduction_stage)
      /\ \A i \in DOMAIN reduction_stage :
           IsContext(reduction_stage[i].ctx) /\ reduction_stage[i].ctx.ptr >= rec_ctx.ptr
  BY <1>1 DEF IInv, StagesOnward, IsContext, Slowest
<1>5. /\ IsSequence(reduction_stage')
      /\ \A i \in DOMAIN reduction_stage' :
           IsContext(reduction_stage'[i].ctx) /\ reduction_stage'[i].ctx.ptr >= rec_ctx.ptr
  <2>1. /\ IsSequence(Append(reduction_stage, e))
        /\ \A i \in DOMAIN Append(reduction_stage, e) :
             \/ i \in DOMAIN reduction_stage /\ Append(reduction_stage, e)[i] = reduction_stage[i]
             \/ Append(reduction_stage, e)[i] = e
    BY <1>4, Appended
  <2> QED
    BY <1>3, <1>4, <2>1
<1>6. StagesOnward'
  BY <1>1, <1>5 DEF IInv, StagesOnward, StageFor, Slowest
<1>7. UNCHANGED <<task, groups>> /\ phase' = "pop" /\ KeepQueue
  BY DEF StageFor
<1> QED
  BY <1>1, <1>6, <1>7, SlowestLeft

LEMMA ReduceContext == IInv /\ phase = "reduce" => IsContext(rec_ctx) /\ rec_ctx.ptr \in Nat
BY DEF IInv, Gated, IsPending, IsContext

LEMMA ReduceSkipGated == ASSUME IInv, ReduceSkip PROVE IInv'
<1>1. phase = "reduce" /\ StageFor(AfterSkip(rec_ctx), Skipped(Lookahead(rec_ctx)))
  BY DEF ReduceSkip, Reducing, StageFor
<1>2. IsContext(AfterSkip(rec_ctx)) /\ AfterSkip(rec_ctx).ptr >= rec_ctx.ptr
  BY <1>1, ReduceContext, ContextStepped
<1> QED
  BY <1>1, <1>2, StageGated

LEMMA ReduceShiftGated == ASSUME IInv, ReduceShift PROVE IInv'
<1>1. phase = "reduce" /\ StageFor(AfterShift(rec_ctx), Token(Lookahead(rec_ctx)))
  BY DEF ReduceShift, Reducing, StageFor
<1>2. IsContext(AfterShift(rec_ctx)) /\ AfterShift(rec_ctx).ptr >= rec_ctx.ptr
  BY <1>1, ReduceContext, ContextStepped
<1> QED
  BY <1>1, <1>2, StageGated

LEMMA ReduceAcceptGated == ASSUME IInv, ReduceAccept PROVE IInv'
<1>1. phase = "reduce" /\ StageFor([rec_ctx EXCEPT !.finished = TRUE], NULL)
  BY DEF ReduceAccept
<1>2. PICK c : c = [rec_ctx EXCEPT !.finished = TRUE]
  OBVIOUS
<1>3. IsContext(c) /\ c.ptr = rec_ctx.ptr /\ rec_ctx.ptr \in Nat
  BY <1>1, <1>2, ReduceContext, ContextChanged
<1>4. c.ptr >= rec_ctx.ptr /\ StageFor(c, NULL)
  BY <1>1, <1>2, <1>3
<1> QED
  BY <1>3, <1>4, StageGated

LEMMA ReduceErrorGated == ASSUME IInv, ReduceError PROVE IInv'
<1>1. Slowest
  BY ReducingIsSlowest DEF ReduceError, Reducing
<1>2. StagesOnward'
  BY <1>1, StagesSlowest DEF ReduceError
<1> QED
  BY <1>1, <1>2, SlowestLeft DEF ReduceError

LEMMA ReduceForkGated == ASSUME IInv, ReduceFork PROVE IInv'
<1>1. Slowest
  BY ReducingIsSlowest DEF ReduceFork, Reducing
<1>2. StagesOnward'
  BY <1>1, StagesSlowest DEF ReduceFork
<1> QED
  BY <1>1, <1>2, SlowestLeft DEF ReduceFork, Slowest

\* The sweep is over when the pop buffer is empty; what is staged is grouped.
LEMMA EndSweepGated == ASSUME IInv, EndSweep PROVE IInv'
<1>1. /\ popQ = <<>> /\ popQ' = <<>> /\ pushQ' = pushQ
      /\ UNCHANGED <<task, min_advance>> /\ phase' \in {"swap", "merge"}
      /\ groups = {} /\ reduction_stage' = <<>> /\ (phase' = "swap" => groups' = {})
  BY DEF IInv, Gated, EndSweep, Q!AbsPopFront
<1>2. QueuesSorted'
  BY <1>1 DEF IInv, QueuesSorted
<1>3. Gated'
  <2>1. NotBehind(pushQ, min_advance)
    BY DEF IInv, Gated, EndSweep, Fresh, NoneBehind, NotBehind
  <2>2. NotBehind(pushQ', min_advance')
    BY <1>1, <2>1
  <2> QED
    BY <1>1, <2>2 DEF Gated
<1>4. IsSequence(<<>>) /\ DOMAIN <<>> = {}
  BY DEF IsSequence
<1>5. reduction_stage' = <<>> /\ (completed' = completed \/ completed' = <<>>)
  BY DEF EndSweep
<1>6. \A group \in groups' : IsCandidate(group[1])
  BY <1>1, GroupsAreContexts DEF IInv, EndSweep
<1>7. StagesOnward'
  BY <1>1, <1>4, <1>5, <1>6 DEF IInv, StagesOnward, IsCandidate
<1> QED
  BY <1>1, <1>2, <1>3, <1>7 DEF IInv

LEMMA MergeGroupGated == ASSUME IInv, MergeGroup PROVE IInv'
<1>1. PICK group \in groups :
        /\ groups' = groups \ {group}
        /\ \/ /\ group[1].ctx.finished
              /\ completed' = Append(completed, Followed(group)) /\ KeepQueue
           \/ /\ ~ group[1].ctx.finished
              /\ Push(Followed(group)) /\ UNCHANGED completed
  BY DEF MergeGroup
<1>2. /\ IsContext(group[1].ctx)
      /\ group[1].ctx.finished \/ group[1].ctx.ptr >= min_advance
  BY DEF IInv, StagesOnward
<1>3. /\ IsContext(Followed(group)) /\ Followed(group).ptr = group[1].ctx.ptr
      /\ Followed(group).finished = group[1].ctx.finished
  BY <1>2, FollowedIsContext
<1>4. /\ phase = "merge" /\ phase' = phase
      /\ UNCHANGED <<task, min_advance, reduction_stage>>
      /\ min_advance \in Nat /\ min_advance' \in Nat /\ min_advance' <= min_advance
  BY DEF IInv, QueuesSorted, MergeGroup
<1>5. popQ = <<>> /\ NotBehind(popQ, min_advance) /\ NotBehind(pushQ, min_advance)
      /\ reduction_stage' = <<>>
  BY <1>4 DEF IInv, Gated, NotBehind
<1>6. CASE /\ group[1].ctx.finished
           /\ completed' = Append(completed, Followed(group)) /\ KeepQueue
  <2>1. StagesOnward'
    BY <1>1, <1>3, <1>4, <1>6, CompletedStages DEF IInv
  <2>2. QueuesSorted' /\ popQ' = popQ /\ NotBehind(pushQ', min_advance)
    BY <1>4, <1>5, <1>6, QueuesKept DEF IInv, KeepQueue, queueVars
  <2>3. Gated'
    BY <1>4, <1>5, <2>2 DEF Gated
  <2> QED
    BY <1>4, <2>1, <2>2, <2>3 DEF IInv
<1>7. CASE /\ ~ group[1].ctx.finished
           /\ Push(Followed(group)) /\ UNCHANGED completed
  <2>1. StagesOnward'
    BY <1>1, <1>4, <1>7 DEF IInv, StagesOnward
  <2>2. IsPending(Followed(group)) /\ Followed(group).ptr >= min_advance
    BY <1>2, <1>3, <1>7 DEF IsPending
  <2>3. QueuesSorted' /\ popQ' = popQ /\ NotBehind(pushQ', min_advance)
    BY <1>4, <1>5, <1>7, <2>2, QueuesPushed DEF IInv
  <2>4. Gated'
    BY <1>4, <1>5, <2>3 DEF Gated
  <2> QED
    BY <1>4, <2>1, <2>3, <2>4 DEF IInv
<1> QED
  BY <1>1, <1>6, <1>7

LEMMA EndMergeGated == ASSUME IInv, EndMerge PROVE IInv'
<1>1. UNCHANGED <<task, popQ, pushQ, min_advance, reduction_stage, groups, completed>>
  BY DEF EndMerge, queueVars, kernelVars
<1>2. QueuesSorted' /\ StagesOnward'
  BY <1>1, StagesKept DEF IInv, QueuesSorted
<1>3. Gated'
  BY <1>1 DEF IInv, Gated, EndMerge, NotBehind
<1> QED
  BY <1>1, <1>2, <1>3 DEF IInv

\* The next sweep begins with nothing stepped and an empty push buffer.
LEMMA SwapGated == ASSUME IInv, Swap PROVE IInv'
<1>1. popQ = <<>> /\ popQ' = pushQ /\ pushQ' = <<>> /\ min_advance' = Beyond /\ task' = task
      /\ reduction_stage = <<>> /\ groups = {}
      /\ UNCHANGED <<reduction_stage, groups, completed>>
  BY DEF IInv, Gated, Swap, Q!AbsSwapBuffers
<1>2. Fresh'
  BY <1>1, BeyondKept DEF Fresh
<1>3. QueuesSorted'
  BY <1>1, BeyondIsNatural DEF IInv, QueuesSorted
<1>4. Gated'
  BY <1>1, <1>2 DEF Gated, Swap
<1>5. StagesOnward'
  BY <1>1 DEF IInv, StagesOnward
<1> QED
  BY <1>1, <1>3, <1>4, <1>5 DEF IInv

------------------------------------------------------------------------------
LEMMA NextIInv == IInv /\ [Next]_vars => IInv'
<1> SUFFICES ASSUME IInv, [Next]_vars PROVE IInv'
  OBVIOUS
<1>1. CASE Pop
  BY <1>1, PopGated
<1>2. CASE HoldBack
  BY <1>2, HoldBackGated
<1>3. CASE StepSkip
  BY <1>3, StepSkipGated
<1>4. CASE StepShift
  BY <1>4, StepShiftGated
<1>5. CASE StepError
  BY <1>5, StepErrorGated
<1>6. CASE StepAccept
  BY <1>6, StepAcceptGated
<1>7. CASE StepFork
  BY <1>7, StepForkGated
<1>8. CASE StepReduce
  BY <1>8, StepReduceGated
<1>9. CASE ReduceAgain
  BY <1>9, ReduceAgainGated
<1>10. CASE ReduceSkip
  BY <1>10, ReduceSkipGated
<1>11. CASE ReduceShift
  BY <1>11, ReduceShiftGated
<1>12. CASE ReduceAccept
  BY <1>12, ReduceAcceptGated
<1>13. CASE ReduceError
  BY <1>13, ReduceErrorGated
<1>14. CASE ReduceFork
  BY <1>14, ReduceForkGated
<1>15. CASE Split
  BY <1>15, SplitGated
<1>16. CASE EndSweep
  BY <1>16, EndSweepGated
<1>17. CASE MergeGroup
  BY <1>17, MergeGroupGated
<1>18. CASE EndMerge
  BY <1>18, EndMergeGated
<1>19. CASE Swap
  BY <1>19, SwapGated
<1>20. CASE UNCHANGED vars
  <2>1. UNCHANGED <<task, phase, popQ, pushQ, rec_ctx, min_advance, reduction_stage, groups, completed>>
    BY <1>20 DEF vars, queueVars, kernelVars
  <2>2. QueuesSorted' /\ StagesOnward'
    BY <2>1, StagesKept DEF IInv, QueuesSorted
  <2>3. Gated'
    BY <2>1, BeyondKept DEF IInv, Gated, Fresh, NoneBehind, NotBehind
  <2> QED
    BY <2>1, <2>2, <2>3 DEF IInv
<1> QED
  BY <1>1, <1>2, <1>3, <1>4, <1>5, <1>6, <1>7, <1>8, <1>9, <1>10, <1>11, <1>12, <1>13,
     <1>14, <1>15, <1>16, <1>17, <1>18, <1>19, <1>20 DEF Next

(* Through every sweep of fork_meta_kernel both buffers are sorted by       *)
(* position, contexts keep their position while they are staged and merged, *)
(* and nothing that waits is behind min_advance once a context was stepped. *)
THEOREM SweepInvariant == Spec => []IInv
<1> QED
  BY InitIInv, NextIInv, PTL DEF Spec

(* fork_meta_kernel never steps a context while another one, of this        *)
(* generation or of the next, is behind it, whatever the grammar, its       *)
(* ambiguities and the input.                                               *)
THEOREM SlowestGoesFirst == Spec => []SlowestFirst
<1>1. IInv => SlowestFirst
  <2> SUFFICES ASSUME IInv, phase \in {"step", "reduce", "fork"}, ~ Ahead(rec_ctx)
               PROVE  \A c \in Queued : c.ptr >= rec_ctx.ptr
    BY DEF SlowestFirst
  <2>1. NotBehind(popQ, rec_ctx.ptr) /\ NotBehind(pushQ, rec_ctx.ptr)
    <3>1. CASE phase = "step"
      <4>1. /\ NotBehind(popQ, rec_ctx.ptr) /\ rec_ctx.ptr \in Nat
            /\ min_advance \in Nat /\ rec_ctx.ptr <= min_advance
        BY <3>1 DEF IInv, Gated, QueuesSorted, IsPending, IsContext, Ahead
      <4>2. CASE Fresh
        BY <4>1, <4>2 DEF Fresh, NotBehind
      <4>3. CASE NoneBehind /\ rec_ctx.ptr >= min_advance
        <5>1. rec_ctx.ptr = min_advance
          BY <4>1, <4>3
        <5> QED
          BY <4>1, <4>3, <5>1 DEF NoneBehind
      <4> QED
        BY <3>1, <4>2, <4>3 DEF IInv, Gated
    <3>2. CASE phase \in {"reduce", "fork"}
      BY <3>2 DEF IInv, Gated, NoneBehind
    <3> QED
      BY <3>1, <3>2
  <2> QED
    BY <2>1 DEF Queued, Q!Owned, NotBehind
<1> QED
  BY <1>1, SweepInvariant, PTL

(* What a sweep starts with is not behind the slowest of the one before.    *)
NeverBack == Swap => \A c \in Queued' : c.ptr >= min_advance

(* The sweep that fork_meta_kernel starts by swapping its buffers holds no  *)
(* context behind the slowest one of the sweep before: min_advance never    *)
(* falls from one generation to the next, in spite of the contexts that     *)
(* went by the stage, the groups and the merge.                             *)
THEOREM GenerationsAdvance == Spec => [][NeverBack]_vars
<1>1. IInv => NeverBack
  <2> SUFFICES ASSUME IInv, Swap PROVE \A c \in Queued' : c.ptr >= min_advance
    BY DEF NeverBack
  <2>1. popQ' = pushQ /\ pushQ' = <<>> /\ NotBehind(pushQ, min_advance)
    BY DEF IInv, Gated, Swap, Q!AbsSwapBuffers
  <2>2. DOMAIN <<>> = {}
    OBVIOUS
  <2> QED
    BY <2>1, <2>2 DEF Queued, Q!Owned, NotBehind
<1> QED
  BY <1>1, SweepInvariant, PTL

(* What fork_meta_kernel still has to step, and what it hands back.         *)
OnlyPendingQueued ==
  /\ \A c \in Queued : ~ c.finished
  /\ \A i \in DOMAIN completed : completed[i].finished

(* A context that has accepted is never queued again, and only contexts     *)
(* that have accepted are handed back, also when they went by the stage and *)
(* a merge, which looks at the flag of the first of its group only.         *)
THEOREM FinishedStayOut == Spec => []OnlyPendingQueued
<1>1. IInv => OnlyPendingQueued
  BY DEF IInv, QueuesSorted, StagesOnward, IsQueue, IsPending, OnlyPendingQueued, Queued, Q!Owned
<1> QED
  BY <1>1, SweepInvariant, PTL

------------------------------------------------------------------------------
(* Part two: what the symbols and the stack of a context have to do with    *)
(* each other.                                                              *)

FollowsRule(g, n) ==
  [i \in DOMAIN CountedParts(n) |-> CountedParts(n)[i].id] = Rule[g][n.rule].rhs

\* A node as it is made: its key tells a token from a non-terminal, and either
\* from another of the same type, but not a token from a skipped one.
IsNode(g, n) ==
  /\ IsSequence(n.parts) /\ IsSequence(n.key) /\ n.key # <<>>
  /\ n.type \in {"token", "skipped", "nonterm", "alts"}
  /\ n.type = "token" => n.key = <<n.id>> /\ Shifts(g, n.id)
  /\ n.type = "skipped" => n.key = <<n.id>> /\ Skips(g, n.id)
  /\ n.type = "nonterm" => Len(n.key) >= 2 /\ n.key[1] = n.id /\ FollowsRule(g, n)
  /\ n.type = "alts" => n.parts # <<>>

\* A node, and all that is below it.
Sound(g, n) == \E D : n \in D /\ \A m \in D : IsNode(g, m) /\ ToSet(m.parts) \subseteq D

AllSound(g, symbols) == IsSequence(symbols) /\ \A i \in DOMAIN symbols : Sound(g, symbols[i])

CountedIn(symbols) == {i \in DOMAIN symbols : Counted(symbols[i])}

\* p is the increasing enumeration of the m numbers in I.
Enumerates(p, m, I) ==
  /\ p \in [1 .. m -> Nat]
  /\ \A i, j \in 1 .. m : i < j => p[i] < p[j]
  /\ I = {p[i] : i \in 1 .. m}

IsStack(g, stack) ==
  /\ IsSequence(stack) /\ stack # <<>>
  /\ \A j \in DOMAIN stack : stack[j].state \in StatesOf(g)
  /\ stack[1].state = Start[g].state

\* The symbols that count lead through the states of the stack.
Spells(g, stack, symbols) ==
  \E p \in [1 .. Len(stack) - 1 -> Nat] :
    /\ Enumerates(p, Len(stack) - 1, CountedIn(symbols))
    /\ \A j \in 1 .. Len(stack) - 1 :
         Passes(g, stack[j].state, symbols[p[j]].id, stack[j + 1].state)

LookaheadAt(t, ptr) == IF ptr < Len(t.input) THEN t.input[ptr + 1] ELSE END

IsBranch(t, a, state, ptr) ==
  a \in ActionsOn(t.grammar, state, LookaheadAt(t, ptr)) /\ a.act # "skip"

\* A fork branch is an action that the state has where the context stands.
OnBranch(t, c) ==
  \/ Last(c.stack).branch = NULL
  \/ IsBranch(t, Last(c.stack).branch, Last(c.stack).state, c.ptr)

Fits(t, c) ==
  /\ AllSound(t.grammar, c.symbols)
  /\ IsStack(t.grammar, c.stack)
  /\ Spells(t.grammar, c.stack, c.symbols)
  /\ OnBranch(t, c)

JustReduced(c) == c.symbols # <<>> /\ Last(c.symbols).type = "nonterm"

IsLeaf(g, n) == n # NULL /\ Sound(g, n) /\ n.type \in {"token", "skipped"}

\* A candidate of a merge: its stack is ahead of its symbols by what follows.
FitsMerge(t, e) ==
  /\ AllSound(t.grammar, e.ctx.symbols) /\ e.ctx.symbols # <<>>
  /\ IsContext(e.ctx)
  /\ e.follow = NULL \/ IsLeaf(t.grammar, e.follow)
  /\ ~ e.ctx.finished =>
       /\ JustReduced(e.ctx)
       /\ e.follow # NULL
       /\ IsStack(t.grammar, e.ctx.stack)
       /\ Spells(t.grammar, e.ctx.stack, Append(e.ctx.symbols, e.follow))
       /\ OnBranch(t, e.ctx)

IsStore(g, S) == \A m \in S : Sound(g, m) /\ m.type # "alts"

QueueFits == \A c \in Queued : Fits(task, c)

SteppedFits ==
  /\ phase \in {"step", "reduce", "fork"} => Fits(task, rec_ctx)
  /\ phase = "reduce" => JustReduced(rec_ctx)
  /\ phase = "fork" =>
       /\ IsSequence(branches) /\ branches # <<>>
       /\ \A i \in DOMAIN branches :
            IsBranch(task, branches[i], Last(rec_ctx.stack).state, rec_ctx.ptr)

StagesFit ==
  /\ \A i \in DOMAIN reduction_stage : FitsMerge(task, reduction_stage[i])
  /\ \A i \in DOMAIN completed : /\ AllSound(task.grammar, completed[i].symbols)
                                /\ completed[i].symbols # <<>>
  /\ \A group \in groups : /\ IsSequence(group) /\ group # <<>>
                           /\ \A i \in DOMAIN group : FitsMerge(task, group[i])

AllFits == IsStore(task.grammar, store) /\ QueueFits /\ SteppedFits /\ StagesFit

FitInv == LayoutApart => AllFits

------------------------------------------------------------------------------
(* Counting what an increasing function enumerates.                         *)
Taken(p, a, b) == {p[i] : i \in a .. b}

\* As many as there are arguments.
LEMMA EnumeratedCount ==
  ASSUME NEW m \in Nat, NEW I, NEW p, Enumerates(p, m, I),
         NEW a \in 1 .. m + 1, NEW b \in 0 .. m, a <= b + 1
  PROVE  Cardinality(Taken(p, a, b)) = b - a + 1
<1> DEFINE T == {p[i] : i \in a .. b}
           f == [i \in a .. b |-> p[i]]
<1>1. IsFiniteSet(a .. b) /\ Cardinality(a .. b) = b - a + 1
  <2>1. a \in Int /\ b \in Int /\ (a > b => b - a + 1 = 0)
    OBVIOUS
  <2>2. IsFiniteSet(a .. b) /\ Cardinality(a .. b) = IF a > b THEN 0 ELSE b - a + 1
    BY <2>1, FS_Interval
  <2> QED
    BY <2>1, <2>2
<1>2. \A i \in a .. b : i \in 1 .. m
  OBVIOUS
<1>3. \A i, j \in a .. b : f[i] = f[j] => i = j
  <2> SUFFICES ASSUME NEW i \in a .. b, NEW j \in a .. b, i # j PROVE p[i] # p[j]
    OBVIOUS
  <2>1. i < j \/ j < i
    OBVIOUS
  <2>2. p[i] \in Nat /\ p[j] \in Nat
    BY <1>2 DEF Enumerates
  <2> QED
    BY <1>2, <2>1, <2>2 DEF Enumerates
<1>4. f \in Bijection(a .. b, T)
  <2>1. f \in [a .. b -> T] /\ \A t \in T : \E i \in a .. b : f[i] = t
    OBVIOUS
  <2> HIDE DEF f, T
  <2> QED
    BY <1>3, <2>1 DEF Bijection, Injection, Surjection, IsInjective
<1>5. ExistsBijection(a .. b, T)
  BY <1>4 DEF ExistsBijection
<1> HIDE DEF T
<1>6. Cardinality(T) = Cardinality(a .. b)
  BY <1>1, <1>5, FS_Bijection
<1> QED
  BY <1>1, <1>6 DEF T, Taken

\* It keeps the order.
LEMMA EnumeratedOrder ==
  ASSUME NEW m \in Nat, NEW I, NEW p, Enumerates(p, m, I), NEW i \in 1 .. m, NEW j \in 1 .. m
  PROVE  p[i] \in Nat /\ (p[i] <= p[j] <=> i <= j) /\ (p[i] = p[j] <=> i = j)
<1>1. p[i] \in Nat /\ p[j] \in Nat /\ (i < j => p[i] < p[j]) /\ (j < i => p[j] < p[i])
  BY DEF Enumerates
<1> QED
  BY <1>1

\* Nth is the increasing enumeration.
LEMMA NthEnumerated ==
  ASSUME NEW m \in Nat, NEW I, NEW p, Enumerates(p, m, I)
  PROVE  Cardinality(I) = m /\ \A k \in 1 .. m : Nth(I, k) = p[k]
<1>1. I = Taken(p, 1, m)
  BY DEF Enumerates, Taken
<1>2. Cardinality(I) = m
  <2>1. 1 \in 1 .. m + 1 /\ m \in 0 .. m /\ 1 <= m + 1
    OBVIOUS
  <2> QED
    BY <1>1, <2>1, EnumeratedCount
<1>3. \A k \in 1 .. m : Cardinality({j \in I : j <= p[k]}) = k
  <2> SUFFICES ASSUME NEW k \in 1 .. m PROVE Cardinality({j \in I : j <= p[k]}) = k
    OBVIOUS
  <2>1. {j \in I : j <= p[k]} = Taken(p, 1, k)
    <3>1. \A i \in 1 .. m : p[i] <= p[k] <=> i <= k
      BY EnumeratedOrder
    <3>2. \A i \in 1 .. k : i \in 1 .. m
      OBVIOUS
    <3> QED
      BY <1>1, <3>1, <3>2 DEF Taken
  <2>2. 1 \in 1 .. m + 1 /\ k \in 0 .. m /\ 1 <= k + 1
    OBVIOUS
  <2>3. Cardinality(Taken(p, 1, k)) = k
    BY <2>2, EnumeratedCount
  <2> QED
    BY <2>1, <2>3
<1>4. \A k \in 1 .. m : \A i \in I : Cardinality({j \in I : j <= i}) = k => i = p[k]
  BY <1>1, <1>3 DEF Taken
<1>5. \A k \in 1 .. m : p[k] \in I
  BY <1>1 DEF Taken
<1> QED
  BY <1>2, <1>3, <1>4, <1>5 DEF Nth

\* How many are not below a given one.
LEMMA EnumeratedFrom ==
  ASSUME NEW m \in Nat, NEW I, NEW p, Enumerates(p, m, I), NEW k \in 1 .. m
  PROVE  Cardinality({j \in I : j >= p[k]}) = m - k + 1
<1>1. {j \in I : j >= p[k]} = Taken(p, k, m)
  <2>1. \A i \in 1 .. m : p[i] >= p[k] <=> k <= i
    <3> SUFFICES ASSUME NEW i \in 1 .. m PROVE p[i] >= p[k] <=> k <= i
      OBVIOUS
    <3>1. p[i] \in Nat /\ p[k] \in Nat /\ (p[k] <= p[i] <=> k <= i)
      BY EnumeratedOrder
    <3> QED
      BY <3>1
  <2>2. \A i \in k .. m : i \in 1 .. m
    OBVIOUS
  <2> QED
    BY <2>1, <2>2 DEF Enumerates, Taken
<1>2. k \in 1 .. m + 1 /\ m \in 0 .. m /\ k <= m + 1
  OBVIOUS
<1>3. Cardinality(Taken(p, k, m)) = m - k + 1
  BY <1>2, EnumeratedCount
<1> QED
  BY <1>1, <1>3

------------------------------------------------------------------------------
(* FlattenSeq is a recursive function, which to the provers is a choice: it *)
(* is unfolded once, by a least number of sequences for which it would not  *)
(* exist.                                                                   *)
LEMMA FlattenUnfolds ==
  ASSUME NEW seqs, NEW n \in Nat, n # 0, Len(seqs) = n
  PROVE  \E f : /\ \A i \in 1 .. n : f[i] = IF i = 1 THEN seqs[i] ELSE f[i - 1] \o seqs[i]
                /\ FlattenSeq(seqs) = f[n]
<1> DEFINE Step(f, i) == IF i = 1 THEN seqs[i] ELSE f[i - 1] \o seqs[i]
           Exists(k) == \E f : f = [i \in 1 .. k |-> Step(f, i)]
           Bad == {k \in Nat : ~ Exists(k)}
<1>1. Bad = {}
  <2> SUFFICES ASSUME Bad # {} PROVE FALSE
    OBVIOUS
  <2>1. Bad \subseteq Nat
    OBVIOUS
  <2>2. PICK k \in Bad : \A j \in Bad : k <= j
    <3> HIDE DEF Bad
    <3> QED
      BY <2>1, LeastNatural
  <2>3. k \in Nat /\ ~ Exists(k)
    BY <2>2
  <2>4. k # 0
    <3>1. CASE k = 0
      <4>1. PICK f : f = [i \in {} |-> seqs]
        OBVIOUS
      <4>2. f = [i \in 1 .. 0 |-> Step(f, i)]
        BY <4>1
      <4> QED
        BY <2>3, <3>1, <4>2
    <3> QED
      BY <3>1
  <2>5. k - 1 \in Nat /\ k - 1 \notin Bad
    <3> HIDE DEF Bad
    <3>1. k - 1 \in Nat /\ ~ k <= k - 1
      BY <2>3, <2>4
    <3> QED
      BY <2>2, <3>1
  <2>6. PICK f : f = [i \in 1 .. k - 1 |-> Step(f, i)]
    BY <2>5
  <2>7. PICK h : h = [i \in 1 .. k |-> IF i = k THEN Step(f, k) ELSE f[i]]
    OBVIOUS
  <2>8. \A i \in 1 .. k : h[i] = Step(h, i)
    <3> SUFFICES ASSUME NEW i \in 1 .. k PROVE h[i] = Step(h, i)
      OBVIOUS
    <3>1. i - 1 \in 1 .. k => i - 1 # k /\ h[i - 1] = f[i - 1]
      BY <2>3, <2>7
    <3>2. i = 1 \/ i - 1 \in 1 .. k
      BY <2>3
    <3>3. Step(h, i) = Step(f, i)
      BY <3>1, <3>2
    <3>4. CASE i = k
      BY <2>7, <3>3, <3>4
    <3>5. CASE i # k
      <4>1. i \in 1 .. k - 1
        BY <2>3, <3>5
      <4>2. f[i] = Step(f, i)
        <5> HIDE DEF Step
        <5> QED
          BY <2>6, <4>1
      <4>3. h[i] = f[i]
        BY <2>7, <3>5
      <4> QED
        BY <3>3, <4>2, <4>3
    <3> QED
      BY <3>4, <3>5
  <2>9. h = [i \in 1 .. k |-> Step(h, i)]
    <3> HIDE DEF Step
    <3>1. h = [i \in 1 .. k |-> h[i]]
      BY <2>7
    <3> QED
      BY <2>8, <3>1
  <2> QED
    BY <2>3, <2>9
<1>2. Exists(n)
  <2> HIDE DEF Exists
  <2> QED
    BY <1>1
<1>3. FlattenSeq(seqs) = (CHOOSE f : f = [i \in 1 .. n |-> Step(f, i)])[n]
  BY DEF FlattenSeq
<1>4. PICK g : g = (CHOOSE f : f = [i \in 1 .. n |-> Step(f, i)])
  OBVIOUS
<1>5. g = [i \in 1 .. n |-> Step(g, i)]
  <2> HIDE DEF Step
  <2> QED
    BY <1>2, <1>4
<1>6. \A i \in 1 .. n : g[i] = Step(g, i)
  <2> HIDE DEF Step
  <2> QED
    BY <1>5
<1>7. FlattenSeq(seqs) = g[n]
  <2> HIDE DEF Step
  <2> QED
    BY <1>3, <1>4
<1> QED
  BY <1>6, <1>7

(* Concatenating sequences of which none is empty.                          *)
LEMMA Flattened ==
  ASSUME NEW seqs, IsSequence(seqs), seqs # <<>>,
         \A i \in DOMAIN seqs : IsSequence(seqs[i]) /\ seqs[i] # <<>>
  PROVE  /\ IsSequence(FlattenSeq(seqs)) /\ FlattenSeq(seqs) # <<>>
         /\ FlattenSeq(seqs)[1] = seqs[1][1]
         /\ \A k \in DOMAIN FlattenSeq(seqs) :
              \E i \in DOMAIN seqs : \E j \in DOMAIN seqs[i] : FlattenSeq(seqs)[k] = seqs[i][j]
<1>1. PICK n : n = Len(seqs)
  OBVIOUS
<1>2. n \in Nat /\ n # 0 /\ DOMAIN seqs = 1 .. n /\ 1 \in 1 .. n
  BY <1>1 DEF IsSequence
<1>3. PICK f : /\ \A i \in 1 .. n : f[i] = IF i = 1 THEN seqs[i] ELSE f[i - 1] \o seqs[i]
               /\ FlattenSeq(seqs) = f[n]
  BY <1>1, <1>2, FlattenUnfolds
<1> DEFINE U == UNION {ToSet(seqs[i]) : i \in 1 .. n}
           Fine(s) == s \in Seq(U) /\ Len(s) # 0 /\ s[1] = seqs[1][1]
           Bad == {k \in 1 .. n : ~ Fine(f[k])}
<1>4. \A i \in 1 .. n : seqs[i] \in Seq(U) /\ Len(seqs[i]) # 0
  <2> SUFFICES ASSUME NEW i \in 1 .. n PROVE seqs[i] \in Seq(U) /\ Len(seqs[i]) # 0
    OBVIOUS
  <2>1. PICK s : s = seqs[i]
    OBVIOUS
  <2>2. s \in Seq(ToSet(s)) /\ s # <<>> /\ ToSet(s) \subseteq U
    BY <1>2, <2>1 DEF IsSequence
  <2> HIDE DEF U
  <2>3. s \in Seq(U) /\ Len(s) # 0
    BY ONLY <2>2
  <2> QED
    BY <2>1, <2>3
<1> HIDE DEF U
<1>5. \A i \in 1 .. n : f[i] = IF i = 1 THEN seqs[i] ELSE f[i - 1] \o seqs[i]
  BY <1>3
<1>6. Bad = {}
  <2> SUFFICES ASSUME Bad # {} PROVE FALSE
    OBVIOUS
  <2>1. Bad \subseteq Nat
    OBVIOUS
  <2>2. PICK k \in Bad : \A j \in Bad : k <= j
    <3> HIDE DEF Bad
    <3> QED
      BY <2>1, LeastNatural
  <2>3. k \in 1 .. n /\ ~ Fine(f[k])
    BY <2>2
  <2>4. k # 1
    <3>1. CASE k = 1
      BY <1>2, <1>4, <1>5, <2>3, <3>1
    <3> QED
      BY <3>1
  <2>5. k - 1 \in 1 .. n /\ k - 1 \notin Bad
    <3> HIDE DEF Bad
    <3>1. k - 1 \in 1 .. n /\ ~ k <= k - 1
      BY <1>2, <2>3, <2>4
    <3> QED
      BY <2>2, <3>1
  <2>6. Fine(f[k - 1])
    BY <2>5
  <2>7. f[k] = f[k - 1] \o seqs[k]
    BY <1>5, <2>3, <2>4
  <2>8. PICK a, b : a = f[k - 1] /\ b = seqs[k]
    OBVIOUS
  <2>9. a \in Seq(U) /\ b \in Seq(U) /\ Len(a) # 0
    BY <1>4, <2>3, <2>6, <2>8
  <2>10. a \o b \in Seq(U) /\ Len(a \o b) # 0 /\ (a \o b)[1] = a[1]
    BY ONLY <2>9
  <2> QED
    BY <2>3, <2>6, <2>7, <2>8, <2>10
<1>7. PICK t : t = FlattenSeq(seqs)
  OBVIOUS
<1>8. n \in 1 .. n
  BY <1>2
<1>9. t \in Seq(U) /\ Len(t) # 0 /\ t[1] = seqs[1][1]
  BY <1>3, <1>6, <1>7, <1>8
<1>10. IsSequence(t) /\ t # <<>>
  BY <1>9, SequenceOf
<1>11. \A k \in DOMAIN t : \E i \in DOMAIN seqs : \E j \in DOMAIN seqs[i] : t[k] = seqs[i][j]
  <2> SUFFICES ASSUME NEW k \in DOMAIN t
               PROVE  \E i \in DOMAIN seqs : \E j \in DOMAIN seqs[i] : t[k] = seqs[i][j]
    OBVIOUS
  <2>1. t[k] \in U
    BY <1>9
  <2>2. PICK i \in 1 .. n : t[k] \in ToSet(seqs[i])
    BY <2>1 DEF U
  <2> QED
    BY <1>2, <2>2 DEF ToSet
<1> QED
  BY <1>7, <1>9, <1>10, <1>11

------------------------------------------------------------------------------
(* What Picked returns.                                                     *)
LEMMA FunctionIsSequence ==
  ASSUME NEW n \in Nat, NEW f, f = [k \in 1 .. n |-> f[k]]
  PROVE  IsSequence(f) /\ Len(f) = n /\ DOMAIN f = 1 .. n
<1>1. DOMAIN f = 1 .. n
  OBVIOUS
<1>2. f \in [1 .. n -> ToSet(f)]
  BY <1>1 DEF ToSet
<1>3. f \in Seq(ToSet(f))
  BY <1>2
<1> QED
  BY <1>1, <1>3 DEF IsSequence

\* There is a k-th member.
LEMMA NthOf ==
  ASSUME NEW n \in Nat, NEW I, I \subseteq 1 .. n, NEW k \in Nat, k # 0, k <= Cardinality(I)
  PROVE  Nth(I, k) \in I
<1> DEFINE UpTo(x) == {j \in I : j <= x}
           T == {x \in Nat : Cardinality(UpTo(x)) >= k}
<1>1. IsFiniteSet(I) /\ \A x \in Nat : IsFiniteSet(UpTo(x)) /\ Cardinality(UpTo(x)) \in Nat
  <2>1. IsFiniteSet(1 .. n)
    <3>1. 1 \in Int /\ n \in Int
      OBVIOUS
    <3> QED
      BY <3>1, FS_Interval
  <2>2. IsFiniteSet(I)
    BY <2>1, FS_Subset
  <2>3. \A x \in Nat : UpTo(x) \subseteq I
    OBVIOUS
  <2> HIDE DEF UpTo
  <2> QED
    BY <2>2, <2>3, FS_Subset, FS_CardinalityType
<1>2. UpTo(n) = I
  <2>1. \A j \in I : j <= n
    OBVIOUS
  <2> QED
    BY <2>1
<1>3. T \subseteq Nat /\ n \in T
  <2>1. Cardinality(I) \in Nat
    BY <1>1, FS_CardinalityType
  <2> QED
    BY <1>2, <2>1
<1>4. PICK m \in T : \A x \in T : m <= x
  <2> HIDE DEF T
  <2> QED
    BY <1>3, LeastNatural
<1>5. m \in Nat /\ Cardinality(UpTo(m)) >= k
  BY <1>4
<1>6. UpTo(0) = {}
  <2>1. \A j \in I : ~ j <= 0
    OBVIOUS
  <2> QED
    BY <2>1
<1>7. m # 0
  <2> HIDE DEF UpTo
  <2> QED
    BY <1>5, <1>6, FS_EmptySet
<1>8. m - 1 \in Nat /\ m - 1 \notin T
  <2> HIDE DEF T
  <2>1. m - 1 \in Nat /\ ~ m <= m - 1
    BY <1>5, <1>7
  <2> QED
    BY <1>4, <2>1
<1>9. ~ Cardinality(UpTo(m - 1)) >= k
  BY <1>8
<1>10. m \in I
  <2>1. m \notin I => UpTo(m) = UpTo(m - 1)
    <3> SUFFICES ASSUME m \notin I PROVE UpTo(m) = UpTo(m - 1)
      OBVIOUS
    <3>1. \A j \in I : j <= m <=> j <= m - 1
      BY <1>5
    <3> QED
      BY <3>1
  <2> HIDE DEF UpTo
  <2> QED
    BY <1>5, <1>9, <2>1
<1>11. UpTo(m) = UpTo(m - 1) \cup {m} /\ m \notin UpTo(m - 1)
  <2>1. m \in Nat /\ ~ m <= m - 1
    BY <1>5
  <2>2. \A j \in I : j <= m <=> j <= m - 1 \/ j = m
    BY <2>1
  <2>3. \A j : j \in UpTo(m) <=> j \in UpTo(m - 1) \/ j = m
    BY <1>10, <2>1, <2>2
  <2>4. m \notin UpTo(m - 1)
    BY <2>1
  <2> HIDE DEF UpTo
  <2> QED
    BY <2>3, <2>4
<1>12. Cardinality(UpTo(m)) = Cardinality(UpTo(m - 1)) + 1
  <2> HIDE DEF UpTo
  <2> QED
    BY <1>1, <1>8, <1>11, FS_AddElement
<1>13. Cardinality(UpTo(m)) = k
  <2> HIDE DEF UpTo
  <2> QED
    BY <1>1, <1>5, <1>8, <1>9, <1>12
<1> QED
  BY <1>10, <1>13 DEF Nth

\* The first member is the least.
LEMMA NthFirst ==
  ASSUME NEW I, I \subseteq Nat \ {0}, 1 \in I
  PROVE  Nth(I, 1) = 1
<1>1. {j \in I : j <= 1} = {1}
  <2>1. \A j \in I : j <= 1 <=> j = 1
    OBVIOUS
  <2> QED
    BY <2>1
<1>2. Cardinality({j \in I : j <= 1}) = 1
  BY <1>1, FS_Singleton
<1>3. PICK i : i = Nth(I, 1)
  OBVIOUS
<1>4. i \in I /\ Cardinality({j \in I : j <= i}) = 1
  BY <1>2, <1>3 DEF Nth
<1>5. PICK J : J = {j \in I : j <= i}
  OBVIOUS
<1>6. 1 \in J /\ i \in J
  BY <1>4, <1>5
<1>7. J \subseteq 1 .. i /\ IsFiniteSet(1 .. i)
  <2>1. 1 \in Int /\ i \in Int
    BY <1>4
  <2>2. IsFiniteSet(1 .. i)
    BY <2>1, FS_Interval
  <2>3. \A j \in J : j \in I /\ j <= i
    BY <1>5
  <2>4. \A j \in J : j \in 1 .. i
    <3> SUFFICES ASSUME NEW j \in J PROVE j \in 1 .. i
      OBVIOUS
    <3>1. j \in Nat /\ j # 0 /\ j <= i /\ i \in Nat
      BY <1>4, <2>3
    <3> QED
      BY ONLY <3>1
  <2> QED
    BY <2>2, <2>4
<1>8. IsFiniteSet(J) /\ Cardinality(J) = 1
  BY <1>4, <1>5, <1>7, FS_Subset
<1>9. PICK x : J = {x}
  BY <1>8, FS_Singleton
<1> QED
  BY <1>3, <1>6, <1>9

\* What is picked is of the sequence.
LEMMA PickedMembers ==
  ASSUME NEW s, IsSequence(s), NEW I, I \subseteq DOMAIN s
  PROVE  /\ IsSequence(Picked(s, I)) /\ Cardinality(I) \in Nat
         /\ DOMAIN Picked(s, I) = 1 .. Cardinality(I)
         /\ \A k \in DOMAIN Picked(s, I) : \E i \in I : Picked(s, I)[k] = s[i]
         /\ I # {} => Picked(s, I) # <<>>
         /\ 1 \in I => Picked(s, I)[1] = s[1]
<1>1. PICK t : t = Picked(s, I)
  OBVIOUS
<1>2. PICK n : n = Len(s)
  OBVIOUS
<1>3. n \in Nat /\ DOMAIN s = 1 .. n /\ I \subseteq 1 .. n
  BY <1>2 DEF IsSequence
<1>4. IsFiniteSet(I)
  <2>1. 1 \in Int /\ n \in Int
    BY <1>3
  <2>2. IsFiniteSet(1 .. n)
    BY <2>1, FS_Interval
  <2> QED
    BY <1>3, <2>2, FS_Subset
<1>5. Cardinality(I) \in Nat /\ (I # {} => Cardinality(I) # 0)
  <2>1. Cardinality(I) \in Nat /\ (Cardinality(I) = 0 <=> I = {})
    BY <1>4, FS_CardinalityType, FS_EmptySet
  <2> QED
    BY <2>1
<1>6. PICK m : m = Cardinality(I)
  OBVIOUS
<1>7. t = [k \in 1 .. m |-> s[Nth(I, k)]]
  BY <1>1, <1>6 DEF Picked
<1>8. t = [k \in 1 .. m |-> t[k]]
  BY <1>7
<1>9. IsSequence(t) /\ Len(t) = m /\ DOMAIN t = 1 .. m
  BY <1>5, <1>6, <1>8, FunctionIsSequence
<1>10. \A k \in 1 .. m : \E i \in I : t[k] = s[i]
  <2> SUFFICES ASSUME NEW k \in 1 .. m PROVE \E i \in I : t[k] = s[i]
    OBVIOUS
  <2>1. k \in Nat /\ k # 0 /\ k <= Cardinality(I)
    BY <1>5, <1>6
  <2>2. Nth(I, k) \in I
    BY <1>3, <2>1, NthOf
  <2> QED
    BY <1>7, <2>2
<1>11. 1 \in I => t[1] = s[1]
  <2> SUFFICES ASSUME 1 \in I PROVE t[1] = s[1]
    OBVIOUS
  <2>1. 1 \in 1 .. m
    BY <1>5, <1>6
  <2>2. \A j \in I : j \in Nat \ {0}
    BY <1>3
  <2>3. Nth(I, 1) = 1
    BY <2>2, NthFirst
  <2> QED
    BY <1>7, <2>1, <2>3
<1>12. I # {} => t # <<>>
  BY <1>5, <1>6, <1>9
<1> QED
  BY <1>1, <1>5, <1>6, <1>9, <1>10, <1>11, <1>12

\* The first node of each key, of all that a group has.
LEMMA DistinctMembers ==
  ASSUME NEW nodes, IsSequence(nodes), nodes # <<>>
  PROVE  /\ IsSequence(Distinct(nodes)) /\ Distinct(nodes) # <<>>
         /\ Distinct(nodes)[1] = nodes[1]
         /\ \A k \in DOMAIN Distinct(nodes) : \E i \in DOMAIN nodes : Distinct(nodes)[k] = nodes[i]
<1>1. PICK I : I = {i \in DOMAIN nodes : \A j \in DOMAIN nodes : nodes[j].key = nodes[i].key => i <= j}
  OBVIOUS
<1>2. Distinct(nodes) = Picked(nodes, I)
  BY <1>1 DEF Distinct
<1>3. I \subseteq DOMAIN nodes /\ 1 \in I
  <2>1. DOMAIN nodes = 1 .. Len(nodes) /\ Len(nodes) \in Nat /\ Len(nodes) # 0
    BY DEF IsSequence
  <2> QED
    BY <1>1, <2>1
<1> QED
  BY <1>2, <1>3, PickedMembers

------------------------------------------------------------------------------
(* Nodes, and what is below them.                                           *)
LEMMA SoundParts ==
  ASSUME NEW g, NEW n, Sound(g, n)
  PROVE  IsNode(g, n) /\ \A i \in DOMAIN n.parts : Sound(g, n.parts[i])
BY DEF Sound, ToSet

\* A node over sound parts is sound.
LEMMA SoundNode ==
  ASSUME NEW g, NEW n, IsNode(g, n), \A i \in DOMAIN n.parts : Sound(g, n.parts[i])
  PROVE  Sound(g, n)
<1> DEFINE Closed(D) == \A m \in D : IsNode(g, m) /\ ToSet(m.parts) \subseteq D
           Below(m) == CHOOSE D : m \in D /\ Closed(D)
           U == UNION {Below(n.parts[i]) : i \in DOMAIN n.parts}
<1>1. \A i \in DOMAIN n.parts : n.parts[i] \in Below(n.parts[i]) /\ Closed(Below(n.parts[i]))
  BY DEF Sound
<1> HIDE DEF Below
<1>2. Closed(U)
  <2> SUFFICES ASSUME NEW m \in U PROVE IsNode(g, m) /\ ToSet(m.parts) \subseteq U
    OBVIOUS
  <2>1. PICK i \in DOMAIN n.parts : m \in Below(n.parts[i])
    OBVIOUS
  <2>2. IsNode(g, m) /\ ToSet(m.parts) \subseteq Below(n.parts[i])
    BY <1>1, <2>1
  <2> QED
    BY <2>2
<1>3. ToSet(n.parts) \subseteq U
  BY <1>1 DEF ToSet
<1> HIDE DEF U
<1>4. PICK D : D = U \cup {n}
  OBVIOUS
<1>5. \A m \in D : IsNode(g, m) /\ ToSet(m.parts) \subseteq D
  BY <1>2, <1>3, <1>4
<1> QED
  BY <1>4, <1>5 DEF Sound

\* The two kinds of leaves.
LEMMA LeafSound ==
  ASSUME NEW g, NEW x
  PROVE  /\ Shifts(g, x) => Sound(g, Token(x))
         /\ Skips(g, x) => Sound(g, Skipped(x))
<1>1. IsSequence(<<>>) /\ DOMAIN <<>> = {} /\ IsSequence(<<x>>) /\ <<x>> # <<>>
  BY DEF IsSequence, ToSet
<1>2. ASSUME Shifts(g, x) PROVE Sound(g, Token(x))
  <2>1. PICK n : n = Token(x)
    OBVIOUS
  <2>2. n.parts = <<>> /\ n.key = <<x>> /\ n.type = "token" /\ n.id = x
    BY <2>1 DEF Token
  <2>3. IsNode(g, n) /\ DOMAIN n.parts = {}
    BY <1>1, <1>2, <2>2 DEF IsNode
  <2> QED
    BY <2>1, <2>3, SoundNode
<1>3. ASSUME Skips(g, x) PROVE Sound(g, Skipped(x))
  <2>1. PICK n : n = Skipped(x)
    OBVIOUS
  <2>2. n.parts = <<>> /\ n.key = <<x>> /\ n.type = "skipped" /\ n.id = x
    BY <2>1 DEF Token, Skipped
  <2>3. IsNode(g, n) /\ DOMAIN n.parts = {}
    BY <1>1, <1>3, <2>2 DEF IsNode
  <2> QED
    BY <2>1, <2>3, SoundNode
<1> QED
  BY <1>2, <1>3

\* Sharing a node changes neither what it is nor what it is called.
LEMMA UniqueFits ==
  ASSUME LayoutApart, NEW S, IsStore(task.grammar, S),
         NEW n, Sound(task.grammar, n), n.type # "alts"
  PROVE  /\ Sound(task.grammar, Unique(S, n))
         /\ Unique(S, n).type = n.type /\ Unique(S, n).id = n.id
         /\ IsStore(task.grammar, Remember(S, n))
<1>1. PICK g, u : g = task.grammar /\ u = Unique(S, n)
  OBVIOUS
<1>2. ASSUME NEW m \in S, m.key = n.key PROVE Sound(g, m) /\ m.type = n.type /\ m.id = n.id
  <2>1. Sound(g, m) /\ m.type # "alts" /\ IsNode(g, m) /\ IsNode(g, n)
    BY <1>1, SoundParts DEF IsStore
  <2>2. \A x : ~ (Shifts(g, x) /\ Skips(g, x))
    BY <1>1 DEF LayoutApart, Shifts
  <2>3. PICK k : k = n.key /\ k = m.key
    BY <1>2
  <2>4. \A x, y : <<x>> = <<y>> => x = y
    OBVIOUS
  <2>5. \A x : Len(<<x>>) = 1 /\ ~ 1 >= 2
    OBVIOUS
  <2> QED
    BY <2>1, <2>2, <2>3, <2>4, <2>5 DEF IsNode
<1>3. u = n \/ (u \in S /\ u.key = n.key)
  BY <1>1 DEF Unique
<1>4. Sound(g, u) /\ u.type = n.type /\ u.id = n.id
  BY <1>1, <1>2, <1>3
<1>5. IsStore(g, Remember(S, n))
  BY <1>1, <1>4 DEF IsStore, Remember
<1> QED
  BY <1>1, <1>4, <1>5

\* The keys of nodes in a row.
LEMMA KeysOf ==
  ASSUME NEW g, NEW nodes, AllSound(g, nodes), nodes # <<>>
  PROVE  IsSequence(Keys(nodes)) /\ Keys(nodes) # <<>>
<1>1. PICK keys : keys = [i \in DOMAIN nodes |-> nodes[i].key]
  OBVIOUS
<1>2. Len(nodes) \in Nat /\ DOMAIN nodes = 1 .. Len(nodes) /\ Len(nodes) # 0
  BY DEF AllSound, IsSequence
<1>3. keys = [i \in 1 .. Len(nodes) |-> keys[i]]
  BY <1>1, <1>2
<1>4. IsSequence(keys) /\ Len(keys) = Len(nodes) /\ DOMAIN keys = DOMAIN nodes
  BY <1>2, <1>3, FunctionIsSequence
<1>5. keys # <<>>
  BY <1>2, <1>4
<1>6. \A i \in DOMAIN keys : IsSequence(keys[i]) /\ keys[i] # <<>>
  <2> SUFFICES ASSUME NEW i \in DOMAIN keys PROVE IsSequence(keys[i]) /\ keys[i] # <<>>
    OBVIOUS
  <2>1. IsNode(g, nodes[i])
    BY <1>4, SoundParts DEF AllSound
  <2>2. keys[i] = nodes[i].key
    BY <1>1, <1>4
  <2> QED
    BY <2>1, <2>2 DEF IsNode
<1>7. IsSequence(FlattenSeq(keys)) /\ FlattenSeq(keys) # <<>>
  BY <1>4, <1>5, <1>6, Flattened
<1> QED
  BY <1>1, <1>7 DEF Keys

\* What a reduction and a merge make of sound nodes.
LEMMA MadeSound ==
  ASSUME NEW g, NEW nodes, AllSound(g, nodes), nodes # <<>>
  PROVE  /\ Sound(g, Alts(nodes)) /\ Alts(nodes).type = "alts"
         /\ \A id, r : FollowsRule(g, NonTerm(id, r, nodes)) =>
              /\ Sound(g, NonTerm(id, r, nodes))
              /\ NonTerm(id, r, nodes).type = "nonterm" /\ NonTerm(id, r, nodes).id = id
<1>1. PICK keys : keys = Keys(nodes) /\ IsSequence(keys) /\ keys # <<>>
  BY KeysOf
<1>2. IsSequence(nodes) /\ \A i \in DOMAIN nodes : Sound(g, nodes[i])
  BY DEF AllSound
<1>3. Sound(g, Alts(nodes)) /\ Alts(nodes).type = "alts"
  <2>1. PICK n : n = Alts(nodes)
    OBVIOUS
  <2>2. n.parts = nodes /\ n.key = keys /\ n.type = "alts"
    BY <1>1, <2>1 DEF Alts
  <2>3. IsNode(g, n)
    BY <1>1, <1>2, <2>2 DEF IsNode
  <2> QED
    BY <1>2, <2>1, <2>2, <2>3, SoundNode
<1>4. ASSUME NEW id, NEW r, FollowsRule(g, NonTerm(id, r, nodes))
      PROVE  /\ Sound(g, NonTerm(id, r, nodes))
             /\ NonTerm(id, r, nodes).type = "nonterm" /\ NonTerm(id, r, nodes).id = id
  <2>1. PICK n : n = NonTerm(id, r, nodes)
    OBVIOUS
  <2>2. PICK key : key = <<id>> \o keys
    OBVIOUS
  <2>3. n.parts = nodes /\ n.key = key /\ n.type = "nonterm" /\ n.id = id
    BY <1>1, <2>1, <2>2 DEF NonTerm
  <2>4. keys \in Seq(ToSet(keys) \cup {id}) /\ <<id>> \in Seq(ToSet(keys) \cup {id}) /\ Len(keys) # 0
    BY <1>1 DEF IsSequence
  <2>5. /\ key \in Seq(ToSet(keys) \cup {id}) /\ Len(key) = 1 + Len(keys) /\ key[1] = id
    BY ONLY <2>2, <2>4
  <2>6. IsSequence(key) /\ Len(key) >= 2 /\ key # <<>>
    BY <2>4, <2>5, SequenceOf
  <2>7. IsNode(g, n)
    BY <1>2, <1>4, <2>1, <2>3, <2>5, <2>6 DEF IsNode
  <2> QED
    BY <1>2, <2>1, <2>3, <2>7, SoundNode
<1> QED
  BY <1>3, <1>4

------------------------------------------------------------------------------
(* The symbols that count, and the states they lead through.                *)
LEMMA AppendedParts ==
  ASSUME NEW s, IsSequence(s), NEW e
  PROVE  /\ IsSequence(Append(s, e)) /\ Append(s, e) # <<>>
         /\ Len(Append(s, e)) = Len(s) + 1 /\ Len(s) \in Nat
         /\ DOMAIN s = 1 .. Len(s) /\ DOMAIN Append(s, e) = 1 .. Len(s) + 1
         /\ \A i \in 1 .. Len(s) : Append(s, e)[i] = s[i]
         /\ Append(s, e)[Len(s) + 1] = e
         /\ Last(Append(s, e)) = e /\ Front(Append(s, e)) = s
<1> DEFINE T == ToSet(s) \cup {e}
<1>1. s \in Seq(T) /\ e \in T
  BY DEF IsSequence
<1> HIDE DEF T
<1>2. PICK t : t = Append(s, e)
  OBVIOUS
<1>3. /\ t \in Seq(T) /\ Len(t) = Len(s) + 1 /\ Len(s) \in Nat
      /\ \A i \in 1 .. Len(s) : t[i] = s[i]
      /\ t[Len(s) + 1] = e
  BY <1>1, <1>2
<1>4. IsSequence(t) /\ t # <<>> /\ DOMAIN t = 1 .. Len(s) + 1 /\ DOMAIN s = 1 .. Len(s)
  BY <1>1, <1>3, SequenceOf
<1>5. Last(t) = e
  BY <1>3 DEF Last
<1>6. Front(t) = s
  <2>1. Front(t) = SubSeq(t, 1, Len(s))
    BY <1>3 DEF Front
  <2>2. PICK f : f = SubSeq(t, 1, Len(s))
    OBVIOUS
  <2>3. /\ f \in Seq(T) /\ Len(f) = Len(s)
        /\ \A i \in 1 .. Len(s) : f[i] = t[i]
    BY <1>3, <2>2
  <2>4. f = [i \in 1 .. Len(s) |-> f[i]] /\ s = [i \in 1 .. Len(s) |-> s[i]]
    BY <1>1, <2>3
  <2>5. \A i \in 1 .. Len(s) : f[i] = s[i]
    BY <1>3, <2>3
  <2> QED
    BY <2>1, <2>2, <2>4, <2>5
<1> QED
  BY <1>2, <1>3, <1>4, <1>5, <1>6

\* A part of a sequence.
LEMMA SubSeqParts ==
  ASSUME NEW s, IsSequence(s), NEW a \in Nat, NEW b \in Nat, a >= 1, b <= Len(s), a <= b + 1
  PROVE  /\ IsSequence(SubSeq(s, a, b)) /\ Len(SubSeq(s, a, b)) = b - a + 1
         /\ b - a + 1 \in Nat
         /\ DOMAIN SubSeq(s, a, b) = 1 .. b - a + 1
         /\ \A i \in 1 .. b - a + 1 : i + a - 1 \in DOMAIN s /\ SubSeq(s, a, b)[i] = s[i + a - 1]
<1>1. s \in Seq(ToSet(s)) /\ Len(s) \in Nat /\ DOMAIN s = 1 .. Len(s)
  BY DEF IsSequence
<1>2. PICK t : t = SubSeq(s, a, b)
  OBVIOUS
<1>3. /\ t \in Seq(ToSet(s)) /\ Len(t) = b - a + 1 /\ b - a + 1 \in Nat
      /\ \A i \in 1 .. b - a + 1 : i + a - 1 \in DOMAIN s /\ t[i] = s[i + a - 1]
  <2>1. \A i \in a .. b : s[i] \in ToSet(s)
    BY <1>1
  <2>2. \A i \in 1 .. b - a + 1 : i + a - 1 \in 1 .. Len(s) /\ a + i - 1 = i + a - 1
    BY <1>1
  <2>3. t = [i \in 1 .. b - a + 1 |-> s[i + a - 1]]
    BY <1>1, <1>2
  <2>4. b - a + 1 \in Nat
    OBVIOUS
  <2>5. \A i \in 1 .. b - a + 1 : t[i] = s[i + a - 1] /\ t[i] \in ToSet(s)
    BY <1>1, <2>2, <2>3
  <2>6. t \in Seq(ToSet(s)) /\ Len(t) = b - a + 1
    BY <2>3, <2>4, <2>5
  <2> QED
    BY <1>1, <2>2, <2>4, <2>5, <2>6
<1>4. IsSequence(t) /\ DOMAIN t = 1 .. Len(t)
  BY <1>3, SequenceOf
<1> QED
  BY <1>2, <1>3, <1>4

\* A symbol that counts is the next of those that do.
LEMMA AppendCounted ==
  ASSUME NEW symbols, IsSequence(symbols), NEW n, Counted(n),
         NEW m \in Nat, NEW p, Enumerates(p, m, CountedIn(symbols))
  PROVE  \E q : /\ Enumerates(q, m + 1, CountedIn(Append(symbols, n)))
                /\ q[m + 1] = Len(symbols) + 1
                /\ \A i \in 1 .. m : q[i] = p[i] /\ q[i] \in DOMAIN symbols
<1>1. PICK t, k : t = Append(symbols, n) /\ k = Len(symbols)
  OBVIOUS
<1>2. /\ k \in Nat /\ DOMAIN symbols = 1 .. k /\ DOMAIN t = 1 .. k + 1
      /\ \A i \in 1 .. k : t[i] = symbols[i]
      /\ t[k + 1] = n
  BY <1>1, AppendedParts
<1>3. PICK q : q = [i \in 1 .. m + 1 |-> IF i = m + 1 THEN k + 1 ELSE p[i]]
  OBVIOUS
<1>4. \A i \in 1 .. m : p[i] \in Nat /\ p[i] \in DOMAIN symbols
  BY DEF Enumerates, CountedIn
<1>5. \A i \in 1 .. m : i # m + 1 /\ i \in 1 .. m + 1
  OBVIOUS
<1>6. \A i \in 1 .. m : q[i] = p[i]
  BY <1>3, <1>5
<1>7. q[m + 1] = k + 1
  BY <1>3
<1>8. \A i \in 1 .. m + 1 : i = m + 1 \/ i \in 1 .. m
  OBVIOUS
<1>9. q \in [1 .. m + 1 -> Nat]
  BY <1>2, <1>3, <1>4, <1>8
<1>10. ASSUME NEW i \in 1 .. m + 1, NEW j \in 1 .. m + 1, i < j PROVE q[i] < q[j]
  <2>1. i \in 1 .. m /\ p[i] \in Nat /\ p[i] <= k
    BY <1>2, <1>4, <1>10
  <2>2. CASE j = m + 1
    BY <1>2, <1>6, <1>7, <2>1, <2>2
  <2>3. CASE j \in 1 .. m
    BY <1>6, <1>10, <2>1, <2>3 DEF Enumerates
  <2> QED
    BY <1>8, <2>2, <2>3
<1>11. \A x : x \in CountedIn(t) <=> \E i \in 1 .. m + 1 : x = q[i]
  <2>1. \A x : x \in CountedIn(t) <=> x \in CountedIn(symbols) \/ x = k + 1
    <3>1. \A x : x \in 1 .. k + 1 <=> x \in 1 .. k \/ x = k + 1
      BY <1>2
    <3> QED
      BY <1>2, <3>1 DEF CountedIn
  <2>2. \A x : x \in CountedIn(symbols) <=> \E i \in 1 .. m : x = p[i]
    BY DEF Enumerates
  <2>3. m + 1 \in 1 .. m + 1
    OBVIOUS
  <2> QED
    BY <1>5, <1>6, <1>7, <1>8, <2>1, <2>2, <2>3
<1>12. CountedIn(t) = {q[i] : i \in 1 .. m + 1}
  BY <1>11
<1>13. Enumerates(q, m + 1, CountedIn(t))
  BY <1>9, <1>10, <1>12 DEF Enumerates
<1> QED
  BY <1>1, <1>4, <1>6, <1>7, <1>13

\* One that does not leaves them as they are.
LEMMA AppendUncounted ==
  ASSUME NEW symbols, IsSequence(symbols), NEW n, ~ Counted(n)
  PROVE  CountedIn(Append(symbols, n)) = CountedIn(symbols)
<1>1. PICK t, k : t = Append(symbols, n) /\ k = Len(symbols)
  OBVIOUS
<1>2. /\ k \in Nat /\ DOMAIN symbols = 1 .. k /\ DOMAIN t = 1 .. k + 1
      /\ \A i \in 1 .. k : t[i] = symbols[i]
      /\ t[k + 1] = n
  BY <1>1, AppendedParts
<1>3. \A x : x \in 1 .. k + 1 <=> x \in 1 .. k \/ x = k + 1
  BY <1>2
<1>4. \A x : x \in CountedIn(t) <=> x \in CountedIn(symbols)
  BY <1>2, <1>3 DEF CountedIn
<1> QED
  BY <1>1, <1>4

------------------------------------------------------------------------------
\* What matters of a stack are its states.
LEMMA SameStates ==
  ASSUME NEW g, NEW stack, IsStack(g, stack), NEW other, IsSequence(other),
         Len(other) = Len(stack), \A j \in 1 .. Len(stack) : other[j].state = stack[j].state
  PROVE  /\ IsStack(g, other)
         /\ \A symbols : Spells(g, stack, symbols) => Spells(g, other, symbols)
<1>1. PICK m : m = Len(stack)
  OBVIOUS
<1>2. /\ m \in Nat /\ m # 0 /\ DOMAIN stack = 1 .. m /\ DOMAIN other = 1 .. m /\ Len(other) = m
  BY <1>1 DEF IsStack, IsSequence
<1>3. \A j \in 1 .. m : other[j].state = stack[j].state
  BY <1>1
<1>4. IsStack(g, other)
  BY <1>2, <1>3 DEF IsStack
<1>5. ASSUME NEW symbols, Spells(g, stack, symbols) PROVE Spells(g, other, symbols)
  <2>1. PICK p \in [1 .. m - 1 -> Nat] :
          /\ Enumerates(p, m - 1, CountedIn(symbols))
          /\ \A j \in 1 .. m - 1 : Passes(g, stack[j].state, symbols[p[j]].id, stack[j + 1].state)
    BY <1>1, <1>5 DEF Spells
  <2>2. \A j \in 1 .. m - 1 : j \in 1 .. m /\ j + 1 \in 1 .. m
    BY <1>2
  <2>3. \A j \in 1 .. m - 1 : Passes(g, other[j].state, symbols[p[j]].id, other[j + 1].state)
    BY <1>3, <2>1, <2>2
  <2> QED
    BY <1>2, <2>1, <2>3 DEF Spells
<1> QED
  BY <1>4, <1>5

\* What matters of the symbols is which count, and what those are called.
LEMMA SameSymbols ==
  ASSUME NEW g, NEW stack, NEW symbols, NEW other, DOMAIN other = DOMAIN symbols,
         \A i \in DOMAIN symbols : /\ Counted(other[i]) <=> Counted(symbols[i])
                                   /\ other[i].id = symbols[i].id,
         Spells(g, stack, symbols)
  PROVE  Spells(g, stack, other)
<1>1. PICK m : m = Len(stack)
  OBVIOUS
<1>2. PICK p \in [1 .. m - 1 -> Nat] :
        /\ Enumerates(p, m - 1, CountedIn(symbols))
        /\ \A j \in 1 .. m - 1 : Passes(g, stack[j].state, symbols[p[j]].id, stack[j + 1].state)
  BY <1>1 DEF Spells
<1>3. \A x : x \in CountedIn(other) <=> x \in CountedIn(symbols)
  BY DEF CountedIn
<1>4. CountedIn(other) = CountedIn(symbols)
  BY <1>3
<1>5. \A j \in 1 .. m - 1 : p[j] \in DOMAIN symbols
  BY <1>2 DEF Enumerates, CountedIn
<1>6. \A j \in 1 .. m - 1 : other[p[j]].id = symbols[p[j]].id
  BY <1>5
<1>7. \A j \in 1 .. m - 1 : Passes(g, stack[j].state, other[p[j]].id, stack[j + 1].state)
  BY <1>2, <1>6
<1> QED
  BY <1>1, <1>2, <1>4, <1>7 DEF Spells

\* A symbol that counts, and the state it leads to.
LEMMA CountedSpells ==
  ASSUME NEW g, NEW stack, IsStack(g, stack), NEW symbols, IsSequence(symbols),
         Spells(g, stack, symbols), NEW n, Counted(n), NEW e,
         Passes(g, Last(stack).state, n.id, e.state)
  PROVE  IsStack(g, Append(stack, e)) /\ Spells(g, Append(stack, e), Append(symbols, n))
<1>1. PICK k, s, y : k = Len(stack) /\ s = Append(stack, e) /\ y = Append(symbols, n)
  OBVIOUS
<1>2. /\ IsSequence(s) /\ s # <<>> /\ Len(s) = k + 1 /\ k \in Nat
      /\ DOMAIN stack = 1 .. k /\ DOMAIN s = 1 .. k + 1
      /\ \A i \in 1 .. k : s[i] = stack[i]
      /\ s[k + 1] = e
  BY <1>1, AppendedParts DEF IsStack
<1>3. k # 0 /\ Last(stack) = stack[k] /\ k - 1 \in Nat
  <2>1. k # 0
    BY <1>1 DEF IsStack, IsSequence
  <2> QED
    BY <1>1, <1>2, <2>1 DEF Last
<1>4. e.state \in StatesOf(g)
  BY DEF Passes
<1>5. IsStack(g, s)
  <2>1. \A j \in 1 .. k + 1 : j \in 1 .. k \/ j = k + 1
    BY <1>2
  <2>2. \A j \in 1 .. k + 1 : s[j].state \in StatesOf(g)
    BY <1>2, <1>4, <2>1 DEF IsStack
  <2>3. 1 \in 1 .. k
    BY <1>2, <1>3
  <2> QED
    BY <1>2, <2>2, <2>3 DEF IsStack
<1>6. PICK p \in [1 .. k - 1 -> Nat] :
        /\ Enumerates(p, k - 1, CountedIn(symbols))
        /\ \A j \in 1 .. k - 1 : Passes(g, stack[j].state, symbols[p[j]].id, stack[j + 1].state)
  BY <1>1 DEF Spells
<1>7. PICK q : /\ Enumerates(q, k, CountedIn(y)) /\ q[k] = Len(symbols) + 1
               /\ \A i \in 1 .. k - 1 : q[i] = p[i] /\ q[i] \in DOMAIN symbols
  <2>1. PICK l \in Nat : l = k - 1
    BY <1>3
  <2>2. Enumerates(p, l, CountedIn(symbols))
    BY <1>6, <2>1
  <2>3. \E q : /\ Enumerates(q, l + 1, CountedIn(Append(symbols, n)))
               /\ q[l + 1] = Len(symbols) + 1
               /\ \A i \in 1 .. l : q[i] = p[i] /\ q[i] \in DOMAIN symbols
    BY <2>1, <2>2, AppendCounted
  <2>4. l + 1 = k
    BY <1>2, <2>1
  <2> QED
    BY <1>1, <2>1, <2>3, <2>4
<1>8. \A i \in DOMAIN symbols : y[i] = symbols[i]
  BY <1>1, AppendedParts
<1>9. y[Len(symbols) + 1] = n
  BY <1>1, AppendedParts
<1>10. \A j \in 1 .. k : Passes(g, s[j].state, y[q[j]].id, s[j + 1].state)
  <2> SUFFICES ASSUME NEW j \in 1 .. k PROVE Passes(g, s[j].state, y[q[j]].id, s[j + 1].state)
    OBVIOUS
  <2>1. CASE j = k
    <3>1. y[q[j]] = n /\ s[j] = stack[k] /\ s[j + 1] = e
      BY <1>2, <1>7, <1>9, <2>1
    <3> QED
      BY <1>3, <3>1
  <2>2. CASE j # k
    <3>1. j \in 1 .. k - 1 /\ j + 1 \in 1 .. k
      BY <1>2, <2>2
    <3>2. y[q[j]] = symbols[p[j]] /\ s[j] = stack[j] /\ s[j + 1] = stack[j + 1]
      BY <1>2, <1>7, <1>8, <3>1
    <3> QED
      BY <1>6, <3>1, <3>2
  <2> QED
    BY <2>1, <2>2
<1>11. Len(s) - 1 = k /\ q \in [1 .. k -> Nat]
  BY <1>2, <1>7 DEF Enumerates
<1>12. Spells(g, s, y)
  BY <1>7, <1>10, <1>11 DEF Spells
<1> QED
  BY <1>1, <1>5, <1>12

\* A symbol that does not count, which leads nowhere.
LEMMA SkippedSpells ==
  ASSUME NEW g, NEW stack, NEW symbols, IsSequence(symbols),
         Spells(g, stack, symbols), NEW n, ~ Counted(n)
  PROVE  Spells(g, stack, Append(symbols, n))
<1>1. PICK k, y : k = Len(stack) /\ y = Append(symbols, n)
  OBVIOUS
<1>2. PICK p \in [1 .. k - 1 -> Nat] :
        /\ Enumerates(p, k - 1, CountedIn(symbols))
        /\ \A j \in 1 .. k - 1 : Passes(g, stack[j].state, symbols[p[j]].id, stack[j + 1].state)
  BY <1>1 DEF Spells
<1>3. CountedIn(y) = CountedIn(symbols)
  BY <1>1, AppendUncounted
<1>4. \A i \in DOMAIN symbols : y[i] = symbols[i]
  BY <1>1, AppendedParts
<1>5. \A j \in 1 .. k - 1 : p[j] \in DOMAIN symbols
  BY <1>2 DEF Enumerates, CountedIn
<1>6. \A j \in 1 .. k - 1 : Passes(g, stack[j].state, y[p[j]].id, stack[j + 1].state)
  BY <1>2, <1>4, <1>5
<1> QED
  BY <1>1, <1>2, <1>3, <1>6 DEF Spells

------------------------------------------------------------------------------
(* A rule that its last state reduces is found on the stack, item by item,  *)
(* and spelled by the last symbols that count.                              *)
LEMMA ItemsAre ==
  ASSUME NEW t \in Task, NEW s \in StatesOf(t.grammar), NEW i \in Items[t.grammar][s]
  PROVE  /\ i[1] \in DOMAIN Rule[t.grammar]
         /\ i[2] \in 0 .. Len(Rule[t.grammar][i[1]].rhs)
         /\ Rule[t.grammar][i[1]].rhs \in Seq(ToSet(Rule[t.grammar][i[1]].rhs))
         /\ Rule[t.grammar][i[1]].rhs # <<>>
         /\ s = Start[t.grammar].state => i[2] = 0
BY AutomatonAssumption

\* A completed item was carried through the last states of the stack.
LEMMA RuleWalked ==
  ASSUME NEW t \in Task, NEW stack, IsStack(t.grammar, stack), NEW symbols,
         Spells(t.grammar, stack, symbols), NEW r, NEW n,
         Len(Rule[t.grammar][r].rhs) = n, <<r, n>> \in Items[t.grammar][Last(stack).state]
  PROVE  /\ n \in Nat /\ n # 0 /\ n < Len(stack) /\ r \in DOMAIN Rule[t.grammar]
         /\ Rule[t.grammar][r].rhs \in Seq(ToSet(Rule[t.grammar][r].rhs))
         /\ \A j \in 0 .. n : <<r, n - j>> \in Items[t.grammar][stack[Len(stack) - j].state]
<1>1. PICK k, g : k = Len(stack) /\ g = t.grammar
  OBVIOUS
<1>2. /\ k \in Nat /\ k # 0 /\ DOMAIN stack = 1 .. k /\ Last(stack) = stack[k]
      /\ \A j \in 1 .. k : stack[j].state \in StatesOf(g)
      /\ stack[1].state = Start[g].state
  <2>1. k \in Nat /\ k # 0 /\ DOMAIN stack = 1 .. k /\ Last(stack) = stack[k]
    BY <1>1 DEF IsStack, IsSequence, Last
  <2> QED
    BY <1>1, <2>1 DEF IsStack
<1>3. <<r, n>>[1] = r /\ <<r, n>>[2] = n
  OBVIOUS
<1>4. r \in DOMAIN Rule[g] /\ Rule[g][r].rhs \in Seq(ToSet(Rule[g][r].rhs)) /\ Rule[g][r].rhs # <<>>
  <2>1. k \in 1 .. k
    BY <1>2
  <2> QED
    BY <1>1, <1>2, <1>3, <2>1, ItemsAre
<1>5. n \in Nat /\ n # 0
  BY <1>1, <1>4
<1>6. PICK p \in [1 .. k - 1 -> Nat] :
        \A j \in 1 .. k - 1 : Passes(g, stack[j].state, symbols[p[j]].id, stack[j + 1].state)
  BY <1>1 DEF Spells
<1> DEFINE Holds(j) == j < k /\ <<r, n - j>> \in Items[g][stack[k - j].state]
           Bad == {j \in 0 .. n : ~ Holds(j)}
<1>7. Holds(0)
  BY <1>1, <1>2, <1>5
<1> HIDE DEF Holds
<1>8. Bad = {}
  <2> SUFFICES ASSUME Bad # {} PROVE FALSE
    OBVIOUS
  <2>1. Bad \subseteq Nat
    BY <1>5
  <2>2. PICK j \in Bad : \A i \in Bad : j <= i
    <3> HIDE DEF Bad
    <3> QED
      BY <2>1, LeastNatural
  <2>3. j \in 0 .. n /\ ~ Holds(j)
    BY <2>2
  <2>4. j # 0
    BY <1>7, <2>3
  <2>5. j - 1 \in 0 .. n /\ j - 1 \notin Bad
    <3> HIDE DEF Bad
    <3>1. j - 1 \in 0 .. n /\ ~ j <= j - 1
      BY <1>5, <2>3, <2>4
    <3> QED
      BY <2>2, <3>1
  <2>6. Holds(j - 1)
    BY <2>5
  <2>7. PICK a, q : a = n - (j - 1) /\ q = k - (j - 1)
    OBVIOUS
  <2>8. a \in Nat /\ a > 0 /\ a - 1 = n - j /\ q \in 1 .. k /\ q - 1 = k - j
    BY <1>2, <1>5, <2>3, <2>5, <2>6, <2>7 DEF Holds
  <2>9. <<r, a>> \in Items[g][stack[q].state]
    BY <2>6, <2>7 DEF Holds
  <2>10. <<r, a>>[1] = r /\ <<r, a>>[2] = a
    OBVIOUS
  <2>11. q # 1
    <3>1. q = 1 => a = 0
      BY <1>1, <1>2, <2>8, <2>9, <2>10, ItemsAre
    <3> QED
      BY <2>8, <3>1
  <2>12. q - 1 \in 1 .. k - 1 /\ (q - 1) + 1 = q
    BY <1>2, <2>8, <2>11
  <2>13. Passes(g, stack[q - 1].state, symbols[p[q - 1]].id, stack[q].state)
    BY <1>6, <2>12
  <2>14. <<r, a - 1>> \in Items[g][stack[q - 1].state]
    BY <2>8, <2>9, <2>10, <2>13 DEF Passes
  <2>15. j < k
    BY <1>2, <2>3, <2>8, <2>12
  <2> QED
    BY <2>3, <2>8, <2>14, <2>15 DEF Holds
<1>9. \A j \in 0 .. n : Holds(j)
  BY <1>8
<1>10. n \in 0 .. n
  BY <1>5
<1> QED
  BY <1>1, <1>4, <1>5, <1>9, <1>10 DEF Holds

\* The last n of the m symbols at p are those of a rule.
Spelled(rhs, n, m, symbols, p) ==
  \A j \in 1 .. n : m - n + j \in 1 .. m /\ symbols[p[m - n + j]].id = rhs[j]

\* The symbols that led through those states are the rule's.
LEMMA RuleSpelled ==
  ASSUME NEW t \in Task, NEW stack, IsStack(t.grammar, stack), NEW symbols, NEW p,
         \A j \in 1 .. Len(stack) - 1 :
           Passes(t.grammar, stack[j].state, symbols[p[j]].id, stack[j + 1].state),
         Spells(t.grammar, stack, symbols), NEW r, NEW n,
         Len(Rule[t.grammar][r].rhs) = n, <<r, n>> \in Items[t.grammar][Last(stack).state]
  PROVE  Spelled(Rule[t.grammar][r].rhs, n, Len(stack) - 1, symbols, p)
<1>1. PICK k, g : k = Len(stack) /\ g = t.grammar
  OBVIOUS
<1>2. /\ n \in Nat /\ n < k
      /\ \A j \in 0 .. n : <<r, n - j>> \in Items[g][stack[k - j].state]
  BY <1>1, RuleWalked
<1>3. k \in Nat
  BY <1>1 DEF IsStack, IsSequence
<1>4. ASSUME NEW j \in 1 .. n
      PROVE  k - 1 - n + j \in 1 .. k - 1 /\ symbols[p[k - 1 - n + j]].id = Rule[g][r].rhs[j]
  <2>1. PICK i, q : i = k - 1 - n + j /\ q = n - j
    OBVIOUS
  <2>2. i \in 1 .. k - 1 /\ q \in 0 .. n /\ n - q = j /\ k - q = i + 1
    <3>1. n \in Nat /\ n < k /\ k \in Nat /\ j \in Nat /\ 1 <= j /\ j <= n
      BY <1>2, <1>3
    <3> QED
      BY ONLY <2>1, <3>1
  <2>3. <<r, j>> \in Items[g][stack[i + 1].state]
    BY <1>2, <2>2
  <2>4. Passes(g, stack[i].state, symbols[p[i]].id, stack[i + 1].state)
    BY <1>1, <2>2
  <2>5. <<r, j>>[1] = r /\ <<r, j>>[2] = j /\ j > 0
    OBVIOUS
  <2>6. symbols[p[i]].id = Rule[g][r].rhs[j]
    BY <2>3, <2>4, <2>5 DEF Passes
  <2> QED
    BY <2>1, <2>2, <2>6
<1> QED
  BY <1>1, <1>4 DEF Spelled

------------------------------------------------------------------------------
(* Where the last n symbols that count begin, what is before them and what  *)
(* they are.                                                                *)
LEMMA LastCounted ==
  ASSUME NEW symbols, IsSequence(symbols), NEW m \in Nat, NEW p,
         Enumerates(p, m, CountedIn(symbols)), NEW n \in 1 .. m
  PROVE  FirstOf(symbols, n) = {p[m - n + 1]}
<1>1. PICK I, k : I = CountedIn(symbols) /\ k = Len(symbols)
  OBVIOUS
<1>2. k \in Nat /\ DOMAIN symbols = 1 .. k /\ n # 0 /\ n \in Nat
  BY <1>1 DEF IsSequence
<1>3. ASSUME NEW x \in DOMAIN symbols
      PROVE  {i \in x .. Len(symbols) : Counted(symbols[i])} = {j \in I : j >= x}
  <2>1. \A i : i \in x .. k <=> i \in 1 .. k /\ i >= x
    BY <1>2
  <2>2. \A i : i \in {j \in x .. Len(symbols) : Counted(symbols[j])} <=> i \in {j \in I : j >= x}
    BY <1>1, <1>2, <2>1 DEF CountedIn
  <2> QED
    BY <2>2
<1>4. \A x : x \in FirstOf(symbols, n) <=> x \in I /\ Cardinality({j \in I : j >= x}) = n
  BY <1>1, <1>2, <1>3 DEF FirstOf, CountedIn
<1>5. \A i \in 1 .. m : Cardinality({j \in I : j >= p[i]}) = m - i + 1
  BY <1>1, EnumeratedFrom
<1>6. \A x : x \in I <=> \E i \in 1 .. m : x = p[i]
  BY <1>1 DEF Enumerates
<1>7. /\ m - n + 1 \in 1 .. m
      /\ \A i \in 1 .. m : m - i + 1 = n <=> i = m - n + 1
  OBVIOUS
<1>8. \A x : x \in FirstOf(symbols, n) <=> x = p[m - n + 1]
  <2>1. ASSUME NEW x \in FirstOf(symbols, n) PROVE x = p[m - n + 1]
    <3>1. PICK i \in 1 .. m : x = p[i]
      BY <1>4, <1>6, <2>1
    <3>2. Cardinality({j \in I : j >= p[i]}) = n
      BY <1>4, <2>1, <3>1
    <3>3. m - i + 1 = n
      BY <1>5, <3>2
    <3> QED
      BY <1>7, <3>1, <3>3
  <2>2. p[m - n + 1] \in FirstOf(symbols, n)
    <3>1. PICK i \in 1 .. m : i = m - n + 1 /\ m - i + 1 = n
      BY <1>7
    <3>2. Cardinality({j \in I : j >= p[i]}) = n
      BY <1>5, <3>1
    <3> QED
      BY <1>4, <1>6, <3>1, <3>2
  <2> QED
    BY <2>1, <2>2
<1> QED
  BY <1>8

\* Before the last m - b of them are the first b.
LEMMA PrefixCounted ==
  ASSUME NEW symbols, IsSequence(symbols), NEW m \in Nat, NEW p,
         Enumerates(p, m, CountedIn(symbols)), NEW b \in Nat, b < m
  PROVE  /\ p[b + 1] \in 1 .. Len(symbols)
         /\ \E q : /\ Enumerates(q, b, CountedIn(SubSeq(symbols, 1, p[b + 1] - 1)))
                   /\ \A i \in 1 .. b : q[i] = p[i]
<1>1. PICK k, a : k = p[b + 1] /\ a = Len(symbols)
  OBVIOUS
<1>2. b + 1 \in 1 .. m /\ \A i \in 1 .. b : i \in 1 .. m /\ i < b + 1
  OBVIOUS
<1>3. a \in Nat /\ DOMAIN symbols = 1 .. a
  BY <1>1 DEF IsSequence
<1>4. /\ \A i \in 1 .. m : p[i] \in Nat /\ p[i] \in 1 .. a
      /\ \A x : x \in CountedIn(symbols) <=> \E i \in 1 .. m : x = p[i]
  BY <1>3 DEF Enumerates, CountedIn
<1>5. k \in 1 .. a /\ k - 1 \in Nat /\ 1 \in Nat /\ 1 <= k - 1 + 1 /\ k - 1 <= a
  BY <1>1, <1>2, <1>3, <1>4
<1>6. PICK s : s = SubSeq(symbols, 1, k - 1)
  OBVIOUS
<1>7. DOMAIN s = 1 .. k - 1 /\ \A i \in 1 .. k - 1 : s[i] = symbols[i]
  <2>1. PICK l : l = k - 1
    OBVIOUS
  <2>2. l \in Nat /\ 1 \in Nat /\ 1 >= 1 /\ l <= Len(symbols) /\ 1 <= l + 1 /\ l - 1 + 1 = l
    BY <1>1, <1>5, <2>1
  <2>3. /\ DOMAIN SubSeq(symbols, 1, l) = 1 .. l
        /\ \A i \in 1 .. l : i + 1 - 1 \in DOMAIN symbols /\ SubSeq(symbols, 1, l)[i] = symbols[i + 1 - 1]
    <3>1. /\ DOMAIN SubSeq(symbols, 1, l) = 1 .. l - 1 + 1
          /\ \A i \in 1 .. l - 1 + 1 :
               i + 1 - 1 \in DOMAIN symbols /\ SubSeq(symbols, 1, l)[i] = symbols[i + 1 - 1]
      BY <2>2, SubSeqParts
    <3> QED
      BY <2>2, <3>1
  <2>4. \A i \in 1 .. l : i + 1 - 1 = i
    BY <2>2
  <2> QED
    BY <1>6, <2>1, <2>3, <2>4
<1>8. \A i \in 1 .. m : p[i] < k <=> i \in 1 .. b
  <2> SUFFICES ASSUME NEW i \in 1 .. m PROVE p[i] < k <=> i \in 1 .. b
    OBVIOUS
  <2>1. p[i] \in Nat /\ k \in Nat /\ (k <= p[i] <=> b + 1 <= i)
    BY <1>1, <1>2, EnumeratedOrder
  <2> QED
    BY <2>1
<1>9. \A x : x \in CountedIn(s) <=> \E i \in 1 .. b : x = p[i]
  <2>1. \A x : x \in CountedIn(s) <=> x \in CountedIn(symbols) /\ x \in 1 .. k - 1
    <3>1. \A x : x \in 1 .. k - 1 => x \in 1 .. a
      BY <1>3, <1>5
    <3> QED
      BY <1>3, <1>7, <3>1 DEF CountedIn
  <2>2. \A i \in 1 .. m : p[i] \in 1 .. k - 1 <=> i \in 1 .. b
    BY <1>4, <1>5, <1>8
  <2> QED
    BY <1>2, <1>4, <2>1, <2>2
<1>10. PICK q : q = [i \in 1 .. b |-> p[i]]
  OBVIOUS
<1>11. \A i \in 1 .. b : q[i] = p[i]
  BY <1>10
<1>12. Enumerates(q, b, CountedIn(s))
  <2>1. q \in [1 .. b -> Nat]
    BY <1>2, <1>4, <1>10
  <2>2. \A i, j \in 1 .. b : i < j => q[i] < q[j]
    BY <1>2, <1>11 DEF Enumerates
  <2>3. CountedIn(s) = {q[i] : i \in 1 .. b}
    BY <1>9, <1>11
  <2> QED
    BY <2>1, <2>2, <2>3 DEF Enumerates
<1> QED
  BY <1>1, <1>5, <1>6, <1>11, <1>12

\* What begins at the one after the first b has the others.
SuffixLed(symbols, p, m, b, q) ==
  /\ Enumerates(q, m - b, CountedIn(SubSeq(symbols, p[b + 1], Len(symbols))))
  /\ \A j \in 1 .. m - b :
       /\ b + j \in 1 .. m
       /\ SubSeq(symbols, p[b + 1], Len(symbols))[q[j]] = symbols[p[b + j]]

\* From there on are the last m - b.
LEMMA SuffixCounted ==
  ASSUME NEW symbols, IsSequence(symbols), NEW m \in Nat, NEW p,
         Enumerates(p, m, CountedIn(symbols)), NEW b \in Nat, b < m
  PROVE  \E q : SuffixLed(symbols, p, m, b, q)
<1>1. PICK k, a : k = p[b + 1] /\ a = Len(symbols)
  OBVIOUS
<1>2. b + 1 \in 1 .. m /\ m - b \in Nat /\ \A j \in 1 .. m - b : b + j \in 1 .. m
  OBVIOUS
<1>3. a \in Nat /\ DOMAIN symbols = 1 .. a
  BY <1>1 DEF IsSequence
<1>4. /\ \A i \in 1 .. m : p[i] \in Nat /\ p[i] \in 1 .. a
      /\ \A x : x \in CountedIn(symbols) <=> \E i \in 1 .. m : x = p[i]
  BY <1>3 DEF Enumerates, CountedIn
<1>5. k \in Nat /\ k \in 1 .. a /\ k >= 1 /\ a <= a /\ k <= a + 1
  BY <1>1, <1>2, <1>3, <1>4
<1>6. PICK s : s = SubSeq(symbols, k, a)
  OBVIOUS
<1>7. /\ DOMAIN s = 1 .. a - k + 1
      /\ \A i \in 1 .. a - k + 1 : i + k - 1 \in 1 .. a /\ s[i] = symbols[i + k - 1]
  <2>1. a <= Len(symbols)
    BY <1>1, <1>5
  <2>2. /\ DOMAIN SubSeq(symbols, k, a) = 1 .. a - k + 1
        /\ \A i \in 1 .. a - k + 1 :
             i + k - 1 \in DOMAIN symbols /\ SubSeq(symbols, k, a)[i] = symbols[i + k - 1]
    BY <1>3, <1>5, <2>1, SubSeqParts
  <2> QED
    BY <1>3, <1>6, <2>2
<1>8. \A i \in 1 .. m : p[i] >= k <=> i >= b + 1
  <2> SUFFICES ASSUME NEW i \in 1 .. m PROVE p[i] >= k <=> i >= b + 1
    OBVIOUS
  <2>1. p[i] \in Nat /\ k \in Nat /\ (k <= p[i] <=> b + 1 <= i)
    BY <1>1, <1>2, EnumeratedOrder
  <2> QED
    BY <2>1
<1>9. \A j \in 1 .. m - b : /\ p[b + j] \in Nat /\ p[b + j] >= k /\ p[b + j] <= a
                            /\ p[b + j] - k + 1 \in 1 .. a - k + 1
                            /\ p[b + j] - k + 1 \in Nat
                            /\ (p[b + j] - k + 1) + k - 1 = p[b + j]
  <2> SUFFICES ASSUME NEW j \in 1 .. m - b
               PROVE  /\ p[b + j] \in Nat /\ p[b + j] >= k /\ p[b + j] <= a
                      /\ p[b + j] - k + 1 \in 1 .. a - k + 1
                      /\ p[b + j] - k + 1 \in Nat
                      /\ (p[b + j] - k + 1) + k - 1 = p[b + j]
    OBVIOUS
  <2>1. b + j \in 1 .. m /\ b + j >= b + 1
    OBVIOUS
  <2>2. p[b + j] \in Nat /\ p[b + j] >= k /\ p[b + j] <= a
    BY <1>3, <1>4, <1>8, <2>1
  <2> QED
    BY <1>3, <1>5, <2>2
<1>10. PICK q : q = [j \in 1 .. m - b |-> p[b + j] - k + 1]
  OBVIOUS
<1>11. \A j \in 1 .. m - b : q[j] = p[b + j] - k + 1
  BY <1>10
<1>12. \A j \in 1 .. m - b : s[q[j]] = symbols[p[b + j]]
  BY <1>7, <1>9, <1>11
<1>13. \A x : x \in CountedIn(s) <=> \E j \in 1 .. m - b : x = q[j]
  <2>1. ASSUME NEW x \in CountedIn(s) PROVE \E j \in 1 .. m - b : x = q[j]
    <3>1. x \in 1 .. a - k + 1 /\ Counted(s[x])
      BY <1>7, <2>1 DEF CountedIn
    <3>2. x + k - 1 \in CountedIn(symbols)
      BY <1>3, <1>7, <3>1 DEF CountedIn
    <3>3. PICK i \in 1 .. m : x + k - 1 = p[i]
      BY <1>4, <3>2
    <3>4. p[i] >= k /\ x = p[i] - k + 1
      BY <1>3, <1>5, <3>1, <3>3
    <3>5. i >= b + 1
      BY <1>8, <3>4
    <3>6. PICK j : j = i - b
      OBVIOUS
    <3>7. j \in 1 .. m - b /\ b + j = i
      BY <3>5, <3>6
    <3> QED
      BY <1>11, <3>4, <3>7
  <2>2. ASSUME NEW j \in 1 .. m - b PROVE q[j] \in CountedIn(s)
    <3>1. q[j] \in 1 .. a - k + 1 /\ s[q[j]] = symbols[p[b + j]]
      BY <1>9, <1>11, <1>12
    <3>2. Counted(symbols[p[b + j]])
      BY <1>2, <1>4 DEF CountedIn
    <3> QED
      BY <1>7, <3>1, <3>2 DEF CountedIn
  <2> QED
    BY <2>1, <2>2
<1>14. Enumerates(q, m - b, CountedIn(s))
  <2>1. q \in [1 .. m - b -> Nat]
    BY <1>9, <1>10
  <2>2. ASSUME NEW i \in 1 .. m - b, NEW j \in 1 .. m - b, i < j PROVE q[i] < q[j]
    <3>1. b + i \in 1 .. m /\ b + j \in 1 .. m /\ b + i < b + j
      BY <1>2, <2>2
    <3>2. p[b + i] < p[b + j]
      BY <3>1 DEF Enumerates
    <3> QED
      BY <1>5, <1>9, <1>11, <3>2
  <2>3. CountedIn(s) = {q[j] : j \in 1 .. m - b}
    BY <1>13
  <2> QED
    BY <2>1, <2>2, <2>3 DEF Enumerates
<1> QED
  BY <1>1, <1>2, <1>6, <1>12, <1>14 DEF SuffixLed

------------------------------------------------------------------------------
(* A reduction.                                                             *)
LEMMA FollowsFrom ==
  ASSUME NEW g, NEW nodes, NEW r, NEW n \in Nat, NEW q, Enumerates(q, n, CountedIn(nodes)),
         Rule[g][r].rhs = [j \in 1 .. n |-> nodes[q[j]].id], NEW id
  PROVE  FollowsRule(g, NonTerm(id, r, nodes))
<1>1. PICK I, rhs : I = CountedIn(nodes) /\ rhs = Rule[g][r].rhs
  OBVIOUS
<1>2. Cardinality(I) = n /\ \A k \in 1 .. n : Nth(I, k) = q[k]
  BY <1>1, NthEnumerated
<1>3. PICK x : x = NonTerm(id, r, nodes)
  OBVIOUS
<1>4. x.parts = nodes /\ x.rule = r
  BY <1>3 DEF NonTerm
<1>5. PICK parts : parts = CountedParts(x)
  OBVIOUS
<1>6. parts = Picked(nodes, I)
  BY <1>1, <1>4, <1>5 DEF CountedParts, CountedIn
<1>7. DOMAIN parts = 1 .. n /\ \A k \in 1 .. n : parts[k] = nodes[q[k]]
  BY <1>2, <1>6 DEF Picked
<1>8. PICK ids : ids = [i \in DOMAIN CountedParts(x) |-> CountedParts(x)[i].id]
  OBVIOUS
<1>9. ids = [i \in 1 .. n |-> parts[i].id]
  BY <1>5, <1>7, <1>8
<1>10. \A i \in 1 .. n : parts[i].id = nodes[q[i]].id
  BY <1>7
<1>11. rhs = [i \in 1 .. n |-> nodes[q[i]].id]
  BY <1>1
<1>12. ids = rhs
  BY <1>9, <1>10, <1>11
<1> QED
  BY <1>1, <1>3, <1>4, <1>8, <1>12 DEF FollowsRule

\* A part of sound symbols.
LEMMA SubSound ==
  ASSUME NEW g, NEW symbols, AllSound(g, symbols), NEW a \in Nat, NEW b \in Nat,
         a >= 1, b <= Len(symbols), a <= b + 1
  PROVE  AllSound(g, SubSeq(symbols, a, b))
<1>1. IsSequence(symbols) /\ \A i \in DOMAIN symbols : Sound(g, symbols[i])
  BY DEF AllSound
<1>2. /\ IsSequence(SubSeq(symbols, a, b))
      /\ DOMAIN SubSeq(symbols, a, b) = 1 .. b - a + 1
      /\ \A i \in 1 .. b - a + 1 : /\ i + a - 1 \in DOMAIN symbols
                                   /\ SubSeq(symbols, a, b)[i] = symbols[i + a - 1]
  BY <1>1, SubSeqParts
<1> QED
  BY <1>1, <1>2 DEF AllSound

\* A reduction finds its symbols, and what it leaves spells the shorter stack.
LEMMA ReductionFits ==
  ASSUME NEW t \in Task, NEW stack, IsStack(t.grammar, stack),
         NEW symbols, AllSound(t.grammar, symbols), Spells(t.grammar, stack, symbols),
         NEW r, <<r, Len(Rule[t.grammar][r].rhs)>> \in Items[t.grammar][Last(stack).state]
  PROVE  /\ FirstOf(symbols, Len(Rule[t.grammar][r].rhs)) # {}
         /\ \A k \in FirstOf(symbols, Len(Rule[t.grammar][r].rhs)) :
              /\ k \in 1 .. Len(symbols) /\ Len(symbols) \in Nat
              /\ Sound(t.grammar, NonTerm(Rule[t.grammar][r].lhs, r,
                                          SubSeq(symbols, k, Len(symbols))))
              /\ AllSound(t.grammar, SubSeq(symbols, 1, k - 1))
              /\ \A other :
                   /\ IsSequence(other) /\ Len(other) = Len(stack) - Len(Rule[t.grammar][r].rhs)
                   /\ \A j \in 1 .. Len(other) : other[j].state = stack[j].state
                   => /\ IsStack(t.grammar, other)
                      /\ Spells(t.grammar, other, SubSeq(symbols, 1, k - 1))
                      /\ <<r, 0>> \in Items[t.grammar][Last(other).state]
                      /\ Last(other).state \in StatesOf(t.grammar)
<1>1. PICK g, rhs, d, n :
        g = t.grammar /\ rhs = Rule[g][r].rhs /\ d = Len(stack) /\ n = Len(Rule[t.grammar][r].rhs)
  OBVIOUS
<1>2. /\ n \in Nat /\ n # 0 /\ n < d /\ rhs \in Seq(ToSet(rhs))
      /\ \A j \in 0 .. n : <<r, n - j>> \in Items[g][stack[d - j].state]
  BY <1>1, RuleWalked
<1>3. /\ d \in Nat /\ DOMAIN stack = 1 .. d /\ IsSequence(symbols)
      /\ \A j \in 1 .. d : stack[j].state \in StatesOf(g)
      /\ stack[1].state = Start[g].state
  BY <1>1 DEF IsStack, IsSequence, AllSound
<1>4. PICK p :
        /\ Enumerates(p, d - 1, CountedIn(symbols))
        /\ \A j \in 1 .. d - 1 : Passes(g, stack[j].state, symbols[p[j]].id, stack[j + 1].state)
  BY <1>1 DEF Spells
<1>5. \A j \in 1 .. n : d - 1 - n + j \in 1 .. d - 1 /\ symbols[p[d - 1 - n + j]].id = rhs[j]
  <2>1. \A j \in 1 .. Len(stack) - 1 :
          Passes(t.grammar, stack[j].state, symbols[p[j]].id, stack[j + 1].state)
    BY <1>1, <1>4
  <2>2. Spelled(Rule[t.grammar][r].rhs, n, Len(stack) - 1, symbols, p)
    <3>1. Len(Rule[t.grammar][r].rhs) = n /\ <<r, n>> \in Items[t.grammar][Last(stack).state]
      BY <1>1
    <3> QED
      BY <2>1, <3>1, RuleSpelled
  <2> QED
    BY <1>1, <2>2 DEF Spelled
<1>6. PICK m, b : m = d - 1 /\ b = d - 1 - n
  OBVIOUS
<1>7. m \in Nat /\ b \in Nat /\ b < m /\ n \in 1 .. m /\ m - n + 1 = b + 1 /\ m - b = n
  BY <1>2, <1>3, <1>6
<1>8. Enumerates(p, m, CountedIn(symbols))
  BY <1>4, <1>6
<1>9. FirstOf(symbols, n) = {p[b + 1]}
  <2>1. IsSequence(symbols)
    BY <1>3
  <2>2. m \in Nat /\ n \in 1 .. m
    BY <1>7
  <2>3. FirstOf(symbols, n) = {p[m - n + 1]}
    BY <1>8, <2>1, <2>2, LastCounted
  <2> QED
    BY <1>7, <2>3
<1>10. PICK k, l : k = p[b + 1] /\ l = Len(symbols)
  OBVIOUS
<1>11. l \in Nat /\ k \in 1 .. l /\ k \in Nat /\ k - 1 \in Nat
  <2>1. l \in Nat
    BY <1>3, <1>10 DEF IsSequence
  <2>2. k \in 1 .. l
    BY <1>3, <1>7, <1>8, <1>10, PrefixCounted
  <2> QED
    BY <2>1, <2>2
<1>12. PICK before, parts : before = SubSeq(symbols, 1, k - 1) /\ parts = SubSeq(symbols, k, l)
  OBVIOUS
<1>13. AllSound(g, before) /\ AllSound(g, parts) /\ parts # <<>>
  <2>1. PICK u : u = k - 1
    OBVIOUS
  <2>2. u \in Nat /\ 1 \in Nat /\ 1 >= 1 /\ u <= Len(symbols) /\ 1 <= u + 1
    BY <1>10, <1>11, <2>1
  <2>3. AllSound(g, SubSeq(symbols, 1, u))
    BY <1>1, <2>2, SubSound
  <2>4. k >= 1 /\ l <= Len(symbols) /\ k <= l + 1 /\ l - k + 1 # 0
    BY <1>10, <1>11
  <2>5. AllSound(g, SubSeq(symbols, k, l)) /\ Len(SubSeq(symbols, k, l)) = l - k + 1
    BY <1>1, <1>3, <1>11, <2>4, SubSound, SubSeqParts
  <2> QED
    BY <1>12, <2>1, <2>3, <2>4, <2>5
<1>14. FollowsRule(g, NonTerm(Rule[g][r].lhs, r, parts))
  <2>1. PICK q : SuffixLed(symbols, p, m, b, q)
    <3>1. IsSequence(symbols)
      BY <1>3
    <3>2. m \in Nat /\ b \in Nat /\ b < m
      BY <1>7
    <3> QED
      BY <1>8, <3>1, <3>2, SuffixCounted
  <2>2. /\ Enumerates(q, n, CountedIn(parts))
        /\ \A j \in 1 .. n : parts[q[j]] = symbols[p[b + j]]
    BY <1>7, <1>10, <1>12, <2>1 DEF SuffixLed
  <2>3. \A j \in 1 .. n : parts[q[j]].id = rhs[j]
    BY <1>5, <1>6, <2>2
  <2>4. rhs = [j \in 1 .. n |-> rhs[j]]
    <3>1. n = Len(rhs)
      BY <1>1
    <3>2. rhs \in Seq(ToSet(rhs))
      BY <1>2
    <3> QED
      BY <3>1, <3>2
  <2>5. Rule[g][r].rhs = [j \in 1 .. n |-> parts[q[j]].id]
    BY <1>1, <2>3, <2>4
  <2>6. n \in Nat
    BY <1>2
  <2> QED
    BY <2>2, <2>5, <2>6, FollowsFrom
<1>15. Sound(g, NonTerm(Rule[g][r].lhs, r, parts))
  BY <1>13, <1>14, MadeSound
<1>16. ASSUME NEW other, IsSequence(other), Len(other) = d - n,
              \A j \in 1 .. Len(other) : other[j].state = stack[j].state
       PROVE  /\ IsStack(g, other) /\ Spells(g, other, before)
              /\ <<r, 0>> \in Items[g][Last(other).state]
              /\ Last(other).state \in StatesOf(g)
  <2>1. /\ d - n = b + 1 /\ b + 1 - 1 = b /\ b + 1 \in Nat /\ b + 1 # 0 /\ b + 1 \in 1 .. d
        /\ n \in 0 .. n /\ n - n = 0
        /\ \A j \in 1 .. b + 1 : j \in 1 .. d
    <3>1. d \in Nat /\ n \in Nat /\ n < d /\ b = d - 1 - n
      BY <1>2, <1>3, <1>6
    <3> QED
      BY ONLY <3>1
  <2>2. DOMAIN other = 1 .. b + 1 /\ Len(other) = b + 1 /\ Last(other) = other[b + 1]
        /\ \A j \in 1 .. b + 1 : other[j].state = stack[j].state
    BY <1>16, <2>1 DEF IsSequence, Last
  <2>3. 1 \in 1 .. b + 1 /\ b + 1 \in 1 .. b + 1 /\ other # <<>>
    BY <2>1, <2>2
  <2>4. Last(other).state = stack[b + 1].state /\ stack[b + 1].state \in StatesOf(g)
    BY <1>3, <2>1, <2>2, <2>3
  <2>5. <<r, 0>> \in Items[g][stack[b + 1].state]
    BY <1>2, <2>1
  <2>6. IsStack(g, other)
    BY <1>3, <1>16, <2>1, <2>2, <2>3 DEF IsStack
  <2>7. PICK q : /\ Enumerates(q, b, CountedIn(SubSeq(symbols, 1, p[b + 1] - 1)))
                 /\ \A i \in 1 .. b : q[i] = p[i]
    <3>1. IsSequence(symbols)
      BY <1>3
    <3>2. m \in Nat /\ b \in Nat /\ b < m
      BY <1>7
    <3> QED
      BY <1>8, <3>1, <3>2, PrefixCounted
  <2>8. Enumerates(q, b, CountedIn(before))
    BY <1>10, <1>12, <2>7
  <2>10. \A j \in 1 .. k - 1 : before[j] = symbols[j]
    <3>1. PICK u : u = k - 1
      OBVIOUS
    <3>2. u \in Nat /\ 1 \in Nat /\ 1 >= 1 /\ u <= Len(symbols) /\ 1 <= u + 1 /\ u - 1 + 1 = u
      BY <1>10, <1>11, <3>1
    <3>3. \A i \in 1 .. u - 1 + 1 : SubSeq(symbols, 1, u)[i] = symbols[i + 1 - 1]
      BY <1>3, <3>2, SubSeqParts
    <3>4. \A i \in 1 .. u : i + 1 - 1 = i
      BY <3>2
    <3> QED
      BY <1>12, <3>1, <3>2, <3>3, <3>4
  <2>11. DOMAIN before = 1 .. k - 1
    <3>1. PICK u : u = k - 1
      OBVIOUS
    <3>2. u \in Nat /\ 1 \in Nat /\ 1 >= 1 /\ u <= Len(symbols) /\ 1 <= u + 1 /\ u - 1 + 1 = u
      BY <1>10, <1>11, <3>1
    <3>3. DOMAIN SubSeq(symbols, 1, u) = 1 .. u - 1 + 1
      BY <1>3, <3>2, SubSeqParts
    <3> QED
      BY <1>12, <3>1, <3>2, <3>3
  <2>12. \A j \in 1 .. b : q[j] \in DOMAIN before
    BY <2>8 DEF Enumerates, CountedIn
  <2>13. \A j \in 1 .. b : before[q[j]] = symbols[p[j]]
    BY <2>7, <2>10, <2>11, <2>12
  <2>14. \A j \in 1 .. b : j \in 1 .. b + 1 /\ j + 1 \in 1 .. b + 1 /\ j \in 1 .. d - 1
    BY <1>3, <1>6, <1>7
  <2>15. \A j \in 1 .. b : Passes(g, other[j].state, before[q[j]].id, other[j + 1].state)
    BY <1>4, <2>2, <2>13, <2>14
  <2>16. Spells(g, other, before)
    <3>1. q \in [1 .. b -> Nat] /\ Len(other) - 1 = b
      <4>1. Len(other) = b + 1
        BY <2>2
      <4>2. Len(other) - 1 = b
        BY <1>7, <4>1
      <4> QED
        BY <2>8, <4>2 DEF Enumerates
    <3> QED
      BY <2>8, <2>15, <3>1 DEF Spells
  <2> QED
    BY <2>4, <2>5, <2>6, <2>16
<1>17. FirstOf(symbols, n) = {k}
  BY <1>9, <1>10
<1> QED
  BY <1>1, <1>10, <1>11, <1>12, <1>13, <1>15, <1>16, <1>17

------------------------------------------------------------------------------
(* What the steps of a context make of its stack and its symbols.           *)
LEMMA FieldsKept ==
  ASSUME NEW c, IsContext(c), NEW v
  PROVE  /\ [c EXCEPT !.symbols = v].symbols = v /\ [c EXCEPT !.symbols = v].stack = c.stack
         /\ [c EXCEPT !.finished = v].symbols = c.symbols
         /\ [c EXCEPT !.finished = v].stack = c.stack
         /\ [c EXCEPT !.ptr = v].symbols = c.symbols /\ [c EXCEPT !.ptr = v].stack = c.stack
BY DEF IsContext, ContextFields

\* The fields that a step changes, and those that it does not.
LEMMA FieldsStepped ==
  ASSUME NEW c, IsContext(c)
  PROVE  /\ AfterShift(c).stack = Append(Resumed(c), Plain(Actions(c)[1].state))
         /\ AfterShift(c).symbols = c.symbols
         /\ AfterSkip(c).stack = c.stack /\ AfterSkip(c).symbols = c.symbols
         /\ \A n : /\ Inserted(c, n).stack = c.stack
                   /\ Inserted(c, n).symbols = Append(c.symbols, Unique(store, n))
         /\ Branch(c).stack = Append(Front(c.stack), [state |-> Last(c.stack).state,
                                                      branch |-> Head(branches)])
         /\ Branch(c).symbols = c.symbols
<1>1. c = [f \in ContextFields |-> c[f]]
  BY DEF IsContext
<1>2. PICK m, s : m = c.ptr + 1 /\ s = Append(Resumed(c), Plain(Actions(c)[1].state))
  OBVIOUS
<1>3. AfterShift(c).stack = s /\ AfterShift(c).symbols = c.symbols
  <2>1. AfterShift(c) = [c EXCEPT !.ptr = m, !.stack = s]
    BY <1>1, <1>2 DEF AfterShift, ContextFields
  <2> QED
    BY <1>1, <2>1 DEF ContextFields
<1>4. AfterSkip(c).stack = c.stack /\ AfterSkip(c).symbols = c.symbols
  <2>1. AfterSkip(c) = [c EXCEPT !.ptr = m]
    BY <1>1, <1>2 DEF AfterSkip, ContextFields
  <2> QED
    BY <1>1, <2>1 DEF ContextFields
<1>5. ASSUME NEW n
      PROVE  /\ Inserted(c, n).stack = c.stack
             /\ Inserted(c, n).symbols = Append(c.symbols, Unique(store, n))
  <2>1. PICK y : y = Append(c.symbols, Unique(store, n))
    OBVIOUS
  <2>2. Inserted(c, n) = [c EXCEPT !.symbols = y]
    BY <1>1, <2>1 DEF Inserted, ContextFields
  <2> QED
    BY <1>1, <2>1, <2>2 DEF ContextFields
<1>6. PICK b, z : /\ b = boxes
                  /\ z = Append(Front(c.stack), [state |-> Last(c.stack).state,
                                                 branch |-> Head(branches)])
  OBVIOUS
<1>7. Branch(c).stack = z /\ Branch(c).symbols = c.symbols
  <2>1. Branch(c) = [c EXCEPT !.box = b, !.stack = z]
    BY <1>1, <1>6 DEF Branch, ContextFields
  <2> QED
    BY <1>1, <2>1 DEF ContextFields
<1> QED
  BY <1>2, <1>3, <1>4, <1>5, <1>6, <1>7

\* Another entry on top for the same state.
LEMMA TopChanged ==
  ASSUME NEW s, IsSequence(s), s # <<>>, NEW e, e.state = Last(s).state
  PROVE  /\ IsSequence(Append(Front(s), e)) /\ Len(Append(Front(s), e)) = Len(s)
         /\ \A j \in 1 .. Len(s) : Append(Front(s), e)[j].state = s[j].state
         /\ Last(Append(Front(s), e)) = e
<1>1. PICK k, f : k = Len(s) /\ f = Front(s)
  OBVIOUS
<1>2. k \in Nat /\ k # 0 /\ Last(s) = s[k]
  BY <1>1 DEF IsSequence, Last
<1>3. PICK l : l = k - 1
  OBVIOUS
<1>4. l \in Nat /\ 1 \in Nat /\ 1 >= 1 /\ l <= Len(s) /\ 1 <= l + 1 /\ l - 1 + 1 = l /\ l + 1 = k
  BY <1>1, <1>2, <1>3
<1>5. f = SubSeq(s, 1, l)
  BY <1>1, <1>3 DEF Front
<1>6. IsSequence(f) /\ Len(f) = l /\ \A i \in 1 .. l : f[i] = s[i]
  <2>1. /\ IsSequence(SubSeq(s, 1, l)) /\ Len(SubSeq(s, 1, l)) = l - 1 + 1
        /\ \A i \in 1 .. l - 1 + 1 : SubSeq(s, 1, l)[i] = s[i + 1 - 1]
    BY <1>4, SubSeqParts
  <2>2. \A i \in 1 .. l : i + 1 - 1 = i
    BY <1>4
  <2> QED
    BY <1>4, <1>5, <2>1, <2>2
<1>7. PICK t : t = Append(f, e)
  OBVIOUS
<1>8. /\ IsSequence(t) /\ Len(t) = l + 1 /\ \A i \in 1 .. l : t[i] = f[i]
      /\ t[l + 1] = e /\ Last(t) = e
  BY <1>6, <1>7, AppendedParts
<1>9. \A j \in 1 .. k : t[j].state = s[j].state
  <2> SUFFICES ASSUME NEW j \in 1 .. k PROVE t[j].state = s[j].state
    OBVIOUS
  <2>1. j = k \/ j \in 1 .. l
    BY <1>2, <1>4
  <2>2. j = k => t[j] = e /\ s[j] = Last(s)
    BY <1>2, <1>4, <1>8
  <2>3. j \in 1 .. l => t[j] = s[j]
    BY <1>6, <1>8
  <2> QED
    BY <2>1, <2>2, <2>3
<1> QED
  BY <1>1, <1>4, <1>7, <1>8, <1>9

\* The actions of a context are those of the state it is in.
LEMMA ActionsAre ==
  ASSUME task \in Task, NEW c, IsContext(c), IsStack(task.grammar, c.stack), OnBranch(task, c)
  PROVE  /\ Last(c.stack).state \in StatesOf(task.grammar)
         /\ Lookahead(c) = LookaheadAt(task, c.ptr)
         /\ Lookahead(c) \in DOMAIN Table[task.grammar][Last(c.stack).state]
         /\ Lookahead(c) \in ToSet(task.input) \cup {END}
         /\ IsSequence(Actions(c))
         /\ \A i \in DOMAIN Actions(c) :
              Actions(c)[i] \in ActionsOn(task.grammar, Last(c.stack).state, Lookahead(c))
         /\ Last(c.stack).branch # NULL =>
              Len(Actions(c)) = 1 /\ Actions(c)[1].act # "skip"
         /\ Last(c.stack).branch = NULL =>
              Actions(c) = Table[task.grammar][Last(c.stack).state][Lookahead(c)]
<1>1. PICK g, e, s, x : /\ g = task.grammar /\ e = Last(c.stack) /\ s = e.state /\ x = Lookahead(c)
  OBVIOUS
<1>2. s \in StatesOf(g)
  <2>1. PICK k : k = Len(c.stack)
    OBVIOUS
  <2>2. k \in Nat /\ k # 0 /\ DOMAIN c.stack = 1 .. k /\ e = c.stack[k]
    BY <1>1, <2>1 DEF IsStack, IsSequence, Last
  <2>3. k \in DOMAIN c.stack
    BY <2>2
  <2> QED
    BY <1>1, <2>2, <2>3 DEF IsStack
<1>3. x = LookaheadAt(task, c.ptr)
  BY <1>1 DEF Lookahead, LookaheadAt, Input
<1>4. x \in ToSet(task.input) \cup {END}
  <2>1. task.input \in Seq(ToSet(task.input)) /\ c.ptr \in Nat
    BY InputAssumption DEF IsContext
  <2>2. c.ptr < Len(task.input) => c.ptr + 1 \in DOMAIN task.input
    BY <2>1
  <2> QED
    BY <1>3, <2>1, <2>2 DEF LookaheadAt
<1>5. /\ x \in DOMAIN Table[g][s]
      /\ Table[g][s][x] \in Seq(ActionsOn(g, s, x))
  BY <1>1, <1>2, <1>4, AutomatonAssumption
<1>6. CASE e.branch = NULL
  <2>1. Actions(c) = Table[g][s][x]
    BY <1>1, <1>6 DEF Actions
  <2>2. IsSequence(Table[g][s][x])
    BY <1>5, SequenceOf
  <2>3. \A i \in DOMAIN Table[g][s][x] : Table[g][s][x][i] \in ActionsOn(g, s, x)
    BY <1>5
  <2> QED
    BY <1>1, <1>2, <1>3, <1>4, <1>5, <1>6, <2>1, <2>2, <2>3
<1>7. CASE e.branch # NULL
  <2>1. Actions(c) = <<e.branch>>
    BY <1>1, <1>7 DEF Actions
  <2>2. e.branch \in ActionsOn(g, s, x) /\ e.branch.act # "skip"
    BY <1>1, <1>3, <1>7 DEF OnBranch, IsBranch
  <2>3. IsSequence(<<e.branch>>) /\ Len(<<e.branch>>) = 1 /\ <<e.branch>>[1] = e.branch
        /\ \A i \in DOMAIN <<e.branch>> : <<e.branch>>[i] = e.branch
    BY DEF IsSequence, ToSet
  <2> QED
    BY <1>1, <1>2, <1>3, <1>4, <1>5, <1>7, <2>1, <2>2, <2>3
<1> QED
  BY <1>6, <1>7

\* ... and so is the one action it takes.
LEMMA ActIs ==
  ASSUME task \in Task, NEW c, IsContext(c), IsStack(task.grammar, c.stack), OnBranch(task, c),
         NEW kind, Acts(c, kind)
  PROVE  /\ Actions(c)[1] \in ActionsOn(task.grammar, Last(c.stack).state, Lookahead(c))
         /\ Actions(c)[1].act = kind
<1>1. Len(Actions(c)) = 1 /\ Actions(c)[1].act = kind
  BY DEF Acts
<1>2. 1 \in DOMAIN Actions(c)
  BY <1>1, ActionsAre DEF IsSequence
<1> QED
  BY <1>1, <1>2, ActionsAre

\* Taking the branch off the top of the stack.
LEMMA ResumedFits ==
  ASSUME NEW g, NEW c, IsStack(g, c.stack)
  PROVE  /\ IsSequence(Resumed(c)) /\ Len(Resumed(c)) = Len(c.stack)
         /\ \A j \in 1 .. Len(c.stack) : Resumed(c)[j].state = c.stack[j].state
         /\ IsStack(g, Resumed(c)) /\ Last(Resumed(c)).state = Last(c.stack).state
         /\ \A symbols : Spells(g, c.stack, symbols) => Spells(g, Resumed(c), symbols)
<1>1. PICK e : e = Plain(Last(c.stack).state)
  OBVIOUS
<1>2. e.state = Last(c.stack).state /\ Resumed(c) = Append(Front(c.stack), e)
  BY <1>1 DEF Plain, Resumed
<1>3. IsSequence(c.stack) /\ c.stack # <<>>
  BY DEF IsStack
<1>4. /\ IsSequence(Resumed(c)) /\ Len(Resumed(c)) = Len(c.stack)
      /\ \A j \in 1 .. Len(c.stack) : Resumed(c)[j].state = c.stack[j].state
      /\ Last(Resumed(c)) = e
  BY <1>2, <1>3, TopChanged
<1> QED
  BY <1>2, <1>4, SameStates

\* A token is shifted: any node called like it leads on.
LEMMA ShiftFits ==
  ASSUME task \in Task, NEW c, IsContext(c), Fits(task, c), Acts(c, "shift")
  PROVE  /\ Shifts(task.grammar, Lookahead(c))
         /\ IsStack(task.grammar, AfterShift(c).stack)
         /\ AfterShift(c).symbols = c.symbols
         /\ Last(AfterShift(c).stack).branch = NULL
         /\ \A n : Counted(n) /\ n.id = Lookahead(c) =>
              Spells(task.grammar, AfterShift(c).stack, Append(c.symbols, n))
<1>1. PICK g, s, x, q : /\ g = task.grammar /\ s = Last(c.stack).state /\ x = Lookahead(c)
                        /\ q = Actions(c)[1].state
  OBVIOUS
<1>2. IsStack(g, c.stack) /\ Spells(g, c.stack, c.symbols) /\ IsSequence(c.symbols) /\ OnBranch(task, c)
  BY <1>1 DEF Fits, AllSound
<1>3. Actions(c)[1] \in ActionsOn(g, s, x) /\ Actions(c)[1].act = "shift"
  BY <1>1, <1>2, ActIs
<1>4. s \in StatesOf(g) /\ x \in DOMAIN Table[g][s]
  BY <1>1, <1>2, ActionsAre
<1>5. Shifts(g, x)
  BY <1>3, <1>4 DEF Shifts
<1>6. Passes(g, s, x, q)
  BY <1>1, <1>3, <1>4, AutomatonAssumption
<1>7. PICK r : r = Resumed(c)
  OBVIOUS
<1>8. /\ IsSequence(r) /\ IsStack(g, r) /\ Last(r).state = s /\ Spells(g, r, c.symbols)
  BY <1>1, <1>2, <1>7, ResumedFits
<1>9. PICK e : e = Plain(q)
  OBVIOUS
<1>10. e.state = q /\ e.branch = NULL
  BY <1>9 DEF Plain
<1>11. AfterShift(c).stack = Append(r, e) /\ AfterShift(c).symbols = c.symbols
  BY <1>1, <1>7, <1>9, FieldsStepped
<1>12. Last(Append(r, e)) = e
  BY <1>8, AppendedParts
<1>13. ASSUME NEW n, Counted(n), n.id = x
       PROVE  IsStack(g, Append(r, e)) /\ Spells(g, Append(r, e), Append(c.symbols, n))
  BY <1>2, <1>6, <1>8, <1>10, <1>13, CountedSpells
<1>14. PICK n : n = Token(x)
  OBVIOUS
<1>15. Counted(n) /\ n.id = x
  BY <1>14 DEF Token, Counted
<1>16. IsStack(g, Append(r, e))
  BY <1>13, <1>15
<1> QED
  BY <1>1, <1>5, <1>10, <1>11, <1>12, <1>13, <1>16

\* A token is skipped: the stack stays as it is.
LEMMA SkipFits ==
  ASSUME task \in Task, NEW c, IsContext(c), Fits(task, c), Acts(c, "skip")
  PROVE  /\ Skips(task.grammar, Lookahead(c))
         /\ AfterSkip(c).stack = c.stack /\ AfterSkip(c).symbols = c.symbols
         /\ Last(c.stack).branch = NULL
<1>1. PICK g, s, x : g = task.grammar /\ s = Last(c.stack).state /\ x = Lookahead(c)
  OBVIOUS
<1>2. IsStack(g, c.stack) /\ OnBranch(task, c)
  BY <1>1 DEF Fits
<1>3. Actions(c)[1] \in ActionsOn(g, s, x) /\ Actions(c)[1].act = "skip"
  BY <1>1, <1>2, ActIs
<1>4. s \in StatesOf(g) /\ x \in DOMAIN Table[g][s] /\ Last(c.stack).branch = NULL
  BY <1>1, <1>2, <1>3, ActionsAre
<1>5. Skips(g, x)
  BY <1>3, <1>4 DEF Skips
<1> QED
  BY <1>1, <1>4, <1>5, FieldsStepped

\* Where the parser forks it does not skip.
LEMMA ForkFits ==
  ASSUME task \in Task, NEW c, IsContext(c), Fits(task, c), Forks(c)
  PROVE  /\ IsSequence(Actions(c)) /\ Actions(c) # <<>>
         /\ \A i \in DOMAIN Actions(c) :
              IsBranch(task, Actions(c)[i], Last(c.stack).state, c.ptr)
<1>1. PICK g, s, x : g = task.grammar /\ s = Last(c.stack).state /\ x = Lookahead(c)
  OBVIOUS
<1>2. IsStack(g, c.stack) /\ OnBranch(task, c)
  BY <1>1 DEF Fits
<1>3. /\ s \in StatesOf(g) /\ x \in DOMAIN Table[g][s] /\ x = LookaheadAt(task, c.ptr)
      /\ IsSequence(Actions(c))
      /\ \A i \in DOMAIN Actions(c) : Actions(c)[i] \in ActionsOn(g, s, x)
      /\ Last(c.stack).branch # NULL => Len(Actions(c)) = 1
      /\ Last(c.stack).branch = NULL => Actions(c) = Table[g][s][x]
  BY <1>1, <1>2, ActionsAre
<1>4. Len(Actions(c)) > 1
  BY DEF Forks
<1>5. Actions(c) = Table[g][s][x] /\ Actions(c) # <<>> /\ Len(Actions(c)) # 1
  <2>1. Len(Actions(c)) \in Nat /\ Len(Actions(c)) # 1 /\ Len(Actions(c)) # 0
    BY <1>3, <1>4 DEF IsSequence
  <2> QED
    BY <1>3, <2>1
<1>6. \A a \in ActionsOn(g, s, x) : a.act # "skip"
  <2>1. \A a \in ActionsOn(g, s, x) : a.act = "skip" => Len(Table[g][s][x]) = 1
    BY <1>1, <1>3, AutomatonAssumption
  <2> QED
    BY <1>5, <2>1
<1> QED
  BY <1>1, <1>3, <1>5, <1>6 DEF IsBranch

\* An entry that is accepted has been read.
LEMMA AcceptFits ==
  ASSUME task \in Task, NEW c, IsContext(c), Fits(task, c), Acts(c, "accept")
  PROVE  c.symbols # <<>>
<1>1. PICK g, s, x, k : g = task.grammar /\ s = Last(c.stack).state /\ x = Lookahead(c) /\ k = Len(c.stack)
  OBVIOUS
<1>2. IsStack(g, c.stack) /\ OnBranch(task, c) /\ Spells(g, c.stack, c.symbols)
  BY <1>1 DEF Fits
<1>3. Actions(c)[1] \in ActionsOn(g, s, x) /\ Actions(c)[1].act = "accept"
  BY <1>1, <1>2, ActIs
<1>4. s \in StatesOf(g) /\ x \in DOMAIN Table[g][s]
  BY <1>1, <1>2, ActionsAre
<1>5. \E i \in Items[g][s] : i[2] > 0
  BY <1>1, <1>3, <1>4, AutomatonAssumption
<1>6. s # Start[g].state
  BY <1>1, <1>4, <1>5, ItemsAre
<1>7. k \in Nat /\ k # 0 /\ Last(c.stack) = c.stack[k] /\ c.stack[1].state = Start[g].state
  BY <1>1, <1>2 DEF IsStack, IsSequence, Last
<1>8. k # 1 /\ 1 \in 1 .. k - 1
  BY <1>1, <1>6, <1>7
<1>9. PICK p : Enumerates(p, k - 1, CountedIn(c.symbols))
  BY <1>1, <1>2 DEF Spells
<1>10. p[1] \in DOMAIN c.symbols
  BY <1>8, <1>9 DEF Enumerates, CountedIn
<1> QED
  BY <1>10

\* A rule is reduced: what reduce_symbols takes follows it, and what is left
\* leads to a state that passes its non-terminal.
LEMMA ReduceFits ==
  ASSUME task \in Task, NEW c, IsContext(c), Fits(task, c), Acts(c, "reduce")
  PROVE  /\ FirstOf(c.symbols, Len(RuleToReduce(c).rhs)) # {}
         /\ \A k \in FirstOf(c.symbols, Len(RuleToReduce(c).rhs)) :
              /\ k \in 1 .. Len(c.symbols) /\ Len(c.symbols) \in Nat
              /\ Sound(task.grammar, NonTerm(RuleToReduce(c).lhs, Actions(c)[1].rule,
                                             SubSeq(c.symbols, k, Len(c.symbols))))
              /\ AllSound(task.grammar, SubSeq(c.symbols, 1, k - 1))
              /\ IsStack(task.grammar, AfterReduce(c))
              /\ Last(AfterReduce(c)).branch = NULL
              /\ \A n : Counted(n) /\ n.id = RuleToReduce(c).lhs =>
                   Spells(task.grammar, AfterReduce(c), Append(SubSeq(c.symbols, 1, k - 1), n))
<1>1. PICK g, s, x, r : /\ g = task.grammar /\ s = Last(c.stack).state /\ x = Lookahead(c)
                        /\ r = Actions(c)[1].rule
  OBVIOUS
<1>2. /\ IsStack(g, c.stack) /\ OnBranch(task, c) /\ Spells(g, c.stack, c.symbols)
      /\ AllSound(g, c.symbols)
  BY <1>1 DEF Fits
<1>3. Actions(c)[1] \in ActionsOn(g, s, x) /\ Actions(c)[1].act = "reduce"
  BY <1>1, <1>2, ActIs
<1>4. s \in StatesOf(g) /\ x \in DOMAIN Table[g][s]
  BY <1>1, <1>2, ActionsAre
<1>5. RuleToReduce(c) = Rule[g][r]
  BY <1>1 DEF RuleToReduce
<1>6. /\ <<r, Len(Rule[g][r].rhs)>> \in Items[g][s]
      /\ \A q \in StatesOf(g) :
           <<r, 0>> \in Items[g][q] => Passes(g, q, Rule[g][r].lhs, Target[g][q][Rule[g][r].lhs])
  BY <1>1, <1>3, <1>4, AutomatonAssumption
<1>7. PICK d, n, lhs : d = Len(c.stack) /\ n = Len(Rule[g][r].rhs) /\ lhs = Rule[g][r].lhs
  OBVIOUS
<1>8. n \in Nat /\ n # 0 /\ n < d
  BY <1>1, <1>2, <1>6, <1>7, RuleWalked
<1>9. PICK u : u = Uncovered(c)
  OBVIOUS
<1>10. d \in Nat
  BY <1>2, <1>7 DEF IsStack, IsSequence
<1>11. /\ IsSequence(u) /\ Len(u) = d - n
       /\ \A j \in 1 .. Len(u) : u[j].state = c.stack[j].state
  <2>1. PICK l, f : l = d - n /\ f = Resumed(c)
    OBVIOUS
  <2>2. /\ IsSequence(f) /\ Len(f) = d
        /\ \A j \in 1 .. d : f[j].state = c.stack[j].state
    BY <1>2, <1>7, <2>1, ResumedFits
  <2>3. l \in Nat /\ 1 \in Nat /\ 1 >= 1 /\ l <= Len(f) /\ 1 <= l + 1 /\ l - 1 + 1 = l
        /\ \A i \in 1 .. l : i + 1 - 1 = i /\ i \in 1 .. d
    BY <1>8, <1>10, <2>1, <2>2
  <2>4. /\ IsSequence(SubSeq(f, 1, l)) /\ Len(SubSeq(f, 1, l)) = l - 1 + 1
        /\ \A i \in 1 .. l - 1 + 1 : SubSeq(f, 1, l)[i] = f[i + 1 - 1]
    BY <2>2, <2>3, SubSeqParts
  <2>5. u = SubSeq(f, 1, l)
    BY <1>5, <1>7, <1>9, <2>1 DEF Uncovered
  <2>6. /\ IsSequence(u) /\ Len(u) = l /\ \A i \in 1 .. l : u[i] = f[i]
    BY <2>3, <2>4, <2>5
  <2> QED
    BY <2>1, <2>2, <2>3, <2>6
<1>12. PICK e : e = Plain(Target[g][Last(u).state][lhs])
  OBVIOUS
<1>13. e.branch = NULL /\ e.state = Target[g][Last(u).state][lhs]
  BY <1>12 DEF Plain
<1>14. AfterReduce(c) = Append(u, e)
  BY <1>1, <1>5, <1>7, <1>9, <1>12 DEF AfterReduce
<1>15. Last(Append(u, e)) = e
  BY <1>11, AppendedParts
<1>16. /\ FirstOf(c.symbols, n) # {}
       /\ \A k \in FirstOf(c.symbols, n) :
            /\ k \in 1 .. Len(c.symbols) /\ Len(c.symbols) \in Nat
            /\ Sound(g, NonTerm(lhs, r, SubSeq(c.symbols, k, Len(c.symbols))))
            /\ AllSound(g, SubSeq(c.symbols, 1, k - 1))
            /\ IsStack(g, u) /\ Spells(g, u, SubSeq(c.symbols, 1, k - 1))
            /\ <<r, 0>> \in Items[g][Last(u).state] /\ Last(u).state \in StatesOf(g)
  <2>1. <<r, Len(Rule[task.grammar][r].rhs)>> \in Items[task.grammar][Last(c.stack).state]
    BY <1>1, <1>6
  <2>2. /\ IsStack(task.grammar, c.stack) /\ Spells(task.grammar, c.stack, c.symbols)
        /\ AllSound(task.grammar, c.symbols)
    BY <1>1, <1>2
  <2>3. /\ FirstOf(c.symbols, Len(Rule[task.grammar][r].rhs)) # {}
        /\ \A k \in FirstOf(c.symbols, Len(Rule[task.grammar][r].rhs)) :
             /\ k \in 1 .. Len(c.symbols) /\ Len(c.symbols) \in Nat
             /\ Sound(task.grammar, NonTerm(Rule[task.grammar][r].lhs, r,
                                            SubSeq(c.symbols, k, Len(c.symbols))))
             /\ AllSound(task.grammar, SubSeq(c.symbols, 1, k - 1))
             /\ \A other :
                  /\ IsSequence(other)
                  /\ Len(other) = Len(c.stack) - Len(Rule[task.grammar][r].rhs)
                  /\ \A j \in 1 .. Len(other) : other[j].state = c.stack[j].state
                  => /\ IsStack(task.grammar, other)
                     /\ Spells(task.grammar, other, SubSeq(c.symbols, 1, k - 1))
                     /\ <<r, 0>> \in Items[task.grammar][Last(other).state]
                     /\ Last(other).state \in StatesOf(task.grammar)
    BY <2>1, <2>2, ReductionFits
  <2>4. Len(u) = Len(c.stack) - Len(Rule[task.grammar][r].rhs)
    BY <1>1, <1>7, <1>11
  <2> QED
    BY <1>1, <1>7, <1>11, <2>3, <2>4
<1>17. ASSUME NEW k \in FirstOf(c.symbols, n)
       PROVE  /\ IsStack(g, Append(u, e))
              /\ \A y : Counted(y) /\ y.id = lhs =>
                   Spells(g, Append(u, e), Append(SubSeq(c.symbols, 1, k - 1), y))
  <2>1. PICK b : b = SubSeq(c.symbols, 1, k - 1)
    OBVIOUS
  <2>2. IsSequence(b) /\ IsStack(g, u) /\ Spells(g, u, b)
    BY <1>16, <1>17, <2>1 DEF AllSound
  <2>3. Passes(g, Last(u).state, lhs, e.state)
    BY <1>6, <1>7, <1>13, <1>16, <1>17
  <2>4. ASSUME NEW y, Counted(y), y.id = lhs
        PROVE  IsStack(g, Append(u, e)) /\ Spells(g, Append(u, e), Append(b, y))
    BY <2>2, <2>3, <2>4, CountedSpells
  <2>5. PICK y : y = NonTerm(lhs, r, <<>>)
    OBVIOUS
  <2>6. Counted(y) /\ y.id = lhs
    BY <2>5 DEF NonTerm, Counted
  <2> QED
    BY <2>1, <2>4, <2>6
<1> QED
  BY <1>1, <1>5, <1>7, <1>13, <1>14, <1>15, <1>16, <1>17

------------------------------------------------------------------------------
(* What an action queues, stages or steps fits.                             *)
LEMMA QueueKept ==
  ASSUME QueueFits, KeepQueue, task' = task
  PROVE  QueueFits'
BY DEF QueueFits, KeepQueue, queueVars, Queued, Q!Owned

\* A push adds the context and no other.
LEMMA QueuedPushed ==
  ASSUME IsQueue(pushQ), NEW c, Push(c)
  PROVE  \A x \in Queued' : x \in Queued \/ x = c
<1>1. PICK e : e = [item |-> c, priority |-> - c.ptr]
  OBVIOUS
<1>2. PICK k \in 1 .. Len(pushQ) + 1 : pushQ' = Q!InsertAt(pushQ, k, e)
  BY <1>1 DEF Push, Q!AbsPushWithPriority
<1>3. popQ' = popQ
  BY DEF Push, Q!AbsPushWithPriority
<1>4. PICK S : S = ToSet(pushQ) \cup {e}
  OBVIOUS
<1>5. pushQ \in Seq(ToSet(pushQ)) /\ ToSet(pushQ) \subseteq S /\ e \in S
  BY <1>4 DEF IsQueue, IsSequence
<1>6. pushQ \in Seq(S) /\ e \in S
  BY ONLY <1>5
<1>7. Q!InsertAt(pushQ, k, e) \in Seq(S)
  BY <1>2, <1>6, InsertAtPlace
<1>8. \A i \in DOMAIN pushQ' : pushQ'[i] \in S
  BY <1>2, <1>7
<1>9. \A i \in DOMAIN pushQ' : pushQ'[i].item \in Queued \/ pushQ'[i].item = c
  BY <1>1, <1>4, <1>8 DEF Queued, Q!Owned, ToSet
<1> QED
  BY <1>3, <1>9 DEF Queued, Q!Owned

\* Pushing a context that fits.
LEMMA QueuePushed ==
  ASSUME IInv, QueueFits, NEW c, Fits(task, c), Push(c), task' = task
  PROVE  QueueFits'
<1>1. \A x \in Queued' : x \in Queued \/ x = c
  BY QueuedPushed DEF IInv, QueuesSorted
<1> QED
  BY <1>1 DEF QueueFits

\* Stages that are left alone.
LEMMA StagesFitKept ==
  ASSUME StagesFit, UNCHANGED <<task, reduction_stage, completed, groups>>
  PROVE  StagesFit'
BY DEF StagesFit

\* A context that is not a branch of a fork.
LEMMA FitsWhen ==
  ASSUME NEW t, NEW c, AllSound(t.grammar, c.symbols), IsStack(t.grammar, c.stack),
         Spells(t.grammar, c.stack, c.symbols), Last(c.stack).branch = NULL
  PROVE  Fits(t, c)
BY DEF Fits, OnBranch

\* One more sound symbol.
LEMMA SoundAppended ==
  ASSUME NEW g, NEW symbols, AllSound(g, symbols), NEW n, Sound(g, n)
  PROVE  AllSound(g, Append(symbols, n)) /\ IsSequence(symbols) /\ Append(symbols, n) # <<>>
         /\ Last(Append(symbols, n)) = n
<1>1. IsSequence(symbols) /\ \A i \in DOMAIN symbols : Sound(g, symbols[i])
  BY DEF AllSound
<1>2. /\ IsSequence(Append(symbols, n)) /\ Append(symbols, n) # <<>>
      /\ Last(Append(symbols, n)) = n
  BY <1>1, AppendedParts
<1>3. /\ \A i \in DOMAIN Append(symbols, n) :
           \/ i \in DOMAIN symbols /\ Append(symbols, n)[i] = symbols[i]
           \/ Append(symbols, n)[i] = n
  BY <1>1, Appended
<1> QED
  BY <1>1, <1>2, <1>3 DEF AllSound

\* The context that is stepped has the fields of one.
LEMMA SteppedContext ==
  IInv /\ phase \in {"step", "reduce", "fork"} => task \in Task /\ IsContext(rec_ctx)
BY DEF IInv, Gated, IsPending

------------------------------------------------------------------------------
\* What each action makes of it.
LEMMA PopFits == ASSUME IInv, AllFits, Pop PROVE AllFits'
<1>1. /\ popQ # <<>> /\ IsQueue(popQ)
      /\ popQ' = Tail(popQ) /\ pushQ' = pushQ /\ rec_ctx' = Head(popQ).item
      /\ phase' = "step" /\ UNCHANGED <<task, reduction_stage, groups, completed, store, branches>>
  BY DEF IInv, QueuesSorted, Pop, Q!AbsPopFront, kernelVars
<1>2. popQ \in Seq(ToSet(popQ)) /\ Len(popQ) # 0
  BY <1>1 DEF IsQueue, IsSequence
<1>3. /\ 1 \in DOMAIN popQ /\ Head(popQ) = popQ[1]
      /\ \A i \in DOMAIN Tail(popQ) : i + 1 \in DOMAIN popQ /\ Tail(popQ)[i] = popQ[i + 1]
  BY <1>2
<1>4. Head(popQ).item \in Queued
  BY <1>3 DEF Queued, Q!Owned
<1>5. \A x \in Queued' : x \in Queued
  BY <1>1, <1>3 DEF Queued, Q!Owned
<1>6. QueueFits'
  BY <1>1, <1>5 DEF AllFits, QueueFits
<1>7. SteppedFits'
  BY <1>1, <1>4 DEF AllFits, QueueFits, SteppedFits
<1>8. StagesFit'
  BY <1>1, StagesFitKept DEF AllFits
<1> QED
  BY <1>1, <1>6, <1>7, <1>8 DEF AllFits

LEMMA HoldBackFits == ASSUME IInv, AllFits, HoldBack PROVE AllFits'
<1>1. /\ phase = "step" /\ phase' = "pop" /\ Push(rec_ctx)
      /\ UNCHANGED <<task, reduction_stage, groups, completed, store>>
  BY DEF HoldBack, kernelVars
<1>2. Fits(task, rec_ctx)
  BY <1>1 DEF AllFits, SteppedFits
<1>3. QueueFits'
  BY <1>1, <1>2, QueuePushed DEF AllFits
<1>4. SteppedFits' /\ StagesFit'
  BY <1>1, StagesFitKept DEF AllFits, SteppedFits
<1> QED
  BY <1>1, <1>3, <1>4 DEF AllFits

\* A token is inserted after what the context has, shared if it can be.
LEMMA InsertFits ==
  ASSUME LayoutApart, IInv, AllFits, NEW c, IsContext(c), NEW n, StepInsert(c, n),
         Sound(task.grammar, n), n.type # "alts",
         AllSound(task.grammar, c.symbols), IsStack(task.grammar, c.stack),
         Last(c.stack).branch = NULL,
         \A y : (Counted(y) <=> Counted(n)) /\ y.id = n.id =>
           Spells(task.grammar, c.stack, Append(c.symbols, y))
  PROVE  AllFits'
<1>1. /\ phase' = "pop" /\ Push(Inserted(c, n)) /\ store' = Remember(store, n)
      /\ UNCHANGED <<task, reduction_stage, groups, completed>>
  BY DEF StepInsert
<1>2. PICK u : u = Unique(store, n)
  OBVIOUS
<1>3. /\ Sound(task.grammar, u) /\ u.type = n.type /\ u.id = n.id
      /\ IsStore(task.grammar, Remember(store, n))
  BY <1>2, UniqueFits DEF AllFits
<1>4. Spells(task.grammar, c.stack, Append(c.symbols, u))
  BY <1>3 DEF Counted
<1>5. AllSound(task.grammar, Append(c.symbols, u))
  BY <1>3, SoundAppended
<1>6. PICK d : d = Inserted(c, n)
  OBVIOUS
<1>7. d.stack = c.stack /\ d.symbols = Append(c.symbols, u)
  BY <1>2, <1>6, FieldsStepped
<1>8. Fits(task, d)
  BY <1>4, <1>5, <1>7, FitsWhen
<1>9. QueueFits'
  BY <1>1, <1>6, <1>8, QueuePushed DEF AllFits
<1>10. SteppedFits' /\ StagesFit'
  BY <1>1, StagesFitKept DEF AllFits, SteppedFits
<1> QED
  BY <1>1, <1>3, <1>9, <1>10 DEF AllFits

LEMMA StepSkipFits == ASSUME LayoutApart, IInv, AllFits, StepSkip PROVE AllFits'
<1>1. /\ task \in Task /\ IsContext(rec_ctx) /\ Fits(task, rec_ctx)
  BY SteppedContext DEF AllFits, SteppedFits, StepSkip
<1>2. PICK c, n : c = AfterSkip(rec_ctx) /\ n = Skipped(Lookahead(rec_ctx))
  OBVIOUS
<1>3. Acts(rec_ctx, "skip") /\ StepInsert(c, n)
  BY <1>2 DEF StepSkip
<1>4. /\ Skips(task.grammar, Lookahead(rec_ctx)) /\ Last(c.stack).branch = NULL
      /\ c.stack = rec_ctx.stack /\ c.symbols = rec_ctx.symbols
  BY <1>1, <1>2, <1>3, SkipFits
<1>5. IsContext(c)
  BY <1>1, <1>2, ContextStepped
<1>6. Sound(task.grammar, n) /\ n.type = "skipped"
  BY <1>2, <1>4, LeafSound DEF Skipped, Token
<1>7. /\ AllSound(task.grammar, c.symbols) /\ IsStack(task.grammar, c.stack)
      /\ Spells(task.grammar, c.stack, c.symbols) /\ IsSequence(c.symbols)
  BY <1>1, <1>4 DEF Fits, AllSound
<1>8. \A y : (Counted(y) <=> Counted(n)) /\ y.id = n.id =>
        Spells(task.grammar, c.stack, Append(c.symbols, y))
  BY <1>6, <1>7, SkippedSpells DEF Counted
<1> QED
  BY <1>3, <1>4, <1>5, <1>6, <1>7, <1>8, InsertFits

LEMMA StepShiftFits == ASSUME LayoutApart, IInv, AllFits, StepShift PROVE AllFits'
<1>1. /\ task \in Task /\ IsContext(rec_ctx) /\ Fits(task, rec_ctx)
  BY SteppedContext DEF AllFits, SteppedFits, StepShift
<1>2. PICK c, n : c = AfterShift(rec_ctx) /\ n = Token(Lookahead(rec_ctx))
  OBVIOUS
<1>3. Acts(rec_ctx, "shift") /\ StepInsert(c, n)
  BY <1>2 DEF StepShift
<1>4. /\ Shifts(task.grammar, Lookahead(rec_ctx)) /\ Last(c.stack).branch = NULL
      /\ IsStack(task.grammar, c.stack) /\ c.symbols = rec_ctx.symbols
      /\ \A y : Counted(y) /\ y.id = Lookahead(rec_ctx) =>
           Spells(task.grammar, c.stack, Append(rec_ctx.symbols, y))
  BY <1>1, <1>2, <1>3, ShiftFits
<1>5. IsContext(c)
  BY <1>1, <1>2, ContextStepped
<1>6. Sound(task.grammar, n) /\ n.type = "token" /\ n.id = Lookahead(rec_ctx)
  BY <1>2, <1>4, LeafSound DEF Token
<1>7. AllSound(task.grammar, c.symbols)
  BY <1>1, <1>4 DEF Fits
<1>8. \A y : (Counted(y) <=> Counted(n)) /\ y.id = n.id =>
        Spells(task.grammar, c.stack, Append(c.symbols, y))
  BY <1>4, <1>6 DEF Counted
<1> QED
  BY <1>3, <1>4, <1>5, <1>6, <1>7, <1>8, InsertFits

\* A context that has failed is given up; one that has accepted is kept.
LEMMA GivenUpFits ==
  ASSUME AllFits, UNCHANGED <<task, store, reduction_stage, groups, completed>>, KeepQueue,
         phase' = "pop"
  PROVE  AllFits'
BY QueueKept, StagesFitKept DEF AllFits, SteppedFits

LEMMA StepErrorFits == ASSUME AllFits, StepError PROVE AllFits'
BY GivenUpFits DEF StepError

LEMMA ReduceErrorFits == ASSUME AllFits, ReduceError PROVE AllFits'
BY GivenUpFits DEF ReduceError

\* One more completed context.
LEMMA CompletedFits ==
  ASSUME IInv, StagesFit, NEW c, AllSound(task.grammar, c.symbols), c.symbols # <<>>,
         completed' = Append(completed, c), groups' \subseteq groups,
         UNCHANGED <<task, reduction_stage>>
  PROVE  StagesFit'
<1>1. IsSequence(completed)
  BY DEF IInv, StagesOnward
<1>2. \A i \in DOMAIN completed' : \/ i \in DOMAIN completed /\ completed'[i] = completed[i]
                                   \/ completed'[i] = c
  BY <1>1, Appended
<1>3. \A i \in DOMAIN completed' : /\ AllSound(task.grammar, completed'[i].symbols)
                                   /\ completed'[i].symbols # <<>>
  BY <1>2 DEF StagesFit
<1> QED
  BY <1>3 DEF StagesFit

LEMMA StepAcceptFits == ASSUME IInv, AllFits, StepAccept PROVE AllFits'
<1>1. /\ task \in Task /\ IsContext(rec_ctx) /\ Fits(task, rec_ctx)
  BY SteppedContext DEF AllFits, SteppedFits, StepAccept, Stepping
<1>2. PICK c : c = [rec_ctx EXCEPT !.finished = TRUE]
  OBVIOUS
<1>3. /\ Acts(rec_ctx, "accept") /\ completed' = Append(completed, c) /\ phase' = "pop"
      /\ KeepQueue /\ UNCHANGED <<task, reduction_stage, groups, store>>
  BY <1>2 DEF StepAccept
<1>4. c.symbols = rec_ctx.symbols
  BY <1>1, <1>2, FieldsKept
<1>5. c.symbols # <<>> /\ AllSound(task.grammar, c.symbols)
  BY <1>1, <1>3, <1>4, AcceptFits DEF Fits
<1>6. StagesFit'
  BY <1>3, <1>5, CompletedFits DEF AllFits
<1>7. QueueFits' /\ SteppedFits'
  BY <1>3, QueueKept DEF AllFits, SteppedFits
<1> QED
  BY <1>3, <1>6, <1>7 DEF AllFits

\* The context waits to be split.
LEMMA ForkedFits ==
  ASSUME IInv, AllFits, phase \in {"step", "reduce"}, Forks(rec_ctx), branches' = Actions(rec_ctx),
         phase' = "fork", KeepQueue,
         UNCHANGED <<task, rec_ctx, reduction_stage, groups, completed, store>>
  PROVE  AllFits'
<1>1. /\ task \in Task /\ IsContext(rec_ctx) /\ Fits(task, rec_ctx)
  BY SteppedContext DEF AllFits, SteppedFits
<1>2. /\ IsSequence(branches') /\ branches' # <<>>
      /\ \A i \in DOMAIN branches' :
           IsBranch(task, branches'[i], Last(rec_ctx.stack).state, rec_ctx.ptr)
  BY <1>1, ForkFits
<1>3. SteppedFits'
  BY <1>1, <1>2 DEF SteppedFits
<1>4. QueueFits' /\ StagesFit'
  BY QueueKept, StagesFitKept DEF AllFits
<1> QED
  BY <1>3, <1>4 DEF AllFits

LEMMA StepForkFits == ASSUME IInv, AllFits, StepFork PROVE AllFits'
BY ForkedFits DEF StepFork, Stepping

LEMMA ReduceForkFits == ASSUME IInv, AllFits, ReduceFork PROVE AllFits'
BY ForkedFits DEF ReduceFork, Reducing

LEMMA SplitFits == ASSUME IInv, AllFits, Split PROVE AllFits'
<1>1. /\ task \in Task /\ IsContext(rec_ctx) /\ Fits(task, rec_ctx) /\ phase = "fork"
  BY SteppedContext DEF AllFits, SteppedFits, Split
<1>2. PICK c, s, e : /\ c = Branch(rec_ctx) /\ s = rec_ctx.stack
                     /\ e = [state |-> Last(s).state, branch |-> Head(branches)]
  OBVIOUS
<1>3. /\ Push(c) /\ branches' = Tail(branches)
      /\ phase' = IF Tail(branches) = <<>> THEN "pop" ELSE "fork"
      /\ UNCHANGED <<task, reduction_stage, groups, completed, store>>
  BY <1>2 DEF Split
<1>4. /\ IsSequence(branches) /\ branches # <<>>
      /\ \A i \in DOMAIN branches :
           IsBranch(task, branches[i], Last(s).state, rec_ctx.ptr)
  BY <1>1, <1>2 DEF AllFits, SteppedFits
<1>5. /\ 1 \in DOMAIN branches /\ Head(branches) = branches[1]
      /\ IsSequence(Tail(branches))
      /\ \A i \in DOMAIN Tail(branches) : i + 1 \in DOMAIN branches /\ Tail(branches)[i] = branches[i + 1]
  <2>1. branches \in Seq(ToSet(branches)) /\ Len(branches) # 0
    BY <1>4 DEF IsSequence
  <2>2. Tail(branches) \in Seq(ToSet(branches))
    BY <2>1
  <2>3. IsSequence(Tail(branches))
    BY <2>2, SequenceOf
  <2>4. /\ 1 \in DOMAIN branches /\ Head(branches) = branches[1]
        /\ \A i \in DOMAIN Tail(branches) :
             i + 1 \in DOMAIN branches /\ Tail(branches)[i] = branches[i + 1]
    BY <2>1
  <2> QED
    BY <2>3, <2>4
<1>6. /\ IsStack(task.grammar, s) /\ Spells(task.grammar, s, rec_ctx.symbols)
      /\ AllSound(task.grammar, rec_ctx.symbols) /\ IsSequence(s) /\ s # <<>>
  BY <1>1, <1>2 DEF Fits, IsStack
<1>7. c.stack = Append(Front(s), e) /\ c.symbols = rec_ctx.symbols
  BY <1>1, <1>2, FieldsStepped
<1>8. e.state = Last(s).state /\ e.branch = Head(branches)
  BY <1>2
<1>9. /\ IsSequence(c.stack) /\ Len(c.stack) = Len(s)
      /\ \A j \in 1 .. Len(s) : c.stack[j].state = s[j].state
      /\ Last(c.stack) = e
  BY <1>6, <1>7, <1>8, TopChanged
<1>10. IsStack(task.grammar, c.stack) /\ Spells(task.grammar, c.stack, c.symbols)
  BY <1>6, <1>7, <1>9, SameStates
<1>11. c.ptr = rec_ctx.ptr
  BY <1>1, <1>2, ContextStepped
<1>12. OnBranch(task, c)
  BY <1>4, <1>5, <1>8, <1>9, <1>11 DEF OnBranch
<1>13. Fits(task, c)
  BY <1>6, <1>7, <1>10, <1>12 DEF Fits
<1>14. QueueFits'
  BY <1>3, <1>13, QueuePushed DEF AllFits
<1>15. SteppedFits'
  <2>1. CASE Tail(branches) = <<>>
    BY <1>3, <2>1 DEF SteppedFits
  <2>2. CASE Tail(branches) # <<>>
    <3>1. rec_ctx' = rec_ctx
      BY <1>3 DEF Push, Q!AbsPushWithPriority
    <3>2. \A i \in DOMAIN branches' :
            IsBranch(task, branches'[i], Last(rec_ctx.stack).state, rec_ctx.ptr)
      BY <1>2, <1>3, <1>4, <1>5
    <3>3. phase' = "fork" /\ task' = task /\ IsSequence(branches') /\ branches' # <<>>
      BY <1>3, <1>5, <2>2
    <3> QED
      BY <1>1, <3>1, <3>2, <3>3 DEF SteppedFits
  <2> QED
    BY <2>1, <2>2
<1>16. StagesFit'
  BY <1>3, StagesFitKept DEF AllFits
<1> QED
  BY <1>3, <1>14, <1>15, <1>16 DEF AllFits

\* reduce_symbols finds the symbols of its rule.
LEMMA ReducedFits ==
  ASSUME LayoutApart, IInv, AllFits, phase \in {"step", "reduce"}, Reduce
  PROVE  AllFits'
<1>1. /\ task \in Task /\ IsContext(rec_ctx) /\ Fits(task, rec_ctx)
  BY SteppedContext DEF AllFits, SteppedFits
<1>2. /\ Acts(rec_ctx, "reduce") /\ phase' = "reduce" /\ KeepQueue
      /\ UNCHANGED <<task, branches, reduction_stage, groups, completed>>
  BY DEF Reduce
<1>3. PICK k \in FirstOf(rec_ctx.symbols, Len(RuleToReduce(rec_ctx).rhs)) :
      \E node \in {NonTerm(RuleToReduce(rec_ctx).lhs, Actions(rec_ctx)[1].rule,
                           SubSeq(rec_ctx.symbols, k, Len(rec_ctx.symbols)))} :
        /\ rec_ctx' = [rec_ctx EXCEPT !.stack = AfterReduce(rec_ctx),
                                      !.symbols = Append(SubSeq(@, 1, k - 1), Unique(store, node))]
        /\ store' = Remember(store, node)
  BY DEF Reduce
<1>4. PICK n : n = NonTerm(RuleToReduce(rec_ctx).lhs, Actions(rec_ctx)[1].rule,
                           SubSeq(rec_ctx.symbols, k, Len(rec_ctx.symbols)))
  OBVIOUS
<1>5. PICK s, b, u : /\ s = AfterReduce(rec_ctx) /\ b = SubSeq(rec_ctx.symbols, 1, k - 1)
                     /\ u = Unique(store, n)
  OBVIOUS
<1>6. store' = Remember(store, n)
  BY <1>3, <1>4
<1>7. rec_ctx'.stack = s /\ rec_ctx'.symbols = Append(b, u)
  <2>1. PICK y : y = Append(b, u)
    OBVIOUS
  <2>2. rec_ctx' = [rec_ctx EXCEPT !.stack = s, !.symbols = y]
    BY <1>1, <1>3, <1>4, <1>5, <2>1 DEF IsContext, ContextFields
  <2>3. rec_ctx = [f \in ContextFields |-> rec_ctx[f]]
    BY <1>1 DEF IsContext
  <2>4. rec_ctx'.stack = s /\ rec_ctx'.symbols = y
    BY <2>2, <2>3 DEF ContextFields
  <2> QED
    BY <2>1, <2>4
<1>8. /\ Sound(task.grammar, n) /\ AllSound(task.grammar, b)
      /\ IsStack(task.grammar, s) /\ Last(s).branch = NULL
      /\ \A y : Counted(y) /\ y.id = RuleToReduce(rec_ctx).lhs =>
           Spells(task.grammar, s, Append(b, y))
  BY <1>1, <1>2, <1>4, <1>5, ReduceFits
<1>9. n.type = "nonterm" /\ n.id = RuleToReduce(rec_ctx).lhs
  BY <1>4 DEF NonTerm
<1>10. /\ Sound(task.grammar, u) /\ u.type = n.type /\ u.id = n.id
       /\ IsStore(task.grammar, Remember(store, n))
  BY <1>5, <1>8, <1>9, UniqueFits DEF AllFits
<1>11. Spells(task.grammar, s, Append(b, u))
  BY <1>8, <1>9, <1>10 DEF Counted
<1>12. /\ AllSound(task.grammar, Append(b, u)) /\ Append(b, u) # <<>>
       /\ Last(Append(b, u)) = u
  BY <1>8, <1>10, SoundAppended
<1>13. Fits(task, rec_ctx') /\ JustReduced(rec_ctx')
  BY <1>7, <1>8, <1>9, <1>10, <1>11, <1>12, FitsWhen DEF JustReduced
<1>14. SteppedFits'
  BY <1>2, <1>13 DEF SteppedFits
<1>15. QueueFits' /\ StagesFit'
  BY <1>2, QueueKept, StagesFitKept DEF AllFits
<1> QED
  BY <1>2, <1>6, <1>10, <1>14, <1>15 DEF AllFits

LEMMA StepReduceFits == ASSUME LayoutApart, IInv, AllFits, StepReduce PROVE AllFits'
BY ReducedFits DEF StepReduce, Stepping

LEMMA ReduceAgainFits == ASSUME LayoutApart, IInv, AllFits, ReduceAgain PROVE AllFits'
BY ReducedFits DEF ReduceAgain, Reducing

\* What is staged has reduced and keeps what follows apart.
LEMMA StagedFits ==
  ASSUME IInv, AllFits, NEW c, NEW follow, StageFor(c, follow),
         FitsMerge(task, [nonterm |-> nonterm, ctx |-> c, follow |-> follow])
  PROVE  AllFits'
<1>1. PICK e : e = [nonterm |-> nonterm, ctx |-> c, follow |-> follow]
  OBVIOUS
<1>2. /\ reduction_stage' = Append(reduction_stage, e) /\ phase' = "pop" /\ KeepQueue
      /\ UNCHANGED <<task, groups, completed, store>>
  BY <1>1 DEF StageFor
<1>3. IsSequence(reduction_stage)
  BY DEF IInv, StagesOnward
<1>4. \A i \in DOMAIN reduction_stage' :
        \/ i \in DOMAIN reduction_stage /\ reduction_stage'[i] = reduction_stage[i]
        \/ reduction_stage'[i] = e
  BY <1>2, <1>3, Appended
<1>5. \A i \in DOMAIN reduction_stage' : FitsMerge(task, reduction_stage'[i])
  BY <1>1, <1>4 DEF AllFits, StagesFit
<1>6. StagesFit'
  BY <1>2, <1>5 DEF AllFits, StagesFit
<1>7. QueueFits' /\ SteppedFits'
  BY <1>2, QueueKept DEF AllFits, SteppedFits
<1> QED
  BY <1>2, <1>6, <1>7 DEF AllFits

\* A context that has reduced, with the token it goes on to.
LEMMA FollowFits ==
  ASSUME NEW t, NEW c, IsContext(c), NEW d, JustReduced(d), c.symbols = d.symbols,
         AllSound(t.grammar, d.symbols), IsStack(t.grammar, c.stack), Last(c.stack).branch = NULL,
         NEW n, IsLeaf(t.grammar, n), Spells(t.grammar, c.stack, Append(c.symbols, n)), NEW id
  PROVE  FitsMerge(t, [nonterm |-> id, ctx |-> c, follow |-> n])
<1>1. PICK e : e = [nonterm |-> id, ctx |-> c, follow |-> n]
  OBVIOUS
<1>2. e.ctx = c /\ e.follow = n
  BY <1>1
<1>3. JustReduced(c) /\ c.symbols # <<>> /\ n # NULL /\ OnBranch(t, c)
  BY DEF JustReduced, IsLeaf, OnBranch
<1>4. FitsMerge(t, e)
  BY <1>2, <1>3 DEF FitsMerge
<1> QED
  BY <1>1, <1>4

LEMMA ReduceSkipFits == ASSUME LayoutApart, IInv, AllFits, ReduceSkip PROVE AllFits'
<1>1. /\ task \in Task /\ IsContext(rec_ctx) /\ Fits(task, rec_ctx) /\ JustReduced(rec_ctx)
  BY SteppedContext DEF AllFits, SteppedFits, ReduceSkip
<1>2. PICK c, n : c = AfterSkip(rec_ctx) /\ n = Skipped(Lookahead(rec_ctx))
  OBVIOUS
<1>3. Acts(rec_ctx, "skip") /\ StageFor(c, n)
  BY <1>2 DEF ReduceSkip
<1>4. /\ Skips(task.grammar, Lookahead(rec_ctx)) /\ Last(c.stack).branch = NULL
      /\ c.stack = rec_ctx.stack /\ c.symbols = rec_ctx.symbols
  BY <1>1, <1>2, <1>3, SkipFits
<1>5. IsContext(c)
  BY <1>1, <1>2, ContextStepped
<1>6. Sound(task.grammar, n) /\ n.type = "skipped"
  BY <1>2, <1>4, LeafSound DEF Skipped, Token
<1>7. /\ AllSound(task.grammar, rec_ctx.symbols) /\ IsStack(task.grammar, c.stack)
      /\ Spells(task.grammar, c.stack, c.symbols) /\ IsSequence(c.symbols) /\ OnBranch(task, rec_ctx)
  BY <1>1, <1>4 DEF Fits, AllSound
<1>8. Spells(task.grammar, c.stack, Append(c.symbols, n))
  BY <1>6, <1>7, SkippedSpells DEF Counted
<1>9. n # NULL
  <2>1. Lookahead(rec_ctx) \in ToSet(task.input) \cup {END}
    BY <1>1, <1>4, <1>7, ActionsAre
  <2> QED
    BY <1>1, <1>2, <2>1, NullAssumption
<1>10. IsLeaf(task.grammar, n)
  BY <1>6, <1>9 DEF IsLeaf
<1>11. FitsMerge(task, [nonterm |-> nonterm, ctx |-> c, follow |-> n])
  BY <1>1, <1>4, <1>5, <1>7, <1>8, <1>10, FollowFits
<1> QED
  BY <1>3, <1>11, StagedFits

LEMMA ReduceShiftFits == ASSUME LayoutApart, IInv, AllFits, ReduceShift PROVE AllFits'
<1>1. /\ task \in Task /\ IsContext(rec_ctx) /\ Fits(task, rec_ctx) /\ JustReduced(rec_ctx)
  BY SteppedContext DEF AllFits, SteppedFits, ReduceShift
<1>2. PICK c, n : c = AfterShift(rec_ctx) /\ n = Token(Lookahead(rec_ctx))
  OBVIOUS
<1>3. Acts(rec_ctx, "shift") /\ StageFor(c, n)
  BY <1>2 DEF ReduceShift
<1>4. /\ Shifts(task.grammar, Lookahead(rec_ctx)) /\ Last(c.stack).branch = NULL
      /\ IsStack(task.grammar, c.stack) /\ c.symbols = rec_ctx.symbols
      /\ \A y : Counted(y) /\ y.id = Lookahead(rec_ctx) =>
           Spells(task.grammar, c.stack, Append(rec_ctx.symbols, y))
  BY <1>1, <1>2, <1>3, ShiftFits
<1>5. IsContext(c)
  BY <1>1, <1>2, ContextStepped
<1>6. Sound(task.grammar, n) /\ n.type = "token" /\ n.id = Lookahead(rec_ctx)
  BY <1>2, <1>4, LeafSound DEF Token
<1>7. /\ AllSound(task.grammar, rec_ctx.symbols) /\ OnBranch(task, rec_ctx)
      /\ IsStack(task.grammar, rec_ctx.stack)
  BY <1>1 DEF Fits
<1>8. Spells(task.grammar, c.stack, Append(c.symbols, n))
  BY <1>4, <1>6 DEF Counted
<1>9. n # NULL
  <2>1. Lookahead(rec_ctx) \in ToSet(task.input) \cup {END}
    BY <1>1, <1>7, ActionsAre
  <2> QED
    BY <1>1, <1>2, <2>1, NullAssumption
<1>10. IsLeaf(task.grammar, n)
  BY <1>6, <1>9 DEF IsLeaf
<1>11. FitsMerge(task, [nonterm |-> nonterm, ctx |-> c, follow |-> n])
  BY <1>1, <1>4, <1>5, <1>7, <1>8, <1>10, FollowFits
<1> QED
  BY <1>3, <1>11, StagedFits

LEMMA ReduceAcceptFits == ASSUME IInv, AllFits, ReduceAccept PROVE AllFits'
<1>1. /\ task \in Task /\ IsContext(rec_ctx) /\ Fits(task, rec_ctx) /\ JustReduced(rec_ctx)
  BY SteppedContext DEF AllFits, SteppedFits, ReduceAccept
<1>2. PICK c : c = [rec_ctx EXCEPT !.finished = TRUE]
  OBVIOUS
<1>3. StageFor(c, NULL)
  BY <1>2 DEF ReduceAccept
<1>4. IsContext(c) /\ c.finished /\ c.symbols = rec_ctx.symbols
  <2>1. PICK v : v = TRUE
    OBVIOUS
  <2>2. c = [rec_ctx EXCEPT !.finished = v]
    BY <1>2, <2>1
  <2>3. IsContext(c) /\ c.finished = v /\ c.symbols = rec_ctx.symbols
    BY <1>1, <2>2, ContextChanged, FieldsKept
  <2> QED
    BY <2>1, <2>3
<1>5. PICK e : e = [nonterm |-> nonterm, ctx |-> c, follow |-> NULL]
  OBVIOUS
<1>6. e.ctx = c /\ e.follow = NULL
  BY <1>5
<1>7. AllSound(task.grammar, c.symbols) /\ c.symbols # <<>>
  BY <1>1, <1>4 DEF Fits, JustReduced
<1>8. FitsMerge(task, e)
  BY <1>4, <1>6, <1>7 DEF FitsMerge
<1> QED
  BY <1>3, <1>5, <1>8, StagedFits

------------------------------------------------------------------------------
(* Merging.                                                                 *)
LEMMA CandidatesFit ==
  ASSUME IInv, StagesFit
  PROVE  IsSequence(Candidates) /\ \A i \in DOMAIN Candidates : FitsMerge(task, Candidates[i])
<1> DEFINE Past(i) == [nonterm |-> Zero[task.grammar], ctx |-> completed[i], follow |-> NULL]
           past == [i \in DOMAIN completed |-> Past(i)]
<1>1. /\ IsSequence(completed) /\ Len(completed) \in Nat /\ DOMAIN completed = 1 .. Len(completed)
      /\ IsSequence(reduction_stage)
  BY DEF IInv, StagesOnward, IsSequence
<1>2. \A i \in DOMAIN completed : FitsMerge(task, Past(i))
  <2> SUFFICES ASSUME NEW i \in DOMAIN completed PROVE FitsMerge(task, Past(i))
    OBVIOUS
  <2>1. PICK e : e = Past(i)
    OBVIOUS
  <2>2. e.ctx = completed[i] /\ e.follow = NULL
    BY <2>1
  <2>3. /\ IsContext(e.ctx) /\ e.ctx.finished
        /\ AllSound(task.grammar, e.ctx.symbols) /\ e.ctx.symbols # <<>>
    BY <2>2 DEF IInv, StagesOnward, StagesFit
  <2>4. FitsMerge(task, e)
    BY <2>2, <2>3 DEF FitsMerge
  <2> QED
    BY <2>1, <2>4
<1> HIDE DEF Past
<1>3. PICK q : q = past
  OBVIOUS
<1>4. q = [i \in 1 .. Len(completed) |-> q[i]] /\ \A i \in DOMAIN completed : q[i] = Past(i)
  BY <1>1, <1>3
<1>5. IsSequence(q) /\ DOMAIN q = DOMAIN completed
  BY <1>1, <1>4, FunctionIsSequence
<1>6. PICK r, S : r = reduction_stage /\ S = ToSet(r) \cup ToSet(q)
  OBVIOUS
<1>7. r \in Seq(S) /\ q \in Seq(S)
  <2>1. r \in Seq(ToSet(r)) /\ ToSet(r) \subseteq S /\ q \in Seq(ToSet(q)) /\ ToSet(q) \subseteq S
    BY <1>1, <1>5, <1>6 DEF IsSequence
  <2> QED
    BY ONLY <2>1
<1>8. PICK z : z = r \o q
  OBVIOUS
<1>9. z \in Seq(S)
  BY <1>7, <1>8
<1>10. \A i \in DOMAIN z : z[i] \in S
  BY <1>9
<1>11. \A x \in S : FitsMerge(task, x)
  <2>1. \A x \in ToSet(r) : FitsMerge(task, x)
    BY <1>6 DEF StagesFit, ToSet
  <2>2. \A x \in ToSet(q) : FitsMerge(task, x)
    BY <1>2, <1>4, <1>5 DEF ToSet
  <2> QED
    BY <1>6, <2>1, <2>2
<1>12. IsSequence(z)
  BY <1>9, SequenceOf
<1>13. Candidates = z
  BY <1>3, <1>6, <1>8 DEF Candidates, Past
<1> QED
  BY <1>10, <1>11, <1>12, <1>13

\* The groups of a merge are made of the candidates.
LEMMA GroupsFit ==
  ASSUME IInv, StagesFit, NEW group \in MergeGroups
  PROVE  /\ IsSequence(group) /\ group # <<>>
         /\ \A i \in DOMAIN group : FitsMerge(task, group[i])
<1>1. PICK i \in DOMAIN Candidates : group = GroupOf(i)
  BY DEF MergeGroups
<1>2. PICK I : I = {j \in DOMAIN Candidates :
                      Surroundings(Candidates[j]) = Surroundings(Candidates[i])}
  OBVIOUS
<1>3. I \subseteq DOMAIN Candidates /\ I # {}
  BY <1>2
<1>4. group = Picked(Candidates, I)
  BY <1>1, <1>2 DEF GroupOf
<1>5. IsSequence(Candidates) /\ \A j \in DOMAIN Candidates : FitsMerge(task, Candidates[j])
  BY CandidatesFit
<1>6. /\ IsSequence(group) /\ group # <<>>
      /\ \A k \in DOMAIN group : \E j \in I : group[k] = Candidates[j]
  BY <1>3, <1>4, <1>5, PickedMembers
<1> QED
  BY <1>3, <1>5, <1>6

LEMMA EndSweepFits == ASSUME IInv, AllFits, EndSweep PROVE AllFits'
<1>1. /\ reduction_stage' = <<>> /\ UNCHANGED <<task, store>> /\ phase' \in {"swap", "merge"}
      /\ popQ = <<>> /\ popQ' = popQ /\ pushQ' = pushQ
      /\ groups = {}
      /\ groups' = groups \/ groups' = MergeGroups
      /\ completed' = completed \/ completed' = <<>>
  BY DEF EndSweep, Q!AbsPopFront, IInv, Gated
<1>2. DOMAIN <<>> = {}
  OBVIOUS
<1>3. \A group \in groups' : /\ IsSequence(group) /\ group # <<>>
                             /\ \A i \in DOMAIN group : FitsMerge(task, group[i])
  BY <1>1, GroupsFit DEF AllFits
<1>4. StagesFit'
  BY <1>1, <1>2, <1>3 DEF AllFits, StagesFit
<1>5. QueueFits' /\ SteppedFits'
  BY <1>1 DEF AllFits, QueueFits, SteppedFits, Queued, Q!Owned
<1> QED
  BY <1>1, <1>4, <1>5 DEF AllFits

LEMMA EndMergeFits == ASSUME AllFits, EndMerge PROVE AllFits'
<1>1. /\ UNCHANGED <<task, popQ, pushQ, reduction_stage, groups, completed, store>>
      /\ phase' = "swap"
  BY DEF EndMerge, queueVars, kernelVars
<1>2. QueueFits' /\ SteppedFits' /\ StagesFit'
  BY <1>1, StagesFitKept DEF AllFits, QueueFits, SteppedFits, Queued, Q!Owned
<1> QED
  BY <1>1, <1>2 DEF AllFits

LEMMA SwapFits == ASSUME AllFits, Swap PROVE AllFits'
<1>1. /\ UNCHANGED <<task, reduction_stage, groups, completed, store>>
      /\ popQ' = pushQ /\ pushQ' = popQ /\ phase' \in {"done", "pop"}
  BY DEF Swap, Q!AbsSwapBuffers
<1>2. QueueFits' /\ SteppedFits' /\ StagesFit'
  BY <1>1, StagesFitKept DEF AllFits, QueueFits, SteppedFits, Queued, Q!Owned
<1> QED
  BY <1>1, <1>2 DEF AllFits

\* The last symbols of a group, and what is made of them.
LEMMA AllInterpretations ==
  ASSUME NEW g, NEW group, IsSequence(group), group # <<>>,
         \A i \in DOMAIN group : AllSound(g, group[i].ctx.symbols) /\ group[i].ctx.symbols # <<>>
  PROVE  /\ Sound(g, LastMerged(group))
         /\ Last(group[1].ctx.symbols).type = "nonterm" =>
              /\ LastMerged(group).id = Last(group[1].ctx.symbols).id
              /\ Counted(LastMerged(group))
<1>1. PICK seqs : seqs = [i \in DOMAIN group |-> Interpretations(Last(group[i].ctx.symbols))]
  OBVIOUS
<1>2. Len(group) \in Nat /\ Len(group) # 0 /\ DOMAIN group = 1 .. Len(group)
  BY DEF IsSequence
<1>3. seqs = [i \in 1 .. Len(group) |-> seqs[i]]
  BY <1>1, <1>2
<1>4. IsSequence(seqs) /\ Len(seqs) = Len(group) /\ DOMAIN seqs = DOMAIN group
  BY <1>2, <1>3, FunctionIsSequence
<1>5. seqs # <<>> /\ 1 \in DOMAIN group
  BY <1>2, <1>4
<1>6. ASSUME NEW i \in DOMAIN group
      PROVE  /\ IsSequence(seqs[i]) /\ seqs[i] # <<>>
             /\ \A j \in DOMAIN seqs[i] : Sound(g, seqs[i][j])
             /\ Last(group[i].ctx.symbols).type = "nonterm" =>
                  seqs[i][1] = Last(group[i].ctx.symbols)
  <2>1. PICK n : n = Last(group[i].ctx.symbols)
    OBVIOUS
  <2>2. Sound(g, n)
    <3>1. PICK s, k : s = group[i].ctx.symbols /\ k = Len(s)
      OBVIOUS
    <3>2. AllSound(g, s) /\ s # <<>>
      BY <3>1
    <3>3. k \in DOMAIN s /\ n = s[k]
      BY <2>1, <3>1, <3>2 DEF AllSound, IsSequence, Last
    <3> QED
      BY <3>2, <3>3 DEF AllSound
  <2>3. IsNode(g, n) /\ \A j \in DOMAIN n.parts : Sound(g, n.parts[j])
    BY <2>2, SoundParts
  <2>4. seqs[i] = IF n.type = "alts" THEN n.parts ELSE <<n>>
    BY <1>1, <2>1 DEF Interpretations
  <2>5. IsSequence(<<n>>) /\ <<n>> # <<>> /\ DOMAIN <<n>> = {1} /\ <<n>>[1] = n
    BY DEF IsSequence, ToSet
  <2>6. CASE n.type = "alts"
    BY <2>1, <2>3, <2>4, <2>6 DEF IsNode
  <2>7. CASE n.type # "alts"
    BY <2>1, <2>2, <2>4, <2>5, <2>7
  <2> QED
    BY <2>6, <2>7
<1>7. PICK flat : flat = FlattenSeq(seqs)
  OBVIOUS
<1>8. /\ IsSequence(flat) /\ flat # <<>> /\ flat[1] = seqs[1][1]
      /\ \A k \in DOMAIN flat : \E i \in DOMAIN seqs : \E j \in DOMAIN seqs[i] : flat[k] = seqs[i][j]
  BY <1>4, <1>5, <1>6, <1>7, Flattened
<1>9. \A k \in DOMAIN flat : Sound(g, flat[k])
  BY <1>4, <1>6, <1>8
<1>10. PICK all : all = Distinct(flat)
  OBVIOUS
<1>11. /\ IsSequence(all) /\ all # <<>> /\ all[1] = flat[1]
       /\ \A k \in DOMAIN all : \E i \in DOMAIN flat : all[k] = flat[i]
  BY <1>8, <1>10, DistinctMembers
<1>12. AllSound(g, all)
  BY <1>9, <1>11 DEF AllSound
<1>13. PICK last : last = LastMerged(group)
  OBVIOUS
<1>14. last = IF Len(all) = 1 THEN all[1] ELSE Alts(all)
  BY <1>1, <1>7, <1>10, <1>13 DEF LastMerged
<1>15. Sound(g, Alts(all)) /\ Alts(all).type = "alts" /\ Alts(all).id = all[1].id
  BY <1>11, <1>12, MadeSound DEF Alts
<1>16. 1 \in DOMAIN all
  BY <1>11 DEF IsSequence
<1>17. Sound(g, last)
  BY <1>12, <1>14, <1>15, <1>16 DEF AllSound
<1>18. Last(group[1].ctx.symbols).type = "nonterm" =>
         last.id = Last(group[1].ctx.symbols).id /\ Counted(last)
  BY <1>5, <1>6, <1>8, <1>11, <1>14, <1>15 DEF Counted
<1> QED
  BY <1>13, <1>17, <1>18

\* The stack of a merged context is that of the first of its group.
LEMMA MergedFields ==
  ASSUME NEW group, IsContext(group[1].ctx)
  PROVE  /\ IsContext(Merged(group)) /\ Merged(group).stack = group[1].ctx.stack
         /\ \/ Merged(group).symbols = group[1].ctx.symbols
            \/ Merged(group).symbols = Append(Front(group[1].ctx.symbols), LastMerged(group))
<1>1. PICK c, l : c = group[1].ctx /\ l = Append(Front(c.symbols), LastMerged(group))
  OBVIOUS
<1>2. Merged(group) = c \/ Merged(group) = [c EXCEPT !.symbols = l]
  BY <1>1 DEF Merged, LastMerged, IsContext, ContextFields
<1>3. IsContext(c)
  BY <1>1
<1>4. PICK d : d = [c EXCEPT !.symbols = l]
  OBVIOUS
<1>5. IsContext(d) /\ d.stack = c.stack /\ d.symbols = l
  BY <1>3, <1>4, ContextChanged, FieldsKept
<1> QED
  BY <1>1, <1>2, <1>3, <1>4, <1>5

\* Another last symbol of the same name leads where the one before led.
LEMMA LastReplaced ==
  ASSUME NEW g, NEW stack, NEW symbols, AllSound(g, symbols), symbols # <<>>, NEW l, Sound(g, l)
  PROVE  /\ AllSound(g, Append(Front(symbols), l)) /\ Append(Front(symbols), l) # <<>>
         /\ Counted(l) /\ Counted(Last(symbols)) /\ l.id = Last(symbols).id =>
              \A n : Spells(g, stack, Append(symbols, n)) =>
                     Spells(g, stack, Append(Append(Front(symbols), l), n))
<1>1. PICK k, j, f : k = Len(symbols) /\ j = k - 1 /\ f = Front(symbols)
  OBVIOUS
<1>2. IsSequence(symbols) /\ \A i \in DOMAIN symbols : Sound(g, symbols[i])
  BY DEF AllSound
<1>3. k \in Nat /\ k # 0 /\ DOMAIN symbols = 1 .. k /\ Last(symbols) = symbols[k]
  BY <1>1, <1>2 DEF IsSequence, Last
<1>4. j \in Nat /\ 1 \in Nat /\ 1 >= 1 /\ j <= Len(symbols) /\ 1 <= j + 1 /\ j - 1 + 1 = j /\ j + 1 = k
  BY <1>1, <1>3
<1>5. f = SubSeq(symbols, 1, j)
  BY <1>1 DEF Front
<1>6. /\ IsSequence(f) /\ Len(f) = j /\ AllSound(g, f)
      /\ \A i \in 1 .. j : f[i] = symbols[i]
  <2>1. /\ IsSequence(SubSeq(symbols, 1, j)) /\ Len(SubSeq(symbols, 1, j)) = j - 1 + 1
        /\ \A i \in 1 .. j - 1 + 1 : SubSeq(symbols, 1, j)[i] = symbols[i + 1 - 1]
    BY <1>2, <1>4, SubSeqParts
  <2>2. AllSound(g, SubSeq(symbols, 1, j))
    BY <1>4, SubSound
  <2>3. \A i \in 1 .. j : i + 1 - 1 = i
    BY <1>4
  <2> QED
    BY <1>4, <1>5, <2>1, <2>2, <2>3
<1>7. PICK y : y = Append(f, l)
  OBVIOUS
<1>8. AllSound(g, y) /\ y # <<>>
  BY <1>6, <1>7, SoundAppended
<1>9. /\ IsSequence(y) /\ Len(y) = k /\ DOMAIN y = 1 .. k
      /\ \A i \in 1 .. j : y[i] = symbols[i]
      /\ y[k] = l
  BY <1>4, <1>6, <1>7, AppendedParts
<1>10. ASSUME Counted(l), Counted(Last(symbols)), l.id = Last(symbols).id,
              NEW n, Spells(g, stack, Append(symbols, n))
       PROVE  Spells(g, stack, Append(y, n))
  <2>1. PICK a, b : a = Append(symbols, n) /\ b = Append(y, n)
    OBVIOUS
  <2>2. /\ DOMAIN a = 1 .. k + 1 /\ \A i \in 1 .. k : a[i] = symbols[i]
        /\ a[k + 1] = n
    BY <1>1, <1>2, <2>1, AppendedParts
  <2>3. /\ DOMAIN b = 1 .. k + 1 /\ \A i \in 1 .. k : b[i] = y[i]
        /\ b[k + 1] = n
    BY <1>9, <2>1, AppendedParts
  <2>4. \A i \in 1 .. k + 1 : i \in 1 .. j \/ i = k \/ i = k + 1
    BY <1>3, <1>4
  <2>5. \A i \in 1 .. j : i \in 1 .. k
    BY <1>3, <1>4
  <2>6. k \in 1 .. k
    BY <1>3
  <2>7. \A i \in 1 .. k + 1 : (Counted(b[i]) <=> Counted(a[i])) /\ b[i].id = a[i].id
    <3> SUFFICES ASSUME NEW i \in 1 .. k + 1
                 PROVE  (Counted(b[i]) <=> Counted(a[i])) /\ b[i].id = a[i].id
      OBVIOUS
    <3>1. i \in 1 .. j => b[i] = a[i]
      BY <1>9, <2>2, <2>3, <2>5
    <3>2. i = k + 1 => b[i] = a[i]
      BY <2>2, <2>3
    <3>3. i = k => b[i] = l /\ a[i] = Last(symbols)
      BY <1>3, <1>9, <2>2, <2>3, <2>6
    <3> QED
      BY <1>10, <2>4, <3>1, <3>2, <3>3
  <2>8. Spells(g, stack, a)
    BY <1>10, <2>1
  <2>9. Spells(g, stack, b)
    BY <2>2, <2>3, <2>7, <2>8, SameSymbols
  <2> QED
    BY <2>1, <2>9
<1> QED
  BY <1>1, <1>7, <1>8, <1>10

LEMMA MergeGroupFits == ASSUME LayoutApart, IInv, AllFits, MergeGroup PROVE AllFits'
<1>1. PICK group \in groups :
        /\ groups' = groups \ {group}
        /\ store' = IF group[1].follow # NULL THEN Remember(store, group[1].follow) ELSE store
        /\ \/ /\ group[1].ctx.finished
              /\ completed' = Append(completed, Followed(group)) /\ KeepQueue
           \/ /\ ~ group[1].ctx.finished
              /\ Push(Followed(group)) /\ UNCHANGED completed
  BY DEF MergeGroup
<1>2. phase = "merge" /\ phase' = phase /\ UNCHANGED <<task, reduction_stage>>
  BY DEF MergeGroup
<1>3. PICK g, c, f, m, d : /\ g = task.grammar /\ c = group[1].ctx /\ f = group[1].follow
                           /\ m = Merged(group) /\ d = Followed(group)
  OBVIOUS
<1>4. /\ IsSequence(group) /\ group # <<>>
      /\ \A i \in DOMAIN group : FitsMerge(task, group[i])
  BY DEF AllFits, StagesFit
<1>5. 1 \in DOMAIN group
  BY <1>4 DEF IsSequence
<1>6. /\ AllSound(g, c.symbols) /\ c.symbols # <<>> /\ IsContext(c)
      /\ f = NULL \/ IsLeaf(g, f)
      /\ ~ c.finished => /\ JustReduced(c) /\ f # NULL /\ IsStack(g, c.stack)
                         /\ Spells(g, c.stack, Append(c.symbols, f))
                         /\ OnBranch(task, c)
  BY <1>3, <1>4, <1>5 DEF FitsMerge
<1>7. PICK l : l = LastMerged(group)
  OBVIOUS
<1>8. /\ Sound(g, l)
      /\ JustReduced(c) => l.id = Last(c.symbols).id /\ Counted(l) /\ Counted(Last(c.symbols))
  <2>1. \A i \in DOMAIN group : AllSound(g, group[i].ctx.symbols) /\ group[i].ctx.symbols # <<>>
    BY <1>3, <1>4 DEF FitsMerge
  <2> QED
    BY <1>3, <1>4, <1>7, <2>1, AllInterpretations DEF JustReduced, Counted
<1>9. IsContext(m) /\ m.stack = c.stack
      /\ (m.symbols = c.symbols \/ m.symbols = Append(Front(c.symbols), l))
  BY <1>3, <1>6, <1>7, MergedFields
<1>10. /\ AllSound(g, m.symbols) /\ m.symbols # <<>>
       /\ JustReduced(c) => \A n : Spells(g, c.stack, Append(c.symbols, n)) =>
                                   Spells(g, c.stack, Append(m.symbols, n))
  BY <1>6, <1>8, <1>9, LastReplaced
<1>11. IsStore(g, store')
  BY <1>1, <1>3, <1>6, UniqueFits DEF AllFits, IsLeaf
<1>12. f = NULL => d = m
  BY <1>3 DEF Followed
<1>13. ASSUME f # NULL
       PROVE  /\ d.stack = c.stack /\ d.symbols = Append(m.symbols, Unique(store, f))
              /\ AllSound(g, d.symbols) /\ d.symbols # <<>>
              /\ Unique(store, f).type = f.type /\ Unique(store, f).id = f.id
  <2>1. PICK u : u = Unique(store, f)
    OBVIOUS
  <2>2. d = Inserted(m, f)
    BY <1>3, <1>13 DEF Followed
  <2>3. d.stack = c.stack /\ d.symbols = Append(m.symbols, u)
    <3>1. IsContext(m) /\ m.stack = c.stack
      BY <1>9
    <3>2. /\ Inserted(m, f).stack = m.stack
          /\ Inserted(m, f).symbols = Append(m.symbols, Unique(store, f))
      BY <3>1, FieldsStepped
    <3> QED
      BY <2>1, <2>2, <3>1, <3>2
  <2>4. Sound(g, u) /\ u.type = f.type /\ u.id = f.id
    BY <1>3, <1>6, <1>13, <2>1, UniqueFits DEF AllFits, IsLeaf
  <2> QED
    BY <1>10, <2>1, <2>3, <2>4, SoundAppended
<1>14. AllSound(g, d.symbols) /\ d.symbols # <<>>
  BY <1>10, <1>12, <1>13
<1>15. groups' \subseteq groups /\ SteppedFits'
  BY <1>1, <1>2 DEF SteppedFits
<1>16. CASE c.finished /\ completed' = Append(completed, d) /\ KeepQueue
  <2>1. StagesFit'
    BY <1>2, <1>3, <1>14, <1>15, <1>16, CompletedFits DEF AllFits
  <2>2. QueueFits'
    BY <1>2, <1>16, QueueKept DEF AllFits
  <2> QED
    BY <1>2, <1>3, <1>11, <1>15, <2>1, <2>2 DEF AllFits
<1>17. CASE ~ c.finished /\ Push(d) /\ UNCHANGED completed
  <2>1. PICK u : u = Unique(store, f)
    OBVIOUS
  <2>2. /\ d.stack = c.stack /\ d.symbols = Append(m.symbols, u)
        /\ u.type = f.type /\ u.id = f.id
    BY <1>6, <1>13, <1>17, <2>1
  <2>3. Spells(g, c.stack, Append(m.symbols, f))
    BY <1>6, <1>10, <1>17
  <2>4. Spells(g, c.stack, Append(m.symbols, u))
    <3>1. PICK a, b, k : a = Append(m.symbols, f) /\ b = Append(m.symbols, u) /\ k = Len(m.symbols)
      OBVIOUS
    <3>2. IsSequence(m.symbols)
      BY <1>10 DEF AllSound
    <3>3. /\ k \in Nat /\ DOMAIN a = 1 .. k + 1 /\ a[k + 1] = f
          /\ \A i \in 1 .. k : a[i] = m.symbols[i]
      BY <3>1, <3>2, AppendedParts
    <3>4. /\ DOMAIN b = 1 .. k + 1 /\ b[k + 1] = u
          /\ \A i \in 1 .. k : b[i] = m.symbols[i]
      BY <3>1, <3>2, AppendedParts
    <3>5. \A i \in 1 .. k + 1 : i \in 1 .. k \/ i = k + 1
      BY <3>3
    <3>6. \A i \in DOMAIN a : (Counted(b[i]) <=> Counted(a[i])) /\ b[i].id = a[i].id
      BY <2>2, <3>3, <3>4, <3>5 DEF Counted
    <3>7. Spells(g, c.stack, a)
      BY <2>3, <3>1
    <3>8. Spells(g, c.stack, b)
      BY <3>3, <3>4, <3>6, <3>7, SameSymbols
    <3> QED
      BY <3>1, <3>8
  <2>5. d.ptr = c.ptr
    BY <1>3, <1>6, FollowedIsContext
  <2>6. IsStack(g, d.stack) /\ Spells(g, d.stack, d.symbols) /\ OnBranch(task, d)
    BY <1>6, <1>17, <2>2, <2>4, <2>5 DEF OnBranch
  <2>7. Fits(task, d)
    BY <1>3, <1>14, <2>6 DEF Fits
  <2>8. QueueFits'
    BY <1>2, <1>17, <2>7, QueuePushed DEF AllFits
  <2>9. StagesFit'
    BY <1>2, <1>15, <1>17 DEF AllFits, StagesFit
  <2> QED
    BY <1>2, <1>3, <1>11, <1>15, <2>8, <2>9 DEF AllFits
<1> QED
  BY <1>1, <1>3, <1>16, <1>17

------------------------------------------------------------------------------
\* The context a parse begins with.
LEMMA InitFits == ASSUME Init PROVE AllFits
<1>1. PICK g, s, e : /\ g = task.grammar /\ s = Start[g].state /\ e = Plain(s)
  OBVIOUS
<1>2. PICK c : c = [box |-> 0, ptr |-> 0, stack |-> <<e>>, symbols |-> <<>>, finished |-> FALSE]
  OBVIOUS
<1>3. /\ task \in Task /\ popQ = <<[item |-> c, priority |-> 0]>> /\ pushQ = <<>>
      /\ reduction_stage = <<>> /\ completed = <<>> /\ groups = {} /\ store = {} /\ phase = "pop"
  BY <1>1, <1>2 DEF Init
<1>4. c.stack = <<e>> /\ c.symbols = <<>> /\ e.state = s /\ e.branch = NULL
  BY <1>1, <1>2 DEF Plain
<1>5. s \in StatesOf(g)
  BY <1>1, <1>3, AutomatonAssumption
<1>6. /\ IsSequence(<<e>>) /\ <<e>> # <<>> /\ Len(<<e>>) = 1 /\ DOMAIN <<e>> = {1}
      /\ <<e>>[1] = e /\ IsSequence(<<>>) /\ DOMAIN <<>> = {}
  BY DEF IsSequence, ToSet
<1>7. IsStack(g, c.stack) /\ Last(c.stack) = e
  BY <1>1, <1>4, <1>5, <1>6 DEF IsStack, Last
<1>8. Spells(g, c.stack, c.symbols)
  <2>1. CountedIn(c.symbols) = {}
    BY <1>4, <1>6 DEF CountedIn
  <2>2. Len(c.stack) - 1 = 0 /\ 1 .. 0 = {}
    BY <1>4, <1>6
  <2>3. PICK p : p = [i \in 1 .. 0 |-> 0]
    OBVIOUS
  <2>4. p \in [1 .. 0 -> Nat]
    BY <2>3
  <2>5. Enumerates(p, 0, {})
    BY <2>2, <2>4 DEF Enumerates
  <2> QED
    BY <2>1, <2>2, <2>4, <2>5 DEF Spells
<1>9. AllSound(g, c.symbols)
  BY <1>4, <1>6 DEF AllSound
<1>10. Fits(task, c)
  BY <1>1, <1>4, <1>7, <1>8, <1>9, FitsWhen
<1>11. Queued = {c}
  BY <1>3, <1>6 DEF Queued, Q!Owned
<1>12. QueueFits /\ SteppedFits /\ StagesFit /\ IsStore(g, store)
  BY <1>3, <1>6, <1>10, <1>11 DEF QueueFits, SteppedFits, StagesFit, IsStore
<1> QED
  BY <1>1, <1>12 DEF AllFits

\* Every step keeps what fits.
LEMMA NextFits == ASSUME LayoutApart, IInv, AllFits, [Next]_vars PROVE AllFits'
<1>1. CASE Pop
  BY <1>1, PopFits
<1>2. CASE HoldBack
  BY <1>2, HoldBackFits
<1>3. CASE StepSkip
  BY <1>3, StepSkipFits
<1>4. CASE StepShift
  BY <1>4, StepShiftFits
<1>5. CASE StepError
  BY <1>5, StepErrorFits
<1>6. CASE StepAccept
  BY <1>6, StepAcceptFits
<1>7. CASE StepFork
  BY <1>7, StepForkFits
<1>8. CASE StepReduce
  BY <1>8, StepReduceFits
<1>9. CASE ReduceAgain
  BY <1>9, ReduceAgainFits
<1>10. CASE ReduceSkip
  BY <1>10, ReduceSkipFits
<1>11. CASE ReduceShift
  BY <1>11, ReduceShiftFits
<1>12. CASE ReduceAccept
  BY <1>12, ReduceAcceptFits
<1>13. CASE ReduceError
  BY <1>13, ReduceErrorFits
<1>14. CASE ReduceFork
  BY <1>14, ReduceForkFits
<1>15. CASE Split
  BY <1>15, SplitFits
<1>16. CASE EndSweep
  BY <1>16, EndSweepFits
<1>17. CASE MergeGroup
  BY <1>17, MergeGroupFits
<1>18. CASE EndMerge
  BY <1>18, EndMergeFits
<1>19. CASE Swap
  BY <1>19, SwapFits
<1>20. CASE UNCHANGED vars
  <2>1. UNCHANGED <<task, phase, popQ, pushQ, rec_ctx, branches, reduction_stage, groups,
                    completed, store>>
    BY <1>20 DEF vars, queueVars, kernelVars
  <2>2. QueueFits' /\ SteppedFits' /\ StagesFit'
    BY <2>1 DEF AllFits, QueueFits, SteppedFits, StagesFit, Queued, Q!Owned
  <2> QED
    BY <2>1, <2>2 DEF AllFits
<1> QED
  BY <1>1, <1>2, <1>3, <1>4, <1>5, <1>6, <1>7, <1>8, <1>9, <1>10, <1>11, <1>12, <1>13,
     <1>14, <1>15, <1>16, <1>17, <1>18, <1>19, <1>20 DEF Next

\* The task of a parse is chosen once.
LEMMA TaskKept == [Next]_vars => task' = task
BY DEF Next, vars, Pop, HoldBack, StepSkip, StepShift, StepInsert, StepError, StepAccept, StepFork,
       StepReduce, Reduce, ReduceAgain, ReduceSkip, ReduceShift, ReduceAccept, StageFor,
       ReduceError, ReduceFork, Split, EndSweep, MergeGroup, EndMerge, Swap

(* Provided that no token is shifted in one state and skipped in another,   *)
(* the symbols of every context that count lead through the states on its   *)
(* stack, also while they are shared, staged and merged: in fork.rs nothing *)
(* ties the two vectors to each other but the steps that change both.       *)
THEOREM SymbolsFitStacks == Spec => []FitInv
<1>1. Init => FitInv
  BY InitFits DEF FitInv
<1>2. IInv /\ FitInv /\ [Next]_vars => FitInv'
  <2> SUFFICES ASSUME IInv, FitInv, [Next]_vars, LayoutApart' PROVE AllFits'
    BY DEF FitInv
  <2>1. LayoutApart
    BY TaskKept DEF LayoutApart
  <2> QED
    BY <2>1, NextFits DEF FitInv
<1> QED
  BY <1>1, <1>2, SweepInvariant, PTL DEF Spec

(* Where no token is both shifted and skipped, reduce_symbols finds the     *)
(* symbols of its rule: its `expect` holds for every such grammar.          *)
THEOREM SymbolsSuffice == Spec => [](LayoutApart => EnoughSymbols)
<1>1. IInv /\ FitInv => (LayoutApart => EnoughSymbols)
  <2> SUFFICES ASSUME IInv, FitInv, LayoutApart, phase \in {"step", "reduce"},
                      Acts(rec_ctx, "reduce")
               PROVE  FirstOf(rec_ctx.symbols, Len(RuleToReduce(rec_ctx).rhs)) # {}
    BY DEF EnoughSymbols
  <2>1. task \in Task /\ IsContext(rec_ctx) /\ Fits(task, rec_ctx)
    BY SteppedContext DEF FitInv, AllFits, SteppedFits
  <2> QED
    BY <2>1, ReduceFits
<1> QED
  BY <1>1, SweepInvariant, SymbolsFitStacks, PTL

------------------------------------------------------------------------------
(* The nodes below those that the contexts hold.                            *)
Below(S) == UNION {ToSet(n.parts) : n \in S}

(* f is what Level is, from 0 to d.                                         *)
LevelsTo(B, f, d) ==
  \A k \in 0 .. d : f[k] = IF k = 0 THEN B ELSE Below(f[k - 1])

\* There are levels down to any depth.
LEMMA LevelsExist ==
  ASSUME NEW B, NEW d \in Nat
  PROVE  \E f : LevelsTo(B, f, d)
<1> DEFINE Bad == {k \in Nat : ~ \E f : LevelsTo(B, f, k)}
<1>1. Bad = {}
  <2> SUFFICES ASSUME Bad # {} PROVE FALSE
    OBVIOUS
  <2>1. Bad \subseteq Nat
    OBVIOUS
  <2>2. PICK k \in Bad : \A j \in Bad : k <= j
    <3> HIDE DEF Bad
    <3> QED
      BY <2>1, LeastNatural
  <2>3. k \in Nat /\ ~ \E f : LevelsTo(B, f, k)
    BY <2>2
  <2>4. k # 0
    <3>1. CASE k = 0
      <4>1. PICK f : f = [i \in 0 .. 0 |-> B]
        OBVIOUS
      <4>2. \A i \in 0 .. 0 : i = 0 /\ f[i] = B
        BY <4>1
      <4> QED
        BY <2>3, <3>1, <4>2 DEF LevelsTo
    <3> QED
      BY <3>1
  <2>5. k - 1 \in Nat /\ k - 1 \notin Bad
    <3> HIDE DEF Bad
    <3>1. k - 1 \in Nat /\ ~ k <= k - 1
      BY <2>3, <2>4
    <3> QED
      BY <2>2, <3>1
  <2>6. PICK f : LevelsTo(B, f, k - 1)
    BY <2>5
  <2>7. PICK h : h = [i \in 0 .. k |-> IF i = k THEN Below(f[k - 1]) ELSE f[i]]
    OBVIOUS
  <2>8. \A i \in 0 .. k : h[i] = IF i = 0 THEN B ELSE Below(h[i - 1])
    <3> SUFFICES ASSUME NEW i \in 0 .. k PROVE h[i] = IF i = 0 THEN B ELSE Below(h[i - 1])
      OBVIOUS
    <3>1. i # 0 => i - 1 \in 0 .. k /\ i - 1 # k
      BY <2>3
    <3>2. i # 0 => h[i - 1] = f[i - 1]
      BY <2>7, <3>1
    <3>3. i # k => i \in 0 .. k - 1
      BY <2>3
    <3>4. CASE i = k
      BY <2>4, <2>7, <3>2, <3>4
    <3>5. CASE i # k
      <4>1. f[i] = IF i = 0 THEN B ELSE Below(f[i - 1])
        BY <2>6, <3>3, <3>5 DEF LevelsTo
      <4>2. h[i] = f[i]
        BY <2>7, <3>5
      <4> QED
        BY <3>2, <4>1, <4>2
    <3> QED
      BY <3>4, <3>5
  <2> QED
    BY <2>3, <2>8 DEF LevelsTo
<1> QED
  BY <1>1

\* No two functions differ in a level they both have.
LEMMA LevelsUnique ==
  ASSUME NEW B, NEW c \in Nat, NEW d \in Nat, NEW f, NEW h, LevelsTo(B, f, c), LevelsTo(B, h, d),
         NEW j \in Nat, j <= c, j <= d
  PROVE  f[j] = h[j]
<1> DEFINE Bad == {k \in Nat : k <= c /\ k <= d /\ f[k] # h[k]}
<1>1. Bad = {}
  <2> SUFFICES ASSUME Bad # {} PROVE FALSE
    OBVIOUS
  <2>1. Bad \subseteq Nat
    OBVIOUS
  <2>2. PICK k \in Bad : \A i \in Bad : k <= i
    <3> HIDE DEF Bad
    <3> QED
      BY <2>1, LeastNatural
  <2>3. k \in 0 .. c /\ k \in 0 .. d /\ f[k] # h[k]
    BY <2>2
  <2>4. /\ f[k] = IF k = 0 THEN B ELSE Below(f[k - 1])
        /\ h[k] = IF k = 0 THEN B ELSE Below(h[k - 1])
    BY <2>3 DEF LevelsTo
  <2>5. k # 0 /\ f[k - 1] # h[k - 1]
    BY <2>3, <2>4
  <2>6. k - 1 \in Nat /\ k - 1 <= c /\ k - 1 <= d /\ ~ k <= k - 1
    BY <2>3, <2>5
  <2>7. k - 1 \in Bad
    BY <2>5, <2>6
  <2> QED
    BY <2>2, <2>6, <2>7
<1> QED
  BY <1>1

(* Level is the function it is written as.                                  *)
LEMMA LevelUnfolds ==
  \A k \in Nat : Level[k] = IF k = 0 THEN UNION {ToSet(c.symbols) : c \in Pursued}
                            ELSE Below(Level[k - 1])
<1> DEFINE Base == UNION {ToSet(c.symbols) : c \in Pursued}
           F(d) == CHOOSE f : LevelsTo(Base, f, d)
           L == [k \in Nat |-> F(k)[k]]
           Is(f) == f = [k \in Nat |-> IF k = 0 THEN Base
                                       ELSE UNION {ToSet(n.parts) : n \in f[k - 1]}]
<1>1. \A k \in Nat : L[k] = IF k = 0 THEN Base ELSE Below(L[k - 1])
  <2> SUFFICES ASSUME NEW k \in Nat PROVE L[k] = IF k = 0 THEN Base ELSE Below(L[k - 1])
    OBVIOUS
  <2> HIDE DEF Base
  <2>1. LevelsTo(Base, F(k), k)
    BY LevelsExist
  <2>2. F(k)[k] = IF k = 0 THEN Base ELSE Below(F(k)[k - 1])
    <3> HIDE DEF F
    <3>1. k \in 0 .. k
      OBVIOUS
    <3> QED
      BY <2>1, <3>1 DEF LevelsTo
  <2>3. L[k] = F(k)[k]
    BY DEF L
  <2>4. k # 0 => L[k - 1] = F(k)[k - 1]
    <3> SUFFICES ASSUME k # 0 PROVE L[k - 1] = F(k)[k - 1]
      OBVIOUS
    <3>1. k - 1 \in Nat /\ k - 1 <= k /\ k - 1 <= k - 1
      OBVIOUS
    <3>2. LevelsTo(Base, F(k - 1), k - 1)
      BY <3>1, LevelsExist
    <3>3. L[k - 1] = F(k - 1)[k - 1]
      BY <3>1 DEF L
    <3> HIDE DEF F, L
    <3>4. F(k - 1)[k - 1] = F(k)[k - 1]
      BY <2>1, <3>1, <3>2, LevelsUnique
    <3> QED
      BY <3>3, <3>4
  <2> HIDE DEF F, L
  <2> QED
    BY <2>2, <2>3, <2>4
<1>2. PICK l : l = L
  OBVIOUS
<1>3. l = [k \in Nat |-> l[k]]
  BY <1>2
<1>4. Is(l)
  <2>1. \A k \in Nat : l[k] = IF k = 0 THEN Base ELSE UNION {ToSet(n.parts) : n \in l[k - 1]}
    <3> HIDE DEF L, Base
    <3> QED
      BY <1>1, <1>2 DEF Below
  <2> HIDE DEF Base, L
  <2> QED
    BY <1>3, <2>1
<1>5. Level = CHOOSE f : Is(f)
  BY DEF Level
<1>6. Is(Level)
  <2> HIDE DEF Is
  <2> QED
    BY <1>4, <1>5
<1>7. \A k \in Nat : Level[k] = IF k = 0 THEN Base
                                ELSE UNION {ToSet(n.parts) : n \in Level[k - 1]}
  <2> HIDE DEF Base
  <2> QED
    BY <1>6
<1> HIDE DEF Base
<1>8. \A k \in Nat : Level[k] = IF k = 0 THEN Base ELSE Below(Level[k - 1])
  BY <1>7 DEF Below
<1> QED
  BY <1>8 DEF Base

\* The symbols of every context that is still pursued are sound.
LEMMA PursuedSound ==
  ASSUME AllFits
  PROVE  \A c \in Pursued : AllSound(task.grammar, c.symbols)
<1>1. PICK g : g = task.grammar
  OBVIOUS
<1>2. \A c : Seen(c).symbols = c.symbols
  BY DEF Seen
<1>3. \A c \in Queued : AllSound(g, Seen(c).symbols)
  BY <1>1, <1>2 DEF AllFits, QueueFits, Fits
<1>4. \A c \in ToSet(completed) : AllSound(g, Seen(c).symbols)
  <2>1. \A i \in DOMAIN completed : AllSound(g, completed[i].symbols)
    BY <1>1 DEF AllFits, StagesFit
  <2> QED
    BY <1>2, <2>1 DEF ToSet
<1>5. ASSUME NEW e, FitsMerge(task, e)
      PROVE  AllSound(g, Whole(e).symbols)
  <2>1. AllSound(g, e.ctx.symbols) /\ (e.follow = NULL \/ Sound(g, e.follow))
    BY <1>1, <1>5 DEF FitsMerge, IsLeaf
  <2>2. e.follow # NULL => AllSound(g, Append(e.ctx.symbols, e.follow))
    BY <2>1, SoundAppended
  <2>3. Whole(e).symbols = IF e.follow = NULL THEN e.ctx.symbols
                                              ELSE Append(e.ctx.symbols, e.follow)
    BY DEF Whole
  <2> QED
    BY <2>1, <2>2, <2>3
<1>6. \A e \in ToSet(reduction_stage) : FitsMerge(task, e)
  <2>1. \A i \in DOMAIN reduction_stage : FitsMerge(task, reduction_stage[i])
    BY DEF AllFits, StagesFit
  <2> QED
    BY <2>1 DEF ToSet
<1>7. \A e \in UNION {ToSet(x) : x \in groups} : FitsMerge(task, e)
  <2>1. \A x \in groups : \A i \in DOMAIN x : FitsMerge(task, x[i])
    BY DEF AllFits, StagesFit
  <2> QED
    BY <2>1 DEF ToSet
<1>8. phase \in {"step", "reduce", "fork"} => AllSound(g, Seen(rec_ctx).symbols)
  BY <1>1, <1>2 DEF AllFits, SteppedFits, Fits
<1>9. \A c \in Pursued : \/ \E x \in Queued \cup ToSet(completed) : c = Seen(x)
                         \/ \E e \in ToSet(reduction_stage) \cup UNION {ToSet(x) : x \in groups} :
                              c = Whole(e)
                         \/ phase \in {"step", "reduce", "fork"} /\ c = Seen(rec_ctx)
  BY DEF Pursued
<1> QED
  BY <1>1, <1>3, <1>4, <1>5, <1>6, <1>7, <1>8, <1>9

\* So are the nodes at every depth below them.
LEMMA NodesSound ==
  ASSUME AllFits
  PROVE  \A k \in Nat : \A n \in Level[k] : Sound(task.grammar, n)
<1> DEFINE Fine(k) == \A n \in Level[k] : Sound(task.grammar, n)
           Bad == {k \in Nat : ~ Fine(k)}
<1>1. Bad = {}
  <2> SUFFICES ASSUME Bad # {} PROVE FALSE
    OBVIOUS
  <2>1. Bad \subseteq Nat
    OBVIOUS
  <2>2. PICK k \in Bad : \A i \in Bad : k <= i
    <3> HIDE DEF Bad
    <3> QED
      BY <2>1, LeastNatural
  <2>3. k \in Nat /\ ~ Fine(k)
    BY <2>2
  <2>4. PICK n \in Level[k] : ~ Sound(task.grammar, n)
    BY <2>3
  <2>5. CASE k = 0
    <3>1. n \in UNION {ToSet(c.symbols) : c \in Pursued}
      BY <2>3, <2>4, <2>5, LevelUnfolds
    <3>2. PICK c \in Pursued : n \in ToSet(c.symbols)
      BY <3>1
    <3>3. AllSound(task.grammar, c.symbols)
      BY PursuedSound
    <3> QED
      BY <2>4, <3>2, <3>3 DEF AllSound, ToSet
  <2>6. CASE k # 0
    <3>1. k - 1 \in Nat /\ ~ k <= k - 1
      BY <2>3, <2>6
    <3>2. Fine(k - 1)
      BY <2>2, <3>1
    <3>3. n \in Below(Level[k - 1])
      BY <2>3, <2>4, <2>6, LevelUnfolds
    <3>4. PICK x \in Level[k - 1] : n \in ToSet(x.parts)
      BY <3>3 DEF Below
    <3>5. Sound(task.grammar, x)
      BY <3>2
    <3>6. Sound(task.grammar, n)
      BY <3>4, <3>5, SoundParts DEF ToSet
    <3> QED
      BY <2>4, <3>6
  <2> QED
    BY <2>5, <2>6
<1> QED
  BY <1>1

(* Where no token is both shifted and skipped, every node that can be       *)
(* reached from a context, through merged interpretations too, has exactly  *)
(* the symbols of its rule among the parts reduce_symbols gave it.          *)
THEOREM ReductionsFollowRules == Spec => [](LayoutApart => NodesFollowRules)
<1>1. FitInv => (LayoutApart => NodesFollowRules)
  <2> SUFFICES ASSUME FitInv, LayoutApart, NEW n \in AllNodes, n.type = "nonterm"
               PROVE  [i \in DOMAIN CountedParts(n) |-> CountedParts(n)[i].id] = Rules[n.rule].rhs
    BY DEF NodesFollowRules
  <2>1. PICK k \in 0 .. Depth : n \in Level[k]
    BY DEF AllNodes
  <2>2. k \in Nat
    BY <2>1
  <2>3. Sound(task.grammar, n)
    BY <2>1, <2>2, NodesSound DEF FitInv
  <2>4. FollowsRule(task.grammar, n)
    BY <2>3 DEF Sound, IsNode
  <2> QED
    BY <2>4 DEF FollowsRule, Rules
<1> QED
  BY <1>1, SymbolsFitStacks, PTL
==============================================================================
