-------------------------- MODULE BuildStatesProofs --------------------------
(***************************************************************************)
(* Proofs about BuildStates, for any number of workers and any grammar.    *)
(* The argument: sync_tracker is exactly the number of waiting workers     *)
(* plus N + 1 per failed one; while nothing failed, a queue with work in   *)
(* it always has a worker that is not waiting; so all workers can only     *)
(* return Ok together with an empty queue.  The proof that a step keeps    *)
(* the inductive invariant goes part by part, one step per action.         *)
(***************************************************************************)
EXTENDS BuildStates, FiniteSetTheorems, TLAPS

(* What Take relies on: the head of a queue and the rest partition it.      *)
LEMMA TakeFront ==
  ASSUME NEW S, NEW q \in Seq(S), q # <<>>
  PROVE  /\ Head(q) \in S
         /\ Tail(q) \in Seq(S)
         /\ Elements(q) = Elements(Tail(q)) \cup {Head(q)}
         /\ NoRepeats(q) => NoRepeats(Tail(q)) /\ Head(q) \notin Elements(Tail(q))
<1>1. Len(q) \in Nat \ {0} /\ Head(q) = q[1] /\ 1 \in DOMAIN q /\ Head(q) \in S
  OBVIOUS
<1>2. Tail(q) \in Seq(S) /\ DOMAIN Tail(q) = 1 .. Len(q) - 1 /\ DOMAIN q = 1 .. Len(q)
  OBVIOUS
<1>3. \A i \in 1 .. Len(q) - 1 : Tail(q)[i] = q[i + 1]
  OBVIOUS
<1>4. Elements(q) \subseteq Elements(Tail(q)) \cup {Head(q)}
  <2> SUFFICES ASSUME NEW i \in DOMAIN q PROVE q[i] \in Elements(Tail(q)) \cup {Head(q)}
    BY DEF Elements
  <2>1. CASE i = 1
    BY <2>1, <1>1
  <2>2. CASE i # 1
    <3>1. i - 1 \in 1 .. Len(q) - 1 /\ (i - 1) + 1 = i
      BY <2>2, <1>1, <1>2
    <3>2. q[i] = Tail(q)[i - 1]
      BY <3>1, <1>3
    <3> QED
      BY <3>1, <3>2, <1>2 DEF Elements
  <2> QED
    BY <2>1, <2>2
<1>5. Elements(Tail(q)) \cup {Head(q)} \subseteq Elements(q)
  <2>1. \A i \in DOMAIN Tail(q) : i + 1 \in DOMAIN q
    BY <1>1, <1>2
  <2> QED
    BY <2>1, <1>1, <1>2, <1>3 DEF Elements
<1>6. ASSUME NoRepeats(q) PROVE NoRepeats(Tail(q)) /\ Head(q) \notin Elements(Tail(q))
  <2>1. \A i \in DOMAIN Tail(q) : i + 1 \in DOMAIN q /\ i + 1 # 1 /\ i \in Int
    BY <1>1, <1>2
  <2>2. NoRepeats(Tail(q))
    BY <1>6, <2>1, <1>2, <1>3 DEF NoRepeats
  <2>3. Head(q) \notin Elements(Tail(q))
    BY <1>6, <2>1, <1>1, <1>2, <1>3 DEF NoRepeats, Elements
  <2> QED
    BY <2>2, <2>3
<1> QED
  BY <1>1, <1>2, <1>4, <1>5, <1>6

(* What Enqueue relies on.                                                  *)
LEMMA PushBackOf ==
  ASSUME NEW S, NEW q \in Seq(S), NEW n \in S
  PROVE  /\ Append(q, n) \in Seq(S)
         /\ Append(q, n) # <<>>
         /\ Elements(Append(q, n)) = Elements(q) \cup {n}
         /\ NoRepeats(q) /\ n \notin Elements(q) => NoRepeats(Append(q, n))
<1> DEFINE a == Append(q, n)
<1>1. a \in Seq(S) /\ Len(q) \in Nat /\ DOMAIN q = 1 .. Len(q)
      /\ DOMAIN a = 1 .. Len(q) + 1 /\ a[Len(q) + 1] = n
  OBVIOUS
<1>2. \A i \in 1 .. Len(q) : a[i] = q[i]
  OBVIOUS
<1>3. \A i \in DOMAIN a : i \in DOMAIN q \/ i = Len(q) + 1
  BY <1>1
<1>4. \A i \in DOMAIN q : i \in DOMAIN a
  BY <1>1
<1>5. a # <<>>
  BY <1>1
<1>6. Len(q) + 1 \in DOMAIN a
  BY <1>1
<1> HIDE DEF a
<1>7. Elements(a) = Elements(q) \cup {n}
  BY <1>1, <1>2, <1>3, <1>4, <1>6 DEF Elements
<1>8. NoRepeats(q) /\ n \notin Elements(q) => NoRepeats(a)
  BY <1>1, <1>2, <1>3, <1>4 DEF NoRepeats, Elements
<1> QED
  BY <1>1, <1>5, <1>7, <1>8 DEF a

(* The sets of workers that sync_tracker counts.                            *)
LEMMA Counts ==
  ASSUME NEW A \in SUBSET Worker
  PROVE  /\ IsFiniteSet(A)
         /\ Cardinality(A) \in Nat
         /\ Cardinality(A) <= N
         /\ N \in Nat \ {0}
         /\ \A w \in Worker \ A : Cardinality(A \cup {w}) = Cardinality(A) + 1
         /\ \A w \in A : Cardinality(A \ {w}) = Cardinality(A) - 1
         /\ A # {} => Cardinality(A) > 0
         /\ A = {} => Cardinality(A) = 0
<1>1. IsFiniteSet(Worker) /\ IsFiniteSet(A) /\ Cardinality(A) <= Cardinality(Worker)
  BY WorkersAssumption, FS_Subset
<1>2. Cardinality(A) \in Nat /\ Cardinality(Worker) \in Nat /\ Cardinality(Worker) # 0
  BY <1>1, WorkersAssumption, FS_CardinalityType, FS_EmptySet
<1>3. \A w \in Worker \ A : Cardinality(A \cup {w}) = Cardinality(A) + 1
  BY <1>1, FS_AddElement
<1>4. \A w \in A : Cardinality(A \ {w}) = Cardinality(A) - 1
  BY <1>1, FS_RemoveElement
<1>5. A # {} => Cardinality(A) # 0
  BY <1>1, FS_EmptySet
<1>6. A = {} => Cardinality(A) = 0
  BY FS_EmptySet
<1> QED
  BY <1>1, <1>2, <1>3, <1>4, <1>5, <1>6 DEF N

------------------------------------------------------------------------------
(* The invariant as it is carried through the proofs.                       *)
Inv == TypeOK /\ Inductive

(* The builder that compile_parser_states hands to the workers: one node    *)
(* per root in the queue, nothing taken yet.                                *)
LEMMA InitInv == Init => Inv
<1> SUFFICES ASSUME Init PROVE Inv
  OBVIOUS
<1> USE GrammarAssumption DEF Init
<1>1. TypeOK
  BY DEF TypeOK, PC, Elements
<1>2. LocalsAgree
  BY DEF LocalsAgree, Working
<1>3. TrackerExact
  <2>1. Waiting = {} /\ FailedWorkers = {}
    BY DEF Waiting, FailedWorkers
  <2>2. Cardinality(Waiting) = 0 /\ Cardinality(FailedWorkers) = 0 /\ N \in Nat
    <3>1. Cardinality({}) = 0 /\ N \in Nat
      BY Counts, {} \in SUBSET Worker
    <3> QED
      BY <2>1, <3>1
  <2>3. (N + 1) * 0 = 0
    BY <2>2
  <2>4. sync_tracker = 0
    OBVIOUS
  <2> QED
    BY ONLY <2>2, <2>3, <2>4 DEF TrackerExact
<1>4. SomeoneActive
  BY WorkersAssumption DEF SomeoneActive
<1>5. Accounted
  BY DEF Accounted
<1>6. NoNodeTwice
  BY DEF NoNodeTwice
<1>7. Closed
  BY DEF Closed
<1>8. RecoveryAgrees /\ Recoverable
  BY DEF RecoveryAgrees, Recoverable
<1> QED
  BY <1>1, <1>2, <1>3, <1>4, <1>5, <1>6, <1>7, <1>8 DEF Inv, Inductive

------------------------------------------------------------------------------
(* Every action leaves the program counters, nodes and flags well typed.    *)
LEMMA NextType ==
  ASSUME TypeOK, LocalsAgree, TrackerExact, NEW w \in Worker, Step(w)
  PROVE  TypeOK'
<1> USE GrammarAssumption DEF TypeOK, Go, Return
<1>1. CASE Take(w)
  <2>1. Head(queue) \in Node /\ Tail(queue) \in Seq(Node \ Leaf)
    BY <1>1, TakeFront DEF Take
  <2> QED
    BY <1>1, <2>1 DEF Take, PC
<1>2. CASE FindNothing(w)
  BY <1>2 DEF FindNothing, PC, shared, history
<1>3. CASE Resume(w)
  <2>1. w \in Waiting
    BY <1>3 DEF Resume, LocalsAgree, Waiting
  <2>2. Cardinality(Waiting) > 0 /\ Cardinality(Waiting) \in Nat
    BY <2>1, Counts DEF Waiting
  <2>3. Cardinality(FailedWorkers) \in Nat /\ N \in Nat
    BY Counts DEF FailedWorkers
  <2>4. (N + 1) * Cardinality(FailedWorkers) \in Nat
    BY <2>3
  <2>5. sync_tracker - 1 \in Nat
    BY <2>2, <2>4 DEF TrackerExact
  <2> QED
    BY <1>3, <2>5 DEF Resume, PC, history
<1>4. CASE Idle(w)
  <2>1. sync_tracker' \in Nat
    BY <1>4 DEF Idle
  <2> QED
    BY <1>4, <2>1 DEF Idle, PC, history
<1>5. CASE HandleFails(w)
  BY <1>5 DEF HandleFails, PC, shared, history
<1>6. CASE HandleStale(w)
  BY <1>6 DEF HandleStale, PC, shared, history
<1>7. CASE HandleStages(w)
  <2>1. node[w] \in Node
    BY <1>7 DEF HandleStages, LocalsAgree, Working
  <2>2. WithScanners(Successors[node[w]]) \subseteq Node
    BY <2>1 DEF WithScanners
  <2> QED
    BY <1>7, <2>2 DEF HandleStages, PC, shared, history
<1>8. CASE Produce(w)
  BY <1>8 DEF Produce, New, PC, history
<1>9. CASE Enqueue(w)
  <2>1. PICK n \in pending[w] : /\ queue' = Append(queue, n)
                                /\ pending' = [pending EXCEPT ![w] = @ \ {n}]
    BY <1>9 DEF Enqueue
  <2>2. queue' \in Seq(Node \ Leaf)
    BY <2>1, PushBackOf
  <2> QED
    BY <1>9, <2>1, <2>2 DEF Enqueue, PC, history
<1>10. CASE Committed(w)
  <2>1. node[w] \in Node
    BY <1>10 DEF Committed, LocalsAgree, Working
  <2> QED
    BY <1>10, <2>1 DEF Committed, Inconclusive, PC, shared, history
<1>11. CASE Poison(w)
  <2>1. node[w] \in Node
    BY <1>11 DEF Poison, LocalsAgree, Working
  <2> QED
    BY <1>11, <2>1 DEF Poison, PC, history
<1>12. CASE Invalidate(w)
  <2>1. Predecessors[Failed(w)] \in SUBSET NonTerm /\ Failed(w) \in NonTerm
    BY <1>12 DEF Invalidate, LocalsAgree, Failed
  <2>2. {NormalRoot[x] : x \in Predecessors[Failed(w)] \cup {Failed(w)}} \subseteq Node
    BY <2>1
  <2> QED
    BY <1>12, <2>1, <2>2 DEF Invalidate, PC, history
<1>13. CASE Rebuild(w)
  <2>1. PICK x \in rebuild[w] :
          /\ staged' = [staged EXCEPT ![w] = WithScanners({FallbackRoot[x]})]
          /\ rebuild' = [rebuild EXCEPT ![w] = @ \ {x}]
    BY <1>13 DEF Rebuild
  <2>2. WithScanners({FallbackRoot[x]}) \subseteq Node
    BY DEF WithScanners
  <2> QED
    BY <1>13, <2>1, <2>2 DEF Rebuild, PC, shared, history
<1>14. CASE RootCommitted(w)
  BY <1>14 DEF RootCommitted, PC, shared, history
<1>15. CASE Recovered(w)
  BY <1>15 DEF Recovered, PC, shared, history
<1>16. CASE Fail(w)
  <2>1. N \in Nat
    BY Counts, {} \in SUBSET Worker
  <2> QED
    BY <1>16, <2>1 DEF Fail, PC, history
<1> QED
  BY <1>1, <1>2, <1>3, <1>4, <1>5, <1>6, <1>7, <1>8, <1>9, <1>10, <1>11, <1>12, <1>13,
     <1>14, <1>15, <1>16 DEF Step

(* A worker's step keeps its own locals consistent and touches no others.   *)
LEMMA NextLocals ==
  ASSUME TypeOK, LocalsAgree, NEW w \in Worker, Step(w)
  PROVE  LocalsAgree'
<1> USE GrammarAssumption DEF TypeOK, LocalsAgree, Working, Go, Return
<1>1. CASE Take(w)
  <2>1. Head(queue) \in Node
    BY <1>1, TakeFront DEF Take
  <2> QED
    BY <1>1, <2>1 DEF Take
<1>2. CASE FindNothing(w)
  BY <1>2 DEF FindNothing, shared, history
<1>3. CASE Resume(w)
  BY <1>3 DEF Resume, history
<1>4. CASE Idle(w)
  BY <1>4 DEF Idle, history
<1>5. CASE HandleFails(w)
  BY <1>5 DEF HandleFails, shared, history
<1>6. CASE HandleStale(w)
  BY <1>6 DEF HandleStale, shared, history
<1>7. CASE HandleStages(w)
  BY <1>7 DEF HandleStages, shared, history
<1>8. CASE Produce(w)
  BY <1>8 DEF Produce, history
<1>9. CASE Enqueue(w)
  BY <1>9 DEF Enqueue, history
<1>10. CASE Committed(w)
  BY <1>10 DEF Committed, Inconclusive, shared, history
<1>11. CASE Poison(w)
  BY <1>11 DEF Poison, history
<1>12. CASE Invalidate(w)
  BY <1>12 DEF Invalidate, history
<1>13. CASE Rebuild(w)
  BY <1>13 DEF Rebuild, shared, history
<1>14. CASE RootCommitted(w)
  BY <1>14 DEF RootCommitted, shared, history
<1>15. CASE Recovered(w)
  BY <1>15 DEF Recovered, shared, history
<1>16. CASE Fail(w)
  BY <1>16 DEF Fail, history
<1> QED
  BY <1>1, <1>2, <1>3, <1>4, <1>5, <1>6, <1>7, <1>8, <1>9, <1>10, <1>11, <1>12, <1>13,
     <1>14, <1>15, <1>16 DEF Step

(* sync_tracker stays exact: only Resume, Idle and Fail change what it      *)
(* counts.                                                                  *)
LEMMA NextTracker ==
  ASSUME TypeOK, LocalsAgree, TrackerExact, NEW w \in Worker, Step(w)
  PROVE  TrackerExact'
<1> USE GrammarAssumption
<1>1. Waiting \in SUBSET Worker /\ FailedWorkers \in SUBSET Worker
  BY DEF Waiting, FailedWorkers
<1>2. /\ Cardinality(Waiting) \in Nat
      /\ Cardinality(FailedWorkers) \in Nat
      /\ N \in Nat
      /\ (N + 1) * Cardinality(FailedWorkers) \in Nat
  <2>1. Cardinality(Waiting) \in Nat /\ Cardinality(FailedWorkers) \in Nat /\ N \in Nat
    BY <1>1, Counts
  <2> QED
    BY <2>1
<1>3. CASE Resume(w)
  <2>1. Waiting' = Waiting \ {w} /\ w \in Waiting
    BY <1>3 DEF Resume, TypeOK, LocalsAgree, Waiting
  <2>2. Cardinality(Waiting') = Cardinality(Waiting) - 1
    BY <2>1, <1>1, Counts
  <2>3. FailedWorkers' = FailedWorkers /\ sync_tracker' = sync_tracker - 1
    BY <1>3 DEF Resume, FailedWorkers
  <2> QED
    BY <1>2, <2>2, <2>3 DEF TrackerExact
<1>4. CASE Idle(w)
  <2>1. Waiting' = Waiting \cup {w}
    BY <1>4 DEF Idle, TypeOK, Waiting
  <2>2. FailedWorkers' = FailedWorkers
    BY <1>4 DEF Idle, TypeOK, LocalsAgree, FailedWorkers, Return
  <2>3. CASE waiting[w]
    <3>1. Waiting' = Waiting
      BY <2>1, <2>3 DEF Waiting
    <3> QED
      BY <1>4, <2>2, <2>3, <3>1 DEF Idle, TrackerExact
  <2>4. CASE ~ waiting[w]
    <3>1. w \in Worker \ Waiting
      BY <2>4 DEF Waiting
    <3>2. Cardinality(Waiting') = Cardinality(Waiting) + 1
      BY <2>1, <3>1, <1>1, Counts
    <3>3. sync_tracker' = sync_tracker + 1
      BY <1>4, <2>4 DEF Idle
    <3> QED
      BY <1>2, <2>2, <3>2, <3>3 DEF TrackerExact
  <2> QED
    BY <2>3, <2>4
<1>5. CASE Fail(w)
  <2>1. FailedWorkers' = FailedWorkers \cup {w} /\ w \in Worker \ FailedWorkers
    BY <1>5 DEF Fail, TypeOK, LocalsAgree, FailedWorkers, Return
  <2>2. Cardinality(FailedWorkers') = Cardinality(FailedWorkers) + 1
    BY <2>1, <1>1, Counts
  <2>3. Waiting' = Waiting /\ sync_tracker' = sync_tracker + N + 1
    BY <1>5 DEF Fail, Waiting
  <2>4. (N + 1) * (Cardinality(FailedWorkers) + 1)
          = (N + 1) * Cardinality(FailedWorkers) + N + 1
    BY <1>2
  <2> QED
    BY <1>2, <2>2, <2>3, <2>4 DEF TrackerExact
<1>6. ASSUME ~ Resume(w), ~ Idle(w), ~ Fail(w)
      PROVE  UNCHANGED <<sync_tracker, waiting, result>>
  BY <1>6 DEF Step, Take, FindNothing, HandleFails, HandleStale, HandleStages, Produce,
     Enqueue, Committed, Poison, Invalidate, Rebuild, RootCommitted, Recovered, shared
<1>7. UNCHANGED <<sync_tracker, waiting, result>> => TrackerExact'
  BY DEF TrackerExact, Waiting, FailedWorkers
<1> QED
  BY <1>3, <1>4, <1>5, <1>6, <1>7

(* While nothing failed, work in the queue always has a worker that is not  *)
(* waiting and will poll again: the one that pushed it.                     *)
LEMMA NextActive ==
  ASSUME TypeOK, LocalsAgree, SomeoneActive, NEW w \in Worker, Step(w)
  PROVE  SomeoneActive'
<1> USE GrammarAssumption
<1> DEFINE Active(v) == ~ waiting[v] /\ pc[v] \notin {"idle", "done"}
<1>1. SUFFICES ASSUME queue' # <<>>, (FailedWorkers = {})'
               PROVE  \E v \in Worker : Active(v)'
  BY DEF SomeoneActive
<1>2. FailedWorkers = {}
  <2>1. \A v \in Worker : result[v] = "failed" => result'[v] = "failed"
    BY DEF TypeOK, LocalsAgree, Step, Take, FindNothing, Resume, Idle, HandleFails,
       HandleStale, HandleStages, Produce, Enqueue, Committed, Poison, Invalidate, Rebuild,
       RootCommitted, Recovered, Fail, Return
  <2> QED
    BY <1>1, <2>1 DEF FailedWorkers
<1>3. CASE Enqueue(w)
  BY <1>3 DEF Enqueue, LocalsAgree, Working
<1>4. CASE Fail(w)
  <2>1. w \in FailedWorkers'
    BY <1>4 DEF Fail, Return, TypeOK, FailedWorkers
  <2> QED
    BY <2>1, <1>1
<1>5. ASSUME ~ Enqueue(w), ~ Fail(w) PROVE queue # <<>>
  <2>1. CASE Take(w)
    BY <2>1 DEF Take
  <2>2. CASE ~ Take(w)
    <3>1. queue' = queue
      BY <1>5, <2>2 DEF Step, FindNothing, Resume, Idle, HandleFails, HandleStale,
         HandleStages, Produce, Committed, Poison, Invalidate, Rebuild, RootCommitted,
         Recovered, shared
    <3> QED
      BY <3>1, <1>1
  <2> QED
    BY <2>1, <2>2
<1>6. ASSUME ~ Enqueue(w), ~ Fail(w) PROVE \E v \in Worker : Active(v)'
  <2>1. PICK v \in Worker : Active(v)
    BY <1>2, <1>5, <1>6 DEF SomeoneActive
  <2>2. CASE v # w
    <3>1. pc'[v] = pc[v] /\ waiting'[v] = waiting[v]
      BY <2>2 DEF TypeOK, Step, Take, FindNothing, Resume, Idle, HandleFails, HandleStale,
         HandleStages, Produce, Enqueue, Committed, Poison, Invalidate, Rebuild,
         RootCommitted, Recovered, Fail, Return, Go
    <3> QED
      BY <2>1, <3>1
  <2>3. CASE v = w
    <3>1. ~ Idle(w) /\ ~ FindNothing(w)
      BY <2>1, <2>3, <1>5, <1>6 DEF Idle, FindNothing
    <3>2. waiting'[w] = waiting[w]
      BY <3>1, <2>1, <2>3 DEF TypeOK, LocalsAgree, Step, Take, Resume, HandleFails,
         HandleStale, HandleStages, Produce, Enqueue, Committed, Poison, Invalidate,
         Rebuild, RootCommitted, Recovered, Fail
    <3>3. pc'[w] \notin {"idle", "done"}
      BY <3>1, <1>6, <2>1, <2>3 DEF TypeOK, Step, Take, Resume, HandleFails, HandleStale,
         HandleStages, Produce, Committed, Poison, Invalidate, Rebuild, RootCommitted,
         Recovered, Go
    <3> QED
      BY <3>2, <3>3, <2>1, <2>3
  <2> QED
    BY <2>2, <2>3
<1> QED
  BY <1>3, <1>4, <1>6

(* A node enters the queue when it is first produced and leaves it when it  *)
(* is taken; no step loses it in between.                                   *)
LEMMA NextAccounted ==
  ASSUME TypeOK, LocalsAgree, Accounted, NEW w \in Worker, Step(w)
  PROVE  Accounted'
<1> USE GrammarAssumption DEF TypeOK, Accounted
<1>1. CASE Take(w)
  <2>1. Elements(queue) = Elements(queue') \cup {Head(queue)}
    BY <1>1, TakeFront DEF Take
  <2>2. taken' = taken \cup {Head(queue)} /\ UNCHANGED <<produced, pending>>
    BY <1>1 DEF Take
  <2> QED
    BY <2>1, <2>2
<1>2. CASE Produce(w)
  <2>1. pending[w] = {}
    BY <1>2 DEF Produce, LocalsAgree
  <2>2. /\ produced' = produced \cup New(w)
        /\ pending' = [pending EXCEPT ![w] = New(w) \ Leaf]
        /\ UNCHANGED <<queue, taken>>
    BY <1>2 DEF Produce, history
  <2>3. \A v \in Worker : pending[v] \subseteq pending'[v]
    BY <2>1, <2>2
  <2>4. \A v \in Worker : pending'[v] \subseteq produced'
    BY <2>2
  <2>5. \A n \in New(w) \ Leaf : n \in pending'[w]
    BY <2>2
  <2> QED
    BY <2>2, <2>3, <2>4, <2>5
<1>3. CASE Enqueue(w)
  <2>1. PICK n \in pending[w] : /\ queue' = Append(queue, n)
                                /\ pending' = [pending EXCEPT ![w] = @ \ {n}]
    BY <1>3 DEF Enqueue
  <2>2. Elements(queue') = Elements(queue) \cup {n}
    <3>1. n \in Node \ Leaf /\ queue \in Seq(Node \ Leaf)
      OBVIOUS
    <3> QED
      BY ONLY <2>1, <3>1, PushBackOf
  <2>3. UNCHANGED <<taken, produced>>
    BY <1>3 DEF Enqueue, history
  <2> QED
    BY <2>1, <2>2, <2>3
<1>4. ASSUME ~ Take(w), ~ Produce(w), ~ Enqueue(w) PROVE Accounted'
  <2>1. UNCHANGED <<queue, taken, produced, pending>>
    BY <1>4 DEF Step, FindNothing, Resume, Idle, HandleFails, HandleStale, HandleStages,
       Committed, Poison, Invalidate, Rebuild, RootCommitted, Recovered, Fail, shared,
       history
  <2> QED
    BY <2>1
<1> QED
  BY <1>1, <1>2, <1>3, <1>4

(* A node stays in one place: what a commit pushes is new, because produced *)
(* covers all that was ever queued or taken, and what a worker takes leaves *)
(* the queue.                                                               *)
LEMMA NextOnce ==
  ASSUME TypeOK, LocalsAgree, Accounted, NoNodeTwice, NEW w \in Worker, Step(w)
  PROVE  NoNodeTwice'
<1> USE GrammarAssumption DEF TypeOK, NoNodeTwice
<1>1. CASE Take(w)
  <2>1. /\ Elements(queue) = Elements(queue') \cup {Head(queue)}
        /\ NoRepeats(queue')
        /\ Head(queue) \notin Elements(queue')
    BY <1>1, TakeFront DEF Take
  <2>2. /\ taken' = taken \cup {Head(queue)}
        /\ node' = [node EXCEPT ![w] = Head(queue)]
        /\ pending' = pending
    BY <1>1 DEF Take
  <2>3. Head(queue) \notin taken /\ \A v \in Worker : node[v] # Head(queue)
    <3>1. Head(queue) \in Node
      BY <1>1, TakeFront DEF Take
    <3> QED
      BY <2>1, <3>1 DEF LocalsAgree
  <2>4. \A v \in Worker : pending'[v] \cap (Elements(queue') \cup taken') = {}
    BY <2>1, <2>2
  <2>5. \A u, v \in Worker : node'[u] = node'[v] /\ node'[u] # NULL => u = v
    BY <2>2, <2>3
  <2> QED
    BY <2>1, <2>2, <2>3, <2>4, <2>5
<1>2. CASE Produce(w)
  <2>1. /\ pending' = [pending EXCEPT ![w] = New(w) \ Leaf]
        /\ UNCHANGED <<queue, taken, node>>
    BY <1>2 DEF Produce, history
  <2>2. New(w) \cap produced = {}
    BY DEF New
  <2>3. New(w) \cap (Elements(queue) \cup taken) = {}
        /\ \A v \in Worker : New(w) \cap pending[v] = {}
    BY <2>2 DEF Accounted
  <2> QED
    BY <2>1, <2>3
<1>3. CASE Enqueue(w)
  <2>1. PICK n \in pending[w] : /\ queue' = Append(queue, n)
                                /\ pending' = [pending EXCEPT ![w] = @ \ {n}]
    BY <1>3 DEF Enqueue
  <2>2. n \notin Elements(queue) /\ n \notin taken
        /\ \A v \in Worker \ {w} : n \notin pending[v]
    BY <2>1
  <2>3. Elements(queue') = Elements(queue) \cup {n} /\ NoRepeats(queue')
    BY <2>1, <2>2, PushBackOf
  <2>4. UNCHANGED <<taken, node>>
    BY <1>3 DEF Enqueue, history
  <2>5. /\ Elements(queue') \cap taken = {}
        /\ \A v \in Worker : pending'[v] \cap (Elements(queue') \cup taken) = {}
        /\ \A u, v \in Worker : u # v => pending'[u] \cap pending'[v] = {}
    BY <2>1, <2>2, <2>3
  <2> QED
    BY <2>3, <2>4, <2>5
<1>4. ASSUME ~ Take(w), ~ Produce(w), ~ Enqueue(w) PROVE NoNodeTwice'
  <2>1. UNCHANGED <<queue, taken, pending>>
    BY <1>4 DEF Step, FindNothing, Resume, Idle, HandleFails, HandleStale, HandleStages,
       Committed, Poison, Invalidate, Rebuild, RootCommitted, Recovered, Fail, shared,
       history
  <2>2. node' = node \/ node' = [node EXCEPT ![w] = NULL]
    BY <1>4 DEF Step, FindNothing, Resume, Idle, HandleFails, HandleStale, HandleStages,
       Committed, Poison, Invalidate, Rebuild, RootCommitted, Recovered, Fail
  <2> QED
    BY <2>1, <2>2
<1> QED
  BY <1>1, <1>2, <1>3, <1>4

(* The graph of a valid root stays closed but for the nodes in hand.        *)
LEMMA NextClosed ==
  ASSUME TypeOK, LocalsAgree, NoNodeTwice, Closed, NEW w \in Worker, Step(w)
  PROVE  Closed'
<1> USE GrammarAssumption DEF TypeOK
<1>1. SUFFICES ASSUME (FailedWorkers = {})', NEW n \in taken',
                      ~ (Root[n] \in invalid)', ~ (Successors[n] \subseteq produced)'
               PROVE  \E v \in Worker : Covers(v, n)'
  BY DEF Closed
<1> USE DEF Covers
<1>2. FailedWorkers = {} /\ ~ Fail(w)
  <2>1. \A v \in Worker : result[v] = "failed" => result'[v] = "failed"
    BY DEF LocalsAgree, Step, Take, FindNothing, Resume, Idle, HandleFails,
       HandleStale, HandleStages, Produce, Enqueue, Committed, Poison, Invalidate, Rebuild,
       RootCommitted, Recovered, Fail, Return
  <2>2. Fail(w) => result'[w] = "failed"
    BY DEF Fail, Return
  <2> QED
    BY <1>1, <2>1, <2>2 DEF FailedWorkers
<1>3. invalid \subseteq invalid' /\ produced \subseteq produced'
  BY DEF Step, Take, FindNothing, Resume, Idle, HandleFails, HandleStale, HandleStages,
     Produce, Enqueue, Committed, Poison, Invalidate, Rebuild, RootCommitted, Recovered,
     Fail, shared
<1>4. CASE n \notin taken
  <2>1. CASE Take(w)
    <3>1. n = Head(queue)
      BY <1>1, <1>4, <2>1 DEF Take
    <3>2. node'[w] = n /\ pc'[w] \in {"took", "handle"}
      BY <2>1, <3>1 DEF Take, Go
    <3> QED
      BY <3>2
  <2>2. CASE ~ Take(w)
    <3>1. taken' = taken
      BY <2>2 DEF Step, FindNothing, Resume, Idle, HandleFails, HandleStale, HandleStages,
         Produce, Enqueue, Committed, Poison, Invalidate, Rebuild, RootCommitted,
         Recovered, Fail, history
    <3> QED
      BY <3>1, <1>1, <1>4
  <2> QED
    BY <2>1, <2>2
<1>5. CASE n \in taken
  <2>1. PICK v \in Worker : Covers(v, n)
    <3>1. Root[n] \notin invalid /\ ~ (Successors[n] \subseteq produced)
      BY <1>1, <1>3
    <3> QED
      BY <1>2, <1>5, <3>1 DEF Closed
  <2>2. CASE v # w
    <3>1. node'[v] = node[v] /\ pc'[v] = pc[v] /\ staged'[v] = staged[v]
      BY <2>2 DEF Step, Take, FindNothing, Resume, Idle, HandleFails, HandleStale,
         HandleStages, Produce, Enqueue, Committed, Poison, Invalidate, Rebuild,
         RootCommitted, Recovered, Fail, Return, Go
    <3> QED
      BY <2>1, <3>1
  <2>3. CASE v = w
    <3>1. CASE Resume(w) \/ HandleFails(w)
      <4>1. node'[w] = node[w] /\ pc'[w] \in {"handle", "fail"}
        BY <3>1 DEF Resume, HandleFails, Go
      <4> QED
        BY <4>1, <2>1, <2>3
    <3>2. CASE HandleStale(w)
      BY <3>2, <2>1, <2>3, <1>1, <1>3 DEF HandleStale
    <3>3. CASE HandleStages(w)
      <4>1. staged'[w] = WithScanners(Successors[n]) /\ pc'[w] = "produce" /\ node'[w] = n
        BY <3>3, <2>1, <2>3 DEF HandleStages, Go
      <4> QED
        BY <4>1 DEF WithScanners
    <3>4. CASE Produce(w)
      <4>1. Successors[n] \subseteq staged[w]
        BY <3>4, <2>1, <2>3 DEF Produce
      <4>2. staged[w] \subseteq produced'
        BY <3>4 DEF Produce, New
      <4> QED
        BY <4>1, <4>2, <1>1
    <3> QED
      BY <3>1, <3>2, <3>3, <3>4, <2>1, <2>3, <1>2 DEF Step, Take, FindNothing, Idle,
         Enqueue, Committed, Poison, Invalidate, Rebuild, RootCommitted, Recovered
  <2> QED
    BY <2>2, <2>3
<1> QED
  BY <1>4, <1>5

------------------------------------------------------------------------------
(* The locals of a recovery: a worker has roots to restart only while it is *)
(* recovering, and it recovers from the failure of no entry point.          *)
LEMMA NextRecovery ==
  ASSUME TypeOK, LocalsAgree, RecoveryAgrees, NEW w \in Worker, Step(w)
  PROVE  RecoveryAgrees'
<1> USE GrammarAssumption DEF TypeOK, RecoveryAgrees, Go, Return, Failed
<1>1. CASE Take(w)
  BY <1>1 DEF Take
<1>2. CASE FindNothing(w)
  BY <1>2 DEF FindNothing
<1>3. CASE Resume(w)
  BY <1>3 DEF Resume
<1>4. CASE Idle(w)
  BY <1>4 DEF Idle
<1>5. CASE HandleFails(w)
  BY <1>5 DEF HandleFails
<1>6. CASE HandleStale(w)
  BY <1>6 DEF HandleStale
<1>7. CASE HandleStages(w)
  BY <1>7 DEF HandleStages
<1>8. CASE Produce(w)
  BY <1>8 DEF Produce
<1>9. CASE Enqueue(w)
  BY <1>9 DEF Enqueue
<1>10. CASE Committed(w)
  BY <1>10 DEF Committed
<1>11. CASE Poison(w)
  BY <1>11 DEF Poison
<1>12. CASE Invalidate(w)
  BY <1>12 DEF Invalidate
<1>13. CASE Rebuild(w)
  BY <1>13 DEF Rebuild
<1>14. CASE RootCommitted(w)
  BY <1>14 DEF RootCommitted
<1>15. CASE Recovered(w)
  BY <1>15 DEF Recovered
<1>16. CASE Fail(w)
  BY <1>16 DEF Fail
<1> QED
  BY <1>1, <1>2, <1>3, <1>4, <1>5, <1>6, <1>7, <1>8, <1>9, <1>10, <1>11, <1>12, <1>13,
     <1>14, <1>15, <1>16 DEF Step

(* Nothing that happens makes an abandoned graph wanted again, or takes a   *)
(* restarted one back, as long as no failed worker comes out of its         *)
(* recovery and what was staged is produced.                                *)
LEMMA KeepsRecoverable ==
  ASSUME Recoverable, invalid' = invalid,
         Failing => Failing',
         \A x \in NonTerm : Abandoned(x) => Abandoned(x)',
         \A x \in NonTerm : Restarted(x) => Restarted(x)'
  PROVE  Recoverable'
BY DEF Recoverable

(* The recovery keeps a graph for whoever needs one: a graph is only        *)
(* invalidated together with those that call it, and each of these is       *)
(* started again in the fallback version.                                   *)
LEMMA NextRecoverable ==
  ASSUME TypeOK, LocalsAgree, RecoveryAgrees, Recoverable, NEW w \in Worker, Step(w)
  PROVE  Recoverable'
<1> USE GrammarAssumption DEF TypeOK, Go, Return
<1>a. ASSUME invalid' = invalid, produced' = produced, staged' = staged, rebuild' = rebuild,
             \A v \in Worker : pc[v] = "invalidate" => pc'[v] = "invalidate" /\ node'[v] = node[v],
             \A v \in Worker : pc[v] = "fail" => pc'[v] = "fail",
             \A v \in Worker : result[v] = "failed" => result'[v] = "failed"
      PROVE  Recoverable'
  <2>1. Failing => Failing'
    BY <1>a DEF Failing
  <2>2. ASSUME NEW x \in NonTerm, Abandoned(x) PROVE Abandoned(x)'
    BY <1>a, <2>2 DEF Abandoned, Failed
  <2>3. ASSUME NEW x \in NonTerm, Restarted(x) PROVE Restarted(x)'
    BY <1>a, <2>3 DEF Restarted
  <2> QED
    BY <1>a, <2>1, <2>2, <2>3, KeepsRecoverable
<1>1. CASE Take(w)
  BY <1>1, <1>a DEF Take, LocalsAgree
<1>2. CASE FindNothing(w)
  BY <1>2, <1>a DEF FindNothing, shared, LocalsAgree
<1>3. CASE Resume(w)
  BY <1>3, <1>a DEF Resume, LocalsAgree
<1>4. CASE Idle(w)
  BY <1>4, <1>a DEF Idle, LocalsAgree
<1>5. CASE HandleFails(w)
  BY <1>5, <1>a DEF HandleFails, shared, LocalsAgree
<1>6. CASE HandleStale(w)
  BY <1>6, <1>a DEF HandleStale, shared, LocalsAgree
<1>9. CASE Enqueue(w)
  BY <1>9, <1>a DEF Enqueue, LocalsAgree
<1>10. CASE Committed(w)
  BY <1>10, <1>a DEF Committed, shared, LocalsAgree
<1>14. CASE RootCommitted(w)
  BY <1>14, <1>a DEF RootCommitted, shared, LocalsAgree
<1>15. CASE Recovered(w)
  BY <1>15, <1>a DEF Recovered, shared, LocalsAgree
<1>b. ASSUME invalid' = invalid, pc[w] # "fail", pc[w] # "invalidate",
             pc' = [pc EXCEPT ![w] = pc'[w]], node' = node, result' = result,
             \A x \in NonTerm : Restarted(x) => Restarted(x)'
      PROVE  Recoverable'
  <2>1. Failing => Failing'
    BY <1>b DEF Failing
  <2>2. ASSUME NEW x \in NonTerm, Abandoned(x) PROVE Abandoned(x)'
    BY <1>b, <2>2 DEF Abandoned, Failed
  <2> QED
    BY <1>b, <2>1, <2>2, KeepsRecoverable
<1>7. CASE HandleStages(w)
  <2>1. ASSUME NEW x \in NonTerm, Restarted(x) PROVE Restarted(x)'
    BY <1>7, <2>1 DEF HandleStages, shared, Restarted, RecoveryAgrees
  <2> QED
    BY <1>7, <1>b, <2>1 DEF HandleStages, shared
<1>8. CASE Produce(w)
  <2>1. ASSUME NEW x \in NonTerm, Restarted(x) PROVE Restarted(x)'
    BY <1>8, <2>1 DEF Produce, New, Restarted
  <2> QED
    BY <1>8, <1>b, <2>1 DEF Produce
<1>13. CASE Rebuild(w)
  <2>1. ASSUME NEW x \in NonTerm, Restarted(x) PROVE Restarted(x)'
    BY <1>13, <2>1 DEF Rebuild, shared, Restarted, RecoveryAgrees, WithScanners
  <2> QED
    BY <1>13, <1>b, <2>1 DEF Rebuild, shared
<1>16. CASE Fail(w)
  <2>1. Failing'
    BY <1>16 DEF Fail, Failing
  <2> QED
    BY <2>1 DEF Recoverable
<1>11. CASE Poison(w)
  <2>1. CASE pc'[w] = "fail"
    BY <2>1 DEF Recoverable, Failing
  <2>2. CASE pc'[w] # "fail"
    <3> DEFINE r == Root[node[w]]
    <3>1. /\ pc[w] = "poison" /\ node' = node /\ produced' = produced /\ staged' = staged
          /\ rebuild' = rebuild /\ result' = result /\ invalid' = invalid \cup {r}
          /\ pc' = [pc EXCEPT ![w] = "invalidate"]
          /\ NonTermOf[r] \notin Entry
      BY <1>11, <2>2 DEF Poison, Failed
    <3>2. Failing => Failing'
      BY <3>1 DEF Failing
    <3>3. ASSUME NEW x \in NonTerm, Abandoned(x) PROVE Abandoned(x)'
      BY <3>1, <3>3 DEF Abandoned, Failed
    <3>4. ASSUME NEW x \in NonTerm, Restarted(x) PROVE Restarted(x)'
      BY <3>1, <3>4 DEF Restarted
    <3>5. ASSUME NEW x \in NonTerm, NormalRoot[x] = r \/ FallbackRoot[x] = r
          PROVE  Abandoned(x)'
      <4>1. NonTermOf[r] = x
        BY <3>5, RootsAssumption
      <4>2. Failed(w)' = x /\ pc'[w] = "invalidate" /\ x \notin Entry
        BY <3>1, <4>1 DEF Failed
      <4> QED
        BY <4>2 DEF Abandoned
    <3> HIDE DEF r
    <3> QED
      BY <3>1, <3>2, <3>3, <3>4, <3>5 DEF Recoverable
  <2> QED
    BY <2>1, <2>2
<1>12. CASE Invalidate(w)
  <2>0. PICK F : F = Failed(w)
    OBVIOUS
  <2>1. /\ pc[w] = "invalidate" /\ node' = node /\ produced' = produced /\ staged' = staged
        /\ rebuild' = [rebuild EXCEPT ![w] = Predecessors[F]]
        /\ pc' = [pc EXCEPT ![w] = "rebuild"] /\ result' = result
        /\ invalid' = invalid \cup {NormalRoot[x] : x \in Predecessors[F] \cup {F}}
    BY <1>12, <2>0 DEF Invalidate
  <2>2. Failing => Failing'
    BY <2>1 DEF Failing
  <2>3. F \notin Entry /\ rebuild[w] = {}
    BY <2>1, <2>0 DEF RecoveryAgrees
  <2>4. F \in NonTerm
    BY <2>1, <2>0 DEF LocalsAgree, Failed
  <2>5. Abandoned(F)'
    BY <2>1, <2>3 DEF Abandoned
  <2>6. ASSUME NEW x \in NonTerm, Abandoned(x) PROVE Abandoned(x)'
    BY <2>1, <2>5, <2>6, <2>0 DEF Abandoned, Failed
  <2>7. ASSUME NEW x \in NonTerm, Restarted(x) PROVE Restarted(x)'
    BY <2>1, <2>3, <2>7 DEF Restarted
  <2>8. ASSUME NEW x \in Predecessors[F] PROVE Restarted(x)'
    BY <2>1, <2>8 DEF Restarted
  <2>9. ASSUME NEW x \in NonTerm, NormalRoot[x] \in invalid'
        PROVE  \/ NormalRoot[x] \in invalid
               \/ x \in Predecessors[F] \cup {F}
    <3>1. \A y \in Predecessors[F] \cup {F} : y \in NonTerm /\ NonTermOf[NormalRoot[y]] = y
      BY <2>4, RootsAssumption
    <3> QED
      BY <2>1, <2>9, <3>1, RootsAssumption
  <2>10. ASSUME NEW x \in NonTerm, FallbackRoot[x] \in invalid'
         PROVE  FallbackRoot[x] \in invalid
    BY <2>1, <2>4, <2>10, RootsAssumption
  <2> QED
    BY <2>2, <2>5, <2>6, <2>7, <2>8, <2>9, <2>10 DEF Recoverable
<1> QED
  BY <1>1, <1>2, <1>3, <1>4, <1>5, <1>6, <1>7, <1>8, <1>9, <1>10, <1>11, <1>12, <1>13,
     <1>14, <1>15, <1>16 DEF Step

------------------------------------------------------------------------------
(* Every step of every worker keeps the invariant: the lemmas above, put    *)
(* together.                                                                *)
LEMMA NextInv == Inv /\ [Next]_vars => Inv'
<1> SUFFICES ASSUME Inv, [Next]_vars PROVE Inv'
  OBVIOUS
<1> USE DEF Inv, Inductive
<1>1. ASSUME NEW w \in Worker, Step(w) PROVE Inv'
  BY <1>1, NextType, NextLocals, NextTracker, NextActive, NextAccounted, NextOnce,
     NextClosed, NextRecovery, NextRecoverable
<1>2. CASE UNCHANGED vars
  <2>1. TypeOK'
    BY <1>2 DEF vars, shared, local, history, TypeOK
  <2>2. LocalsAgree' /\ TrackerExact' /\ SomeoneActive'
    BY <1>2 DEF vars, shared, local, history, LocalsAgree, TrackerExact, SomeoneActive,
       Waiting, FailedWorkers
  <2>3. Accounted' /\ NoNodeTwice' /\ Closed'
    BY <1>2 DEF vars, shared, local, history, Accounted, NoNodeTwice, Closed, FailedWorkers,
       Covers
  <2>4. RecoveryAgrees' /\ Recoverable'
    BY <1>2 DEF vars, shared, local, history, RecoveryAgrees, Failed, Recoverable, Failing,
       Abandoned, Restarted
  <2> QED
    BY <2>1, <2>2, <2>3, <2>4
<1> QED
  BY <1>1, <1>2 DEF Next

(* The state of the build is well typed and inductively invariant.          *)
THEOREM BuildInvariant == Spec => []Inv
<1> QED
  BY InitInv, NextInv, PTL DEF Spec

(* The queue, the tracker and the locals of the workers keep their types,   *)
(* whatever the workers and the grammar.                                    *)
THEOREM BuildTypes == Spec => []TypeOK
<1>1. Inv => TypeOK
  BY DEF Inv
<1> QED
  BY <1>1, BuildInvariant, PTL

(* sync_tracker always counts the waiting workers exactly, and N + 1 for    *)
(* each failed one, whatever the interleaving of its updates.               *)
THEOREM TrackerIsExact == Spec => []TrackerExact
<1>1. Inv => TrackerExact
  BY DEF Inv, Inductive
<1> QED
  BY <1>1, BuildInvariant, PTL

(* No node is queued twice or processed twice.                              *)
THEOREM EachNodeOnce == Spec => []NoNodeTwice
<1>1. Inv => NoNodeTwice
  BY DEF Inv, Inductive
<1> QED
  BY <1>1, BuildInvariant, PTL

(* When every worker returned Ok, the queue is empty, every produced node   *)
(* was processed, and the graph of every valid root is closed.              *)
THEOREM NothingLeftBehind == Spec => []WorkComplete
<1>1. ASSUME Inv, Succeeded
      PROVE  /\ queue = <<>>
             /\ produced \ Leaf \subseteq taken
             /\ \A n \in taken : Root[n] \notin invalid => Successors[n] \subseteq produced
  <2> USE <1>1, GrammarAssumption DEF Inv, Inductive
  <2>1. FailedWorkers = {} /\ \A w \in Worker : pc[w] = "done"
    BY DEF Succeeded, Done, FailedWorkers
  <2>2. queue = <<>>
    BY <2>1 DEF SomeoneActive
  <2>3. Elements(queue) = {} /\ \A w \in Worker : pending[w] = {}
    BY <2>1, <2>2 DEF Elements, LocalsAgree
  <2>4. produced \ Leaf \subseteq taken
    BY <2>3 DEF Accounted
  <2>5. \A n \in taken : Root[n] \notin invalid => Successors[n] \subseteq produced
    BY <2>1 DEF Closed, Covers
  <2> QED
    BY <2>2, <2>4, <2>5
<1>2. Inv => WorkComplete
  BY <1>1 DEF WorkComplete
<1> QED
  BY <1>2, BuildInvariant, PTL

(* Once a worker has failed, no other worker reports success: the tracker   *)
(* stays above the number of workers forever.                               *)
THEOREM FailureIsFinal == Spec => NoOkAfterFailure
<1>1. ASSUME Inv, [Next]_vars, FailedWorkers # {}, NEW v \in Worker, result'[v] = "ok"
      PROVE  result[v] = "ok"
  <2> USE GrammarAssumption DEF Inv, Inductive, TypeOK
  <2>1. FailedWorkers \in SUBSET Worker /\ Waiting \in SUBSET Worker
    BY DEF FailedWorkers, Waiting
  <2>2. /\ Cardinality(FailedWorkers) \in Nat /\ Cardinality(FailedWorkers) > 0
        /\ Cardinality(Waiting) \in Nat /\ N \in Nat
    BY <1>1, <2>1, Counts
  <2>3. sync_tracker > N
    <3>1. (N + 1) * Cardinality(FailedWorkers) >= N + 1
      <4> DEFINE c == Cardinality(FailedWorkers) - 1
      <4>1. c \in Nat /\ Cardinality(FailedWorkers) = c + 1
        BY <2>2
      <4>2. (N + 1) * c \in Nat
        BY <4>1, <2>2
      <4>3. (N + 1) * (c + 1) = (N + 1) * c + (N + 1)
        BY ONLY <4>1, <2>2
      <4> QED
        BY <4>1, <4>2, <4>3, <2>2
    <3>2. (N + 1) * Cardinality(FailedWorkers) \in Nat
      BY <2>2
    <3>3. sync_tracker = Cardinality(Waiting) + (N + 1) * Cardinality(FailedWorkers)
      BY <1>1 DEF TrackerExact
    <3> QED
      BY <3>1, <3>2, <3>3, <2>2
  <2>4. ASSUME NEW w \in Worker, Step(w), result[v] # "ok" PROVE FALSE
    <3>1. CASE Idle(w)
      <4>1. sync_tracker' \in Nat /\ sync_tracker' > N
        BY <1>1, <2>2, <2>3, <3>1 DEF Idle
      <4>2. result' = [result EXCEPT ![w] = "halted"]
        BY <3>1, <4>1, <2>2 DEF Idle, Return
      <4> QED
        BY <1>1, <2>4, <4>2
    <3>2. CASE Fail(w)
      BY <1>1, <2>4, <3>2 DEF Fail, Return
    <3>3. ASSUME ~ Idle(w), ~ Fail(w) PROVE result' = result
      BY <2>4, <3>3 DEF Step, Take, FindNothing, Resume, HandleFails, HandleStale,
         HandleStages, Produce, Enqueue, Committed, Poison, Invalidate, Rebuild,
         RootCommitted, Recovered
    <3> QED
      BY <1>1, <2>4, <3>1, <3>2, <3>3
  <2> QED
    BY <1>1, <2>4 DEF Next, vars, local
<1>2. Inv /\ [Next]_vars =>
        [FailedWorkers # {} =>
           \A w \in Worker : result'[w] = "ok" => result[w] = "ok"]_vars
  BY <1>1
<1> QED
  BY <1>2, BuildInvariant, PTL DEF Spec, NoOkAfterFailure

(* What a finished build knows of the graphs: nobody is about to invalidate *)
(* or to restart one.                                                       *)
LEMMA RecoveryDone ==
  ASSUME Inv, Succeeded, NEW x \in NonTerm
  PROVE  /\ NormalRoot[x] \in invalid => Abandoned(x) \/ FallbackRoot[x] \in produced
         /\ FallbackRoot[x] \in invalid => Abandoned(x)
         /\ Abandoned(x) => /\ x \notin Entry
                            /\ \A y \in Predecessors[x] : NormalRoot[y] \in invalid
<1>1. \A w \in Worker : pc[w] = "done" /\ result[w] = "ok"
  BY DEF Succeeded, Done
<1>2. ~ Failing
  BY <1>1 DEF Failing
<1>3. \A w \in Worker : staged[w] = {} /\ rebuild[w] = {}
  BY <1>1 DEF Inv, Inductive, RecoveryAgrees
<1>4. Restarted(x) => FallbackRoot[x] \in produced
  BY <1>3 DEF Restarted
<1> QED
  BY <1>1, <1>2, <1>4 DEF Inv, Inductive, Recoverable, Abandoned

(* A build that returned Ok left every entry point a parser: when its       *)
(* normal graph was invalidated, by the failed peek of another              *)
(* non-terminal, its fallback graph was started and is still valid.         *)
THEOREM EntriesKept == Spec => []EntriesHaveParser
<1>1. ASSUME Inv, Succeeded, NEW x \in Entry PROVE HasParser(x)
  <2>1. x \in NonTerm
    BY GrammarAssumption
  <2> QED
    BY <1>1, <2>1, RecoveryDone DEF HasParser
<1>2. Inv => EntriesHaveParser
  BY <1>1 DEF EntriesHaveParser
<1> QED
  BY <1>2, BuildInvariant, PTL

(* A normal graph that is still valid when the build returned Ok calls only *)
(* non-terminals that have a parser: build_states.rs invalidates the        *)
(* callers of whatever it drops, in whichever order the peeks fail.         *)
THEOREM CallsAnswered == Spec => []CallsResolve
<1>1. ASSUME Inv, Succeeded, NEW x \in NonTerm, NEW y \in Predecessors[x],
             NormalRoot[y] \notin invalid
      PROVE  HasParser(x)
  BY <1>1, RecoveryDone DEF HasParser
<1>2. Inv => CallsResolve
  BY <1>1 DEF CallsResolve
<1> QED
  BY <1>2, BuildInvariant, PTL
==============================================================================
