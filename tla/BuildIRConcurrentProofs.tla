------------------------ MODULE BuildIRConcurrentProofs ------------------------
(***************************************************************************)
(* What BuildIRConcurrent promises, for every number of nodes and threads. *)
(*                                                                         *)
(* The argument: a pair of the shared map always comes from a valid node,  *)
(* and one name comes from one node, so that extending a map by such pairs *)
(* is their union (ExtendIsUnion); the chunks cover the nodes (Covered);   *)
(* and what a thread has seen of the shared classification is a part of it *)
(* from then on, so that no flag is lost or made up.                       *)
(***************************************************************************)
EXTENDS BuildIRConcurrent, TLAPS

Pairs(S) == UNION {Names[i] \X {i} : i \in S}
Wrote    == {t \in Thread : pc[t] \in {"class", "end", "ok"}}
Classed  == {t \in Thread : pc[t] \in {"end", "ok"}}
Merged   == UNION {Pairs(Mine(t)) : t \in Wrote}

\* What the threads have done so far is what the shared values hold.
StatesSoFar == main \in {"run", "unwrap", "extras"} => states = Merged
ClassSoFar  == class = UNION {FlagsOf(t) : t \in Classed}

\* What a thread holds and what it let go of.
JobOf(t) ==
  /\ pc[t] \in {"ok", "err"} => t \notin owners
  /\ pc[t] \in {"states", "class", "end", "ok"} => Mine(t) \cap faulty = {}
  /\ seen[t] \subseteq class \cup FlagsOf(t)
  /\ pc[t] \in {"start", "build"} => seen[t] \subseteq class
  /\ pc[t] \in {"states", "class"} => FlagsOf(t) \subseteq seen[t]

Caller ==
  /\ main # "run" => \A t \in Thread : pc[t] \in {"ok", "err"}
  /\ main \in {"unwrap", "extras", "done"} => \A t \in Thread : pc[t] = "ok"
  /\ main # "panicked"
  /\ main = "done" => states = Translated

IInv == TypeOK /\ StatesSoFar /\ ClassSoFar /\ (\A t \in Thread : JobOf(t)) /\ Caller

---------------------------------------------------------------------------
(* The chunks.                                                             *)

LEMMA Division ==
  ASSUME NEW a \in Nat, NEW b \in Nat \ {0}
  PROVE  /\ a \div b \in Nat
         /\ b * (a \div b) <= a
         /\ a < b * (a \div b) + b
  OBVIOUS

LEMMA Covered == \A i \in Valid : \E t \in Thread : i \in Mine(t)
<1> SUFFICES ASSUME NEW i \in Valid
             PROVE  \E t \in Thread : i \in Mine(t)
  OBVIOUS
<1>1. i \in Nat /\ i < N /\ N \in Nat /\ T \in Nat \ {0}
  BY SizesAssumption DEF Valid, Index
<1>2. ChunkSize \in Nat /\ N + T - 1 < T * ChunkSize + T
  BY <1>1, Division DEF ChunkSize
<1>3. N <= T * ChunkSize
  <2>1. T * ChunkSize \in Nat
    BY <1>1, <1>2
  <2> QED  BY <1>1, <1>2, <2>1
<1>4. ChunkSize \in Nat \ {0}
  BY <1>1, <1>2, <1>3
<1>5. PICK t \in Nat : ChunkSize * t <= i /\ i < ChunkSize * t + ChunkSize
  BY <1>1, <1>4, Division
<1>6. t < T
  <2> SUFFICES ASSUME T <= t  PROVE FALSE
    BY <1>1, <1>5
  <2>1. ChunkSize * T <= ChunkSize * t
    BY <1>1, <1>4, <1>5
  <2>2. ChunkSize * T = T * ChunkSize
    BY <1>1, <1>4
  <2>3. ChunkSize * T \in Nat /\ ChunkSize * t \in Nat
    BY <1>1, <1>4, <1>5
  <2> QED  BY <1>1, <1>3, <1>5, <2>1, <2>2, <2>3
<1>7. t \in Thread /\ i \in Mine(t)
  BY <1>1, <1>5, <1>6 DEF Thread, Mine, InChunk
<1> QED  BY <1>7

---------------------------------------------------------------------------
(* The maps.                                                               *)

LEMMA MineIsValid == \A t : Mine(t) \subseteq Valid
  BY DEF Mine

LEMMA PairOf ==
  ASSUME NEW S, NEW p \in Pairs(S)
  PROVE  \E i \in S : p[2] = i /\ p[1] \in Names[i] /\ p = <<p[1], i>>
  BY DEF Pairs

LEMMA LocalIsPairs == ASSUME NEW t \in Thread PROVE Local(t) = Pairs(Mine(t))
<1>1. ASSUME NEW i \in Mine(t)
      PROVE  Names[i] \ UNION {Names[j] : j \in {j \in Mine(t) : j < i}} = Names[i]
  <2>1. \A j \in Mine(t) : j < i => Names[j] \cap Names[i] = {}
    <3> SUFFICES ASSUME NEW j \in Mine(t), j < i  PROVE Names[j] \cap Names[i] = {}
      OBVIOUS
    <3>1. i \in Valid /\ j \in Valid /\ i # j
      BY <1>1 DEF Mine, Valid, Index
    <3> QED  BY <3>1, OneStateAName
  <2> QED  BY <2>1
<1> QED  BY <1>1 DEF Local, Pairs

LEMMA ExtendIsUnion ==
  ASSUME NEW m, NEW new, m \subseteq Pairs(Valid), new \subseteq Pairs(Valid)
  PROVE  Extended(m, new) = m \cup new
<1>1. ASSUME NEW p \in m, NEW q \in new, q[1] = p[1]  PROVE p = q
  <2>1. PICK i \in Valid : p[1] \in Names[i] /\ p = <<p[1], i>>
    BY PairOf
  <2>2. PICK j \in Valid : q[1] \in Names[j] /\ q = <<q[1], j>>
    BY PairOf
  <2>3. i = j
    BY <1>1, <2>1, <2>2, OneStateAName
  <2> QED  BY <1>1, <2>1, <2>2, <2>3
<1>2. Extended(m, new) = {p \in m : \A q \in new : q[1] # p[1]} \cup new
  BY DEF Extended
<1> QED  BY <1>1, <1>2

LEMMA MergedIsValid == Merged \subseteq Pairs(Valid)
  BY MineIsValid DEF Merged, Pairs

LEMMA PairsTyped == Pairs(Valid) \subseteq Name \X (0 .. N)
<1> SUFFICES ASSUME NEW p \in Pairs(Valid)  PROVE p \in Name \X (0 .. N)
  OBVIOUS
<1>1. PICK i \in Valid : p[1] \in Names[i] /\ p = <<p[1], i>>
  BY PairOf
<1>2. i \in 0 .. N /\ p[1] \in Name
  BY <1>1, NodesAssumption, SizesAssumption DEF Valid, Index
<1> QED  BY <1>1, <1>2

LEMMA FlagsTyped == \A t : FlagsOf(t) \subseteq Flag
  BY NodesAssumption DEF FlagsOf, Mine, Valid

---------------------------------------------------------------------------
(* The invariant.                                                          *)

LEMMA InitInv == Init => IInv
  BY DEF Init, IInv, TypeOK, StatesSoFar, ClassSoFar, JobOf, Caller, Merged, Wrote, Classed

LEMMA JobRuns == ASSUME IInv, NEW t \in Thread, Job(t) PROVE main = "run"
<1>1. pc[t] \notin {"ok", "err"}
  BY DEF Job, ReadClassification, Build, WriteStates, WriteClassification, Drop, Answer
<1> QED  BY <1>1 DEF IInv, Caller

LEMMA JobInv == ASSUME IInv, NEW t \in Thread, Job(t) PROVE IInv'
<1> USE DEF IInv, TypeOK
<1>0. main = "run" /\ main' = main /\ faulty' = faulty
  BY JobRuns DEF Job, ReadClassification, Build, WriteStates, WriteClassification, Drop, Answer
<1>c. Caller'
  BY <1>0 DEF Caller
<1>1. CASE ReadClassification(t)
  <2> USE <1>1 DEF ReadClassification
  <2>1. TypeOK'
    OBVIOUS
  <2>2. StatesSoFar'
    BY DEF StatesSoFar, Merged, Wrote
  <2>3. ClassSoFar'
    BY DEF ClassSoFar, Classed
  <2>4. \A u \in Thread : JobOf(u)'
    BY DEF JobOf
  <2> QED  BY <1>c, <2>1, <2>2, <2>3, <2>4
<1>2. CASE Build(t)
  <2> USE <1>2 DEF Build
  <2>1. TypeOK'
    BY FlagsTyped
  <2>2. StatesSoFar'
    BY DEF StatesSoFar, Merged, Wrote
  <2>3. ClassSoFar'
    BY DEF ClassSoFar, Classed
  <2>4. \A u \in Thread : JobOf(u)'
    BY DEF JobOf
  <2> QED  BY <1>c, <2>1, <2>2, <2>3, <2>4
<1>3. CASE WriteStates(t)
  <2> USE <1>3 DEF WriteStates
  <2>0. states' = states \cup Pairs(Mine(t))
    <3>1. Pairs(Mine(t)) \subseteq Pairs(Valid)
      BY MineIsValid DEF Pairs
    <3>2. states \subseteq Pairs(Valid)
      BY <1>0, MergedIsValid DEF StatesSoFar
    <3> QED  BY <3>1, <3>2, LocalIsPairs, ExtendIsUnion
  <2>1. TypeOK'
    BY <2>0, PairsTyped, MineIsValid DEF Pairs
  <2>2. StatesSoFar'
    <3>1. Wrote' = Wrote \cup {t}
      BY DEF Wrote
    <3>2. Merged' = Merged \cup Pairs(Mine(t))
      BY <3>1 DEF Merged
    <3> QED  BY <1>0, <2>0, <3>2 DEF StatesSoFar
  <2>3. ClassSoFar'
    BY DEF ClassSoFar, Classed
  <2>4. \A u \in Thread : JobOf(u)'
    BY <1>0 DEF JobOf
  <2> QED  BY <1>c, <2>1, <2>2, <2>3, <2>4
<1>4. CASE WriteClassification(t)
  <2> USE <1>4 DEF WriteClassification
  <2>0. class' = class \cup FlagsOf(t)
    BY DEF JobOf
  <2>1. TypeOK'
    BY <2>0, FlagsTyped
  <2>2. StatesSoFar'
    BY DEF StatesSoFar, Merged, Wrote
  <2>3. ClassSoFar'
    <3>1. Classed' = Classed \cup {t}
      BY DEF Classed
    <3> QED  BY <2>0, <3>1 DEF ClassSoFar
  <2>4. \A u \in Thread : JobOf(u)'
    BY <1>0, <2>0 DEF JobOf
  <2> QED  BY <1>c, <2>1, <2>2, <2>3, <2>4
<1>5. CASE Drop(t)
  <2> USE <1>5 DEF Drop
  <2>1. TypeOK'
    OBVIOUS
  <2>2. StatesSoFar'
    BY DEF StatesSoFar, Merged, Wrote
  <2>3. ClassSoFar'
    BY DEF ClassSoFar, Classed
  <2>4. \A u \in Thread : JobOf(u)'
    BY <1>0 DEF JobOf
  <2> QED  BY <1>c, <2>1, <2>2, <2>3, <2>4
<1>6. CASE Answer(t)
  <2> USE <1>6 DEF Answer
  <2>1. TypeOK'
    OBVIOUS
  <2>2. StatesSoFar'
    BY DEF StatesSoFar, Merged, Wrote
  <2>3. ClassSoFar'
    BY DEF ClassSoFar, Classed
  <2>4. \A u \in Thread : JobOf(u)'
    BY <1>0 DEF JobOf
  <2> QED  BY <1>c, <2>1, <2>2, <2>3, <2>4
<1> QED  BY <1>1, <1>2, <1>3, <1>4, <1>5, <1>6 DEF Job

\* When every job has ended the chunks together are all the valid nodes.
LEMMA AllMerged ==
  ASSUME IInv, \A t \in Thread : pc[t] = "ok"
  PROVE  /\ Merged = Pairs(Valid)
         /\ class = UNION {Flags[i] : i \in Valid \ ScannerNode}
         /\ Valid \cap faulty = {}
<1>1. Wrote = Thread /\ Classed = Thread
  BY DEF Wrote, Classed
<1>2. Merged = Pairs(Valid)
  BY <1>1, Covered, MineIsValid DEF Merged, Pairs
<1>3. class = UNION {FlagsOf(t) : t \in Thread}
  BY <1>1 DEF IInv, ClassSoFar
<1>4. class = UNION {Flags[i] : i \in Valid \ ScannerNode}
  BY <1>3, Covered, MineIsValid DEF FlagsOf
<1>5. Valid \cap faulty = {}
  BY Covered DEF IInv, JobOf
<1> QED  BY <1>2, <1>4, <1>5

LEMMA CallerInv == ASSUME IInv, RunReturns \/ Unwrap \/ AddExtras PROVE IInv'
<1> USE DEF IInv, TypeOK
<1>1. CASE RunReturns
  <2> USE <1>1 DEF RunReturns
  <2>1. TypeOK' /\ Caller'
    BY DEF Caller
  <2>2. StatesSoFar' /\ ClassSoFar'
    BY DEF StatesSoFar, ClassSoFar, Merged, Wrote, Classed
  <2>3. \A u \in Thread : JobOf(u)'
    BY DEF JobOf
  <2> QED  BY <2>1, <2>2, <2>3
<1>2. CASE Unwrap
  <2> USE <1>2 DEF Unwrap
  <2>0. owners = {}
    BY DEF Caller, JobOf
  <2>1. TypeOK' /\ Caller'
    BY <2>0 DEF Caller
  <2>2. StatesSoFar' /\ ClassSoFar'
    BY DEF StatesSoFar, ClassSoFar, Merged, Wrote, Classed
  <2>3. \A u \in Thread : JobOf(u)'
    BY DEF JobOf
  <2> QED  BY <2>1, <2>2, <2>3
<1>3. CASE AddExtras
  <2> USE <1>3 DEF AddExtras
  <2>0. \A t \in Thread : pc[t] = "ok"
    BY DEF Caller
  <2>1. states = Pairs(Valid)
    BY <2>0, AllMerged DEF StatesSoFar
  <2>2. states' = Translated
    BY <2>1 DEF Translated, Pairs
  <2>3. states' \subseteq Name \X (0 .. N)
    <3>1. Extra \X {N} \subseteq Name \X (0 .. N)
      BY NodesAssumption, SizesAssumption
    <3> QED  BY <3>1, <2>1, PairsTyped DEF Extended
  <2>4. TypeOK' /\ Caller'
    BY <2>2, <2>3 DEF Caller
  <2>5. StatesSoFar' /\ ClassSoFar'
    BY DEF StatesSoFar, ClassSoFar, Classed
  <2>6. \A u \in Thread : JobOf(u)'
    BY DEF JobOf
  <2> QED  BY <2>4, <2>5, <2>6
<1> QED  BY <1>1, <1>2, <1>3

LEMMA StutterInv == IInv /\ UNCHANGED vars => IInv'
  BY DEF vars, IInv, TypeOK, StatesSoFar, ClassSoFar, JobOf, Caller, Merged, Wrote, Classed

LEMMA StepInv == IInv /\ [Next]_vars => IInv'
  BY JobInv, CallerInv, StutterInv DEF Next

LEMMA Invariance == Spec => []IInv
  BY InitInv, StepInv, PTL DEF Spec

---------------------------------------------------------------------------
\* build_ir_concurrent: the variables of the two locks and of the jobs keep their types.
THEOREM TypeCorrect == Spec => []TypeOK
<1>1. IInv => TypeOK
  BY DEF IInv
<1> QED  BY <1>1, Invariance, PTL

\* Arc::into_inner of the map and of the classification never meets a second owner:
\* neither expect of build_ir_concurrent can fail.
THEOREM OnlyOwner == Spec => []SoleOwner
<1>1. IInv => SoleOwner
  BY DEF IInv, TypeOK, Caller, JobOf, SoleOwner
<1> QED  BY <1>1, Invariance, PTL

\* Whatever the number of nodes and of threads, and in whatever order the jobs take
\* the two locks: the map and the classification are those of one thread that
\* translates every valid node, and there are none when a node failed.
THEOREM Sequential == Spec => []ResultIsSequential
<1>1. IInv => ResultIsSequential
  BY AllMerged DEF IInv, Caller, ResultIsSequential
<1> QED  BY <1>1, Invariance, PTL
=============================================================================
