--------------------------- MODULE WorkerPoolProofs ---------------------------
(***************************************************************************)
(* Proofs about WorkerPool, for any number of workers and of runs.  The    *)
(* argument is a count: collected responses and those on the channel are   *)
(* as many as the workers that have answered, so the run that collects     *)
(* Size of them has emptied the channel and heard of every worker.         *)
(***************************************************************************)
EXTENDS WorkerPool, FiniteSetTheorems, TLAPS

(* The workers, and the sets of them that responses are counted against.    *)
LEMMA Counts ==
  ASSUME NEW A \in SUBSET Ids
  PROVE  /\ Size \in Nat \ {0}
         /\ Cardinality(A) \in 0 .. Size
         /\ Cardinality(A) = Size => A = Ids
         /\ A = {} => Cardinality(A) = 0
         /\ \A w \in Ids \ A : Cardinality(A \cup {w}) = Cardinality(A) + 1
<1>1. Size \in Nat \ {0}
  BY PoolAssumption
<1>2. IsFiniteSet(Ids) /\ Cardinality(Ids) = Size
  <2>1. 0 \in Int /\ Size - 1 \in Int /\ 0 <= Size - 1 /\ (Size - 1) - 0 + 1 = Size
    BY <1>1
  <2> QED
    BY <2>1, FS_Interval DEF Ids
<1>3. IsFiniteSet(A) /\ Cardinality(A) <= Size /\ (Cardinality(A) = Size => A = Ids)
  BY <1>2, FS_Subset
<1>4. Cardinality(A) \in Nat
  BY <1>3, FS_CardinalityType
<1>5. A = {} => Cardinality(A) = 0
  BY FS_EmptySet
<1>6. \A w \in Ids \ A : Cardinality(A \cup {w}) = Cardinality(A) + 1
  BY <1>3, FS_AddElement
<1> QED
  BY <1>1, <1>3, <1>4, <1>5, <1>6

(* What sending to a channel and receiving from it do.                      *)
LEMMA Send ==
  ASSUME NEW S, NEW q \in Seq(S), NEW x \in S
  PROVE  /\ Append(q, x) \in Seq(S)
         /\ Len(Append(q, x)) = Len(q) + 1
         /\ \A y \in S : Has(Append(q, x), y) <=> x = y \/ Has(q, y)
<1>1. Append(q, x) \in Seq(S) /\ Len(Append(q, x)) = Len(q) + 1 /\ Len(q) \in Nat
  OBVIOUS
<1>2. \A i \in 1 .. Len(q) : Append(q, x)[i] = q[i]
  OBVIOUS
<1>3. Append(q, x)[Len(q) + 1] = x
  OBVIOUS
<1>4. \A y \in S : Has(Append(q, x), y) <=> x = y \/ Has(q, y)
  BY <1>1, <1>2, <1>3 DEF Has
<1> QED
  BY <1>1, <1>4

LEMMA Receipt ==
  ASSUME NEW S, NEW q \in Seq(S), q # <<>>
  PROVE  /\ Head(q) \in S
         /\ Tail(q) \in Seq(S)
         /\ Len(Tail(q)) = Len(q) - 1
         /\ \A y \in S : Has(q, y) <=> Head(q) = y \/ Has(Tail(q), y)
<1>1. Len(q) \in Nat \ {0} /\ Head(q) = q[1] /\ Head(q) \in S
  OBVIOUS
<1>2. Tail(q) \in Seq(S) /\ Len(Tail(q)) = Len(q) - 1
  OBVIOUS
<1>3. \A i \in 1 .. Len(q) - 1 : Tail(q)[i] = q[i + 1]
  OBVIOUS
<1>4. ASSUME NEW y \in S, Has(q, y) PROVE Head(q) = y \/ Has(Tail(q), y)
  <2>1. PICK i \in 1 .. Len(q) : q[i] = y
    BY <1>4 DEF Has
  <2>2. CASE i = 1
    BY <2>1, <2>2, <1>1
  <2>3. CASE i # 1
    <3>1. i - 1 \in 1 .. Len(q) - 1 /\ (i - 1) + 1 = i
      BY <2>3, <1>1
    <3>2. Tail(q)[i - 1] = y
      BY <3>1, <2>1, <1>3
    <3> QED
      BY <3>1, <3>2, <1>2 DEF Has
  <2> QED
    BY <2>2, <2>3
<1>5. ASSUME NEW y \in S, Has(Tail(q), y) PROVE Has(q, y)
  <2>1. PICK i \in 1 .. Len(q) - 1 : Tail(q)[i] = y
    BY <1>5, <1>2 DEF Has
  <2>2. i + 1 \in 1 .. Len(q) /\ q[i + 1] = y
    BY <2>1, <1>1, <1>3
  <2> QED
    BY <2>2 DEF Has
<1>6. \A y \in S : Head(q) = y => Has(q, y)
  BY <1>1 DEF Has
<1> QED
  BY <1>1, <1>2, <1>4, <1>5, <1>6

------------------------------------------------------------------------------
Inv == TypeOK /\ Inductive

LEMMA InitInv == Init => Inv
<1> SUFFICES ASSUME Init PROVE Inv
  OBVIOUS
<1> USE PoolAssumption DEF Init, Ids
<1>1. TypeOK
  BY DEF TypeOK
<1>2. JobsAccounted /\ ResponsesAccounted /\ ErrorsAccounted /\ OutcomeLater /\ StopsInOrder
  BY DEF JobsAccounted, ResponsesAccounted, ErrorsAccounted, OutcomeLater, StopsInOrder, InRun,
         Idle
<1>3. ErrorsSurface /\ DropJoinsAll
  BY DEF ErrorsSurface, DropJoinsAll
<1> QED
  BY <1>1, <1>2, <1>3 DEF Inv, Inductive

LEMMA TypeStep == Inv /\ [Next]_vars => TypeOK'
<1> SUFFICES ASSUME Inv, [Next]_vars PROVE TypeOK'
  OBVIOUS
<1> USE PoolAssumption DEF TypeOK, Ids
<1>0. TypeOK
  BY DEF Inv
<1>1. CASE CallRun
  <2>1. runs' \in 0 .. MaxRuns /\ count' \in 0 .. Size /\ turn' \in 0 .. Size
    BY <1>0, <1>1 DEF CallRun
  <2> QED
    BY <1>0, <1>1, <2>1 DEF CallRun
<1>2. CASE SendJob
  <2>1. turn \in Ids /\ turn' \in 0 .. Size
    BY <1>0, <1>2 DEF SendJob
  <2>2. Append(tasks[turn], "job") \in Seq({"job", "stop"})
    BY <1>0, <2>1, Send
  <2>3. tasks' \in [Ids -> Seq({"job", "stop"})]
    BY <1>0, <1>2, <2>1, <2>2 DEF SendJob
  <2> QED
    BY <1>0, <1>2, <2>1, <2>3 DEF SendJob
<1>3. CASE AllSent
  BY <1>0, <1>3 DEF AllSent
<1>4. CASE Collect
  <2>1. count < Size
    BY <1>4 DEF Collect, Inv, Inductive, ResponsesAccounted
  <2>2. responses' \in Seq({"ok", "err"})
    BY <1>0, <1>4, Receipt DEF Collect
  <2> QED
    BY <1>0, <1>4, <2>1, <2>2 DEF Collect
<1>5. CASE CollectNothing
  BY <1>0, <1>5 DEF CollectNothing
<1>6. CASE CheckWorkers
  BY <1>0, <1>6 DEF CheckWorkers
<1>7. CASE ReturnRun
  BY <1>0, <1>7 DEF ReturnRun
<1>8. CASE DropPool
  BY <1>0, <1>8 DEF DropPool
<1>9. CASE SendStop
  <2>1. turn \in Ids /\ turn' \in 0 .. Size
    BY <1>0, <1>9 DEF SendStop
  <2>2. Append(tasks[turn], "stop") \in Seq({"job", "stop"})
    BY <1>0, <2>1, Send
  <2>3. tasks' \in [Ids -> Seq({"job", "stop"})]
    BY <1>0, <1>9, <2>1, <2>2 DEF SendStop
  <2> QED
    BY <1>0, <1>9, <2>1, <2>3 DEF SendStop, Dropping
<1>10. CASE Join
  <2>1. turn < Size
    BY <1>10 DEF Join, Inv, Inductive, StopsInOrder
  <2> QED
    BY <1>0, <1>10, <2>1 DEF Join
<1>11. CASE DropEnds
  BY <1>0, <1>11 DEF DropEnds
<1>12. ASSUME NEW w \in Ids, Receive(w) PROVE TypeOK'
  <2>1. tasks' \in [Ids -> Seq({"job", "stop"})]
    BY <1>0, <1>12, Receipt DEF Receive
  <2> QED
    BY <1>0, <1>12, <2>1 DEF Receive
<1>13. ASSUME NEW w \in Ids, NEW r \in {"ok", "err"}, JobReturns(w, r) PROVE TypeOK'
  BY <1>0, <1>13 DEF JobReturns
<1>14. ASSUME NEW w \in Ids, JobPanics(w) PROVE TypeOK'
  BY <1>0, <1>14 DEF JobPanics
<1>15. ASSUME NEW w \in Ids, Respond(w) PROVE TypeOK'
  <2>1. answer[w] \in {"ok", "err"}
    BY <1>0, <1>15 DEF Respond, Inv, Inductive, ErrorsAccounted
  <2>2. responses' \in Seq({"ok", "err"})
    BY <1>0, <1>15, <2>1, Send DEF Respond
  <2> QED
    BY <1>0, <1>15, <2>2 DEF Respond
<1>16. CASE UNCHANGED vars
  BY <1>0, <1>16 DEF vars
<1> QED
  BY <1>1, <1>2, <1>3, <1>4, <1>5, <1>6, <1>7, <1>8, <1>9, <1>10, <1>11, <1>12, <1>13, <1>14,
     <1>15, <1>16 DEF Next, Main, Work

(* run() returns with an empty channel and idle workers: as many workers    *)
(* have answered as responses were collected, which is all of them.         *)
LEMMA ReturnIsComplete ==
  ASSUME Inv, main = "return"
  PROVE  /\ responses = <<>>
         /\ Answered = Ids
         /\ \A w \in Ids : Idle(w)
<1>1. InRun /\ Sent = Ids
  BY DEF InRun, Sent
<1>2. count = Size /\ count + Len(responses) = Cardinality(Answered)
  BY <1>1 DEF Inv, Inductive, ResponsesAccounted
<1>3. Answered \subseteq Ids
  BY <1>1 DEF Answered
<1>4. responses \in Seq({"ok", "err"}) /\ Len(responses) \in Nat
  BY DEF Inv, TypeOK
<1>5. Len(responses) = 0 /\ Cardinality(Answered) = Size
  <2>1. Size \in Nat /\ Cardinality(Answered) \in 0 .. Size
    BY <1>3, Counts
  <2> QED
    BY <2>1, <1>2, <1>4
<1>6. Answered = Ids
  BY <1>3, <1>5, Counts
<1>7. responses = <<>>
  BY <1>4, <1>5
<1> QED
  BY <1>6, <1>7 DEF Answered

LEMMA JobsStep == Inv /\ [Next]_vars => JobsAccounted'
<1> SUFFICES ASSUME Inv, [Next]_vars PROVE JobsAccounted'
  OBVIOUS
<1> USE DEF JobsAccounted, InRun, Idle
<1>0. JobsAccounted /\ TypeOK
  BY DEF Inv, Inductive
<1>S. Size \in Nat \ {0}
  BY PoolAssumption
<1>1. CASE CallRun
  <2>1. Sent' = {}
    BY <1>1 DEF CallRun, Sent
  <2> QED
    BY <1>0, <1>1, <2>1 DEF CallRun
<1>2. CASE SendJob
  <2>1. CASE Gone(turn)
    BY <1>2, <2>1 DEF SendJob
  <2>2. CASE ~ Gone(turn)
    <3>1. turn \in Ids /\ turn + 1 \in Nat /\ (turn + 1) - 1 = turn
      BY <1>0, <1>2, <1>S DEF SendJob, TypeOK, Ids
    <3>2. Sent = 0 .. turn - 1 /\ Sent' = 0 .. turn
      BY <1>2, <2>2, <3>1 DEF SendJob, Sent
    <3>3. turn \notin Sent /\ Sent' = Sent \cup {turn}
      BY <3>1, <3>2 DEF Ids
    <3>4. Idle(turn) /\ Append(<<>>, "job") = <<"job">>
      BY <1>0, <1>2, <3>1, <3>3 DEF SendJob
    <3>5. tasks' = [tasks EXCEPT ![turn] = <<"job">>] /\ worker' = worker /\ main' = "dispatch"
      BY <1>2, <2>2, <3>4 DEF SendJob
    <3> QED
      BY <1>0, <1>2, <3>1, <3>3, <3>4, <3>5 DEF SendJob, TypeOK
  <2> QED
    BY <2>1, <2>2
<1>3. CASE AllSent
  <2>1. Sent = Ids /\ Sent' = Ids
    BY <1>3 DEF AllSent, Sent, Ids
  <2> QED
    BY <1>0, <1>3, <2>1 DEF AllSent
<1>4. CASE Collect
  BY <1>0, <1>4 DEF Collect, Sent
<1>5. CASE CollectNothing
  BY <1>0, <1>5 DEF CollectNothing, Sent
<1>6. CASE CheckWorkers
  BY <1>0, <1>6 DEF CheckWorkers, Sent
<1>7. CASE ReturnRun
  BY <1>0, <1>7, ReturnIsComplete DEF ReturnRun
<1>8. CASE DropPool
  <2>1. <<>> \in Seq({"stop"})
    OBVIOUS
  <2> QED
    BY <1>0, <1>8, <2>1 DEF DropPool
<1>9. CASE SendStop
  <2>1. turn \in Ids
    BY <1>0, <1>9, <1>S DEF SendStop, TypeOK, Ids
  <2>2. ASSUME main = "dropping" PROVE Append(tasks[turn], "stop") \in Seq({"stop"})
    BY <1>0, <2>1, <2>2, Send
  <2> QED
    BY <1>0, <1>9, <2>1, <2>2 DEF SendStop, Dropping, TypeOK
<1>10. CASE Join
  BY <1>0, <1>10 DEF Join
<1>11. CASE DropEnds
  BY <1>0, <1>11 DEF DropEnds, Dropping
<1>12. ASSUME NEW w \in Ids, Receive(w) PROVE JobsAccounted'
  <2>1. main # "idle"
    BY <1>0, <1>12 DEF Receive
  <2>2. CASE InRun
    <3>1. Sent' = Sent /\ tasks[w] = <<"job">>
      BY <1>0, <1>12, <2>2 DEF Receive, Sent
    <3>2. Head(tasks[w]) = "job" /\ Tail(tasks[w]) = <<>>
      BY <3>1
    <3>3. tasks' = [tasks EXCEPT ![w] = <<>>] /\ worker' = [worker EXCEPT ![w] = "working"]
          /\ main' = main
      BY <1>12, <3>2 DEF Receive
    <3>4. w \in Sent /\ main \notin {"idle", "dropping", "joining", "dropped"}
      BY <1>0, <2>2, <3>1
    <3> QED
      BY <1>0, <2>2, <3>1, <3>3, <3>4 DEF TypeOK
  <2>3. CASE main \in {"dropping", "joining", "dropped"}
    <3>1. Head(tasks[w]) = "stop" /\ Tail(tasks[w]) \in Seq({"stop"})
      BY <1>0, <1>12, <2>3, Receipt DEF Receive
    <3> QED
      BY <1>0, <1>12, <2>3, <3>1 DEF Receive, TypeOK
  <2>4. CASE main \in {"unwinding", "unwindJoining", "panicked"}
    BY <1>12, <2>4 DEF Receive
  <2> QED
    BY <1>0, <2>1, <2>2, <2>3, <2>4 DEF TypeOK
<1>13. ASSUME NEW w \in Ids, NEW r \in {"ok", "err"}, JobReturns(w, r) PROVE JobsAccounted'
  BY <1>0, <1>13 DEF JobReturns, Sent, TypeOK
<1>14. ASSUME NEW w \in Ids, JobPanics(w) PROVE JobsAccounted'
  BY <1>0, <1>14 DEF JobPanics, Sent, TypeOK
<1>15. ASSUME NEW w \in Ids, Respond(w) PROVE JobsAccounted'
  BY <1>0, <1>15 DEF Respond, Sent, TypeOK
<1>16. CASE UNCHANGED vars
  BY <1>0, <1>16 DEF vars, Sent
<1> QED
  BY <1>1, <1>2, <1>3, <1>4, <1>5, <1>6, <1>7, <1>8, <1>9, <1>10, <1>11, <1>12, <1>13, <1>14,
     <1>15, <1>16 DEF Next, Main, Work

(* Only a response makes a worker one of those that have answered.          *)
LEMMA AnsweredSame ==
  ASSUME Inv, InRun, InRun',
         \/ SendJob \/ AllSent \/ Collect \/ CollectNothing \/ CheckWorkers
         \/ \E w \in Ids : Receive(w) \/ (\E r \in {"ok", "err"} : JobReturns(w, r)) \/ JobPanics(w)
  PROVE  Answered' = Answered
<1> USE DEF Idle
<1>0. JobsAccounted /\ TypeOK
  BY DEF Inv, Inductive
<1>S. Size \in Nat \ {0}
  BY PoolAssumption
<1>1. CASE SendJob
  <2>1. main = "dispatch" /\ main' = "dispatch" /\ ~ Gone(turn)
    BY <1>1 DEF SendJob, InRun
  <2>2. turn \in Ids /\ turn + 1 \in Nat /\ (turn + 1) - 1 = turn
    BY <1>0, <1>1, <1>S DEF SendJob, TypeOK, Ids
  <2>3. tasks' = [tasks EXCEPT ![turn] = Append(@, "job")] /\ worker' = worker /\ turn' = turn + 1
    BY <1>1, <2>1 DEF SendJob
  <2>4. turn \notin Sent /\ Sent' = Sent \cup {turn}
    BY <2>1, <2>2, <2>3 DEF Sent, Ids
  <2>5. tasks[turn] = <<>> /\ Append(<<>>, "job") # <<>>
    BY <1>0, <2>2, <2>4 DEF JobsAccounted
  <2> QED
    BY <1>0, <2>2, <2>3, <2>4, <2>5 DEF Answered, TypeOK
<1>2. CASE AllSent
  <2>1. Sent = Ids /\ Sent' = Ids
    BY <1>2 DEF AllSent, Sent, Ids
  <2> QED
    BY <1>2, <2>1 DEF AllSent, Answered
<1>3. CASE Collect
  BY <1>3 DEF Collect, Sent, Answered, InRun
<1>4. CASE CollectNothing
  BY <1>4 DEF CollectNothing, Sent, Answered, InRun
<1>5. CASE CheckWorkers
  BY <1>5 DEF CheckWorkers, Sent, Answered, InRun
<1>6. ASSUME NEW w \in Ids, Receive(w) PROVE Answered' = Answered
  <2>1. Sent' = Sent /\ tasks[w] = <<"job">>
    BY <1>0, <1>6 DEF Receive, Sent, JobsAccounted, InRun
  <2>2. worker' = [worker EXCEPT ![w] = "working"]
    BY <1>6, <2>1 DEF Receive
  <2>3. \A v \in Ids \ {w} : tasks'[v] = tasks[v]
    BY <1>0, <1>6 DEF Receive, TypeOK
  <2>4. tasks[w] # <<>> /\ worker'[w] = "working"
    BY <1>0, <2>1, <2>2 DEF TypeOK
  <2>5. w \notin Answered /\ w \notin Answered'
    BY <2>4 DEF Answered
  <2>6. \A v \in Ids \ {w} : worker'[v] = worker[v]
    BY <1>0, <2>2 DEF TypeOK
  <2>7. Sent \subseteq Ids
    BY <1>0, <1>S DEF Sent, TypeOK, Ids
  <2>8. \A v \in Sent \ {w} : v \in Answered' <=> v \in Answered
    BY <2>1, <2>3, <2>6, <2>7 DEF Answered
  <2> QED
    BY <2>1, <2>5, <2>8 DEF Answered
<1>7. ASSUME NEW w \in Ids, NEW r \in {"ok", "err"}, JobReturns(w, r) PROVE Answered' = Answered
  BY <1>0, <1>7 DEF JobReturns, Sent, Answered, TypeOK
<1>8. ASSUME NEW w \in Ids, JobPanics(w) PROVE Answered' = Answered
  BY <1>0, <1>8 DEF JobPanics, Sent, Answered, TypeOK
<1> QED
  BY <1>1, <1>2, <1>3, <1>4, <1>5, <1>6, <1>7, <1>8

LEMMA AnsweredMore ==
  ASSUME Inv, InRun, NEW w \in Ids, Respond(w)
  PROVE  /\ Answered' = Answered \cup {w}
         /\ w \in Ids \ Answered
         /\ Answered \in SUBSET Ids
         /\ answer[w] \in {"ok", "err"}
<1>0. JobsAccounted /\ TypeOK /\ ErrorsAccounted
  BY DEF Inv, Inductive
<1>1. Sent' = Sent /\ Sent \subseteq Ids
  <2>1. turn \in 0 .. Size /\ Size \in Nat
    BY <1>0, PoolAssumption DEF TypeOK
  <2> QED
    BY <2>1 DEF Respond, Sent, Ids
<1>2. w \in Sent /\ tasks[w] = <<>>
  BY <1>0 DEF JobsAccounted, Respond, Idle
<1>3. worker' = [worker EXCEPT ![w] = "receiving"] /\ tasks' = tasks /\ worker[w] = "responding"
  BY DEF Respond
<1>4. answer[w] \in {"ok", "err"}
  BY <1>0, <1>3 DEF ErrorsAccounted, TypeOK
<1> QED
  BY <1>0, <1>1, <1>2, <1>3, <1>4 DEF Answered, Idle, TypeOK

LEMMA ResponsesStep == Inv /\ [Next]_vars => ResponsesAccounted'
<1> SUFFICES ASSUME Inv, [Next]_vars PROVE ResponsesAccounted'
  OBVIOUS
<1> USE DEF ResponsesAccounted
<1>0. ResponsesAccounted /\ JobsAccounted /\ TypeOK
  BY DEF Inv, Inductive
<1>S. Size \in Nat \ {0}
  BY PoolAssumption
<1>1. CASE CallRun
  <2>1. Answered' = {} /\ responses' = <<>> /\ count' = 0 /\ main' = "dispatch"
    BY <1>0, <1>1 DEF CallRun, Sent, Answered
  <2>2. Cardinality({}) = 0
    BY FS_EmptySet
  <2> QED
    BY <2>1, <2>2
<1>2. CASE SendJob
  <2>1. CASE Gone(turn)
    BY <1>2, <2>1 DEF SendJob, InRun
  <2>2. CASE ~ Gone(turn)
    BY <1>0, <1>2, <2>2, AnsweredSame DEF SendJob, InRun
  <2> QED
    BY <2>1, <2>2
<1>3. CASE AllSent
  BY <1>0, <1>3, <1>S, AnsweredSame DEF AllSent, InRun
<1>4. CASE Collect
  <2>1. Answered' = Answered /\ InRun
    BY <1>4, AnsweredSame DEF Collect, InRun
  <2>2. Len(responses') = Len(responses) - 1 /\ Len(responses) \in Nat
    BY <1>0, <1>4, Receipt DEF Collect, TypeOK
  <2>3. count < Size /\ count \in Nat
    BY <1>0, <1>4 DEF Collect, TypeOK
  <2> QED
    BY <1>0, <1>4, <1>S, <2>1, <2>2, <2>3 DEF Collect
<1>5. CASE CollectNothing
  BY <1>0, <1>5, AnsweredSame DEF CollectNothing, InRun
<1>6. CASE CheckWorkers
  BY <1>0, <1>6, AnsweredSame DEF CheckWorkers, InRun
<1>7. CASE ReturnRun
  BY <1>7, ReturnIsComplete DEF ReturnRun, InRun
<1>8. CASE DropPool
  BY <1>8 DEF DropPool, InRun
<1>9. CASE SendStop
  BY <1>9 DEF SendStop, Dropping, InRun
<1>10. CASE Join
  BY <1>10 DEF Join, InRun
<1>11. CASE DropEnds
  BY <1>11 DEF DropEnds, InRun
<1>12. ASSUME NEW w \in Ids, Receive(w) PROVE ResponsesAccounted'
  BY <1>0, <1>12, AnsweredSame DEF Receive, InRun
<1>13. ASSUME NEW w \in Ids, NEW r \in {"ok", "err"}, JobReturns(w, r)
       PROVE  ResponsesAccounted'
  BY <1>0, <1>13, AnsweredSame DEF JobReturns, InRun
<1>14. ASSUME NEW w \in Ids, JobPanics(w) PROVE ResponsesAccounted'
  BY <1>0, <1>14, AnsweredSame DEF JobPanics, InRun
<1>15. ASSUME NEW w \in Ids, Respond(w) PROVE ResponsesAccounted'
  <2>1. main' = main /\ count' = count /\ responses' = Append(responses, answer[w])
    BY <1>15 DEF Respond
  <2>2. main # "idle"
    BY <1>0, <1>15 DEF Respond, JobsAccounted, Idle
  <2>3. CASE InRun
    <3>1. Answered' = Answered \cup {w} /\ w \in Ids \ Answered /\ Answered \in SUBSET Ids
          /\ answer[w] \in {"ok", "err"}
      BY <1>15, <2>3, AnsweredMore
    <3>2. Cardinality(Answered') = Cardinality(Answered) + 1
      BY <3>1, Counts
    <3>3. Len(responses') = Len(responses) + 1 /\ Len(responses) \in Nat /\ count \in Nat
      BY <1>0, <2>1, <3>1, Send DEF TypeOK
    <3> QED
      BY <1>0, <2>1, <2>2, <2>3, <3>2, <3>3
  <2>4. CASE ~ InRun
    BY <2>1, <2>2, <2>4 DEF InRun
  <2> QED
    BY <2>3, <2>4
<1>16. CASE UNCHANGED vars
  <2>1. Answered' = Answered
    BY <1>16 DEF vars, Answered, Sent, Idle
  <2> QED
    BY <1>0, <1>16, <2>1 DEF vars, InRun
<1> QED
  BY <1>1, <1>2, <1>3, <1>4, <1>5, <1>6, <1>7, <1>8, <1>9, <1>10, <1>11, <1>12, <1>13, <1>14,
     <1>15, <1>16 DEF Next, Main, Work

LEMMA ErrorsStep == Inv /\ [Next]_vars => ErrorsAccounted'
<1> SUFFICES ASSUME Inv, [Next]_vars PROVE ErrorsAccounted'
  OBVIOUS
<1> USE DEF ErrorsAccounted
<1>0. ErrorsAccounted /\ TypeOK
  BY DEF Inv, Inductive
<1>1. CASE CallRun
  <2>1. Answered' = {} /\ responses' = <<>> /\ errors' = FALSE
    BY <1>0, <1>1 DEF CallRun, Sent, Answered, Inv, Inductive, ResponsesAccounted
  <2>2. ~ Has(responses', "err")
    BY <2>1 DEF Has
  <2> QED
    BY <1>0, <1>1, <2>1, <2>2 DEF CallRun
<1>2. CASE SendJob
  <2>1. CASE Gone(turn)
    BY <1>0, <1>2, <2>1 DEF SendJob, InRun
  <2>2. CASE ~ Gone(turn)
    BY <1>0, <1>2, <2>2, AnsweredSame DEF SendJob, InRun
  <2> QED
    BY <2>1, <2>2
<1>3. CASE AllSent
  BY <1>0, <1>3, AnsweredSame DEF AllSent, InRun
<1>4. CASE Collect
  <2>1. Answered' = Answered /\ InRun
    BY <1>4, AnsweredSame DEF Collect, InRun
  <2>2. Has(responses, "err") <=> Head(responses) = "err" \/ Has(responses', "err")
    BY <1>0, <1>4, Receipt DEF Collect, TypeOK
  <2> QED
    BY <1>0, <1>4, <2>1, <2>2 DEF Collect
<1>5. CASE CollectNothing
  BY <1>0, <1>5, AnsweredSame DEF CollectNothing, InRun
<1>6. CASE CheckWorkers
  BY <1>0, <1>6, AnsweredSame DEF CheckWorkers, InRun
<1>7. CASE ReturnRun
  BY <1>0, <1>7 DEF ReturnRun, InRun
<1>8. CASE DropPool
  BY <1>0, <1>8 DEF DropPool, InRun
<1>9. CASE SendStop
  BY <1>0, <1>9 DEF SendStop, Dropping, InRun
<1>10. CASE Join
  BY <1>0, <1>10 DEF Join, InRun
<1>11. CASE DropEnds
  BY <1>0, <1>11 DEF DropEnds, InRun
<1>12. ASSUME NEW w \in Ids, Receive(w) PROVE ErrorsAccounted'
  BY <1>0, <1>12, AnsweredSame DEF Receive, InRun, TypeOK
<1>13. ASSUME NEW w \in Ids, NEW r \in {"ok", "err"}, JobReturns(w, r) PROVE ErrorsAccounted'
  <2>1. answer' = [answer EXCEPT ![w] = r] /\ worker' = [worker EXCEPT ![w] = "responding"]
        /\ r # NULL
    BY <1>13, PoolAssumption DEF JobReturns
  <2>2. \A v \in Ids : worker'[v] = "responding" => answer'[v] # NULL
    BY <1>0, <2>1 DEF TypeOK
  <2>3. CASE InRun
    <3>1. Answered' = Answered /\ w \notin Answered
      BY <1>13, <2>3, AnsweredSame DEF JobReturns, InRun, Answered, Idle
    <3>2. \A v \in Answered : answer'[v] = answer[v]
      <4>1. Answered \subseteq Ids
        BY <1>0, PoolAssumption DEF Answered, Sent, TypeOK, Ids
      <4> QED
        BY <1>0, <2>1, <3>1, <4>1 DEF TypeOK
    <3>3. errors' = errors /\ responses' = responses
      BY <1>13 DEF JobReturns
    <3> QED
      BY <1>0, <2>2, <2>3, <3>1, <3>2, <3>3
  <2>4. CASE ~ InRun
    BY <1>13, <2>2, <2>4 DEF JobReturns, InRun
  <2> QED
    BY <2>3, <2>4
<1>14. ASSUME NEW w \in Ids, JobPanics(w) PROVE ErrorsAccounted'
  BY <1>0, <1>14, AnsweredSame DEF JobPanics, InRun, TypeOK
<1>15. ASSUME NEW w \in Ids, Respond(w) PROVE ErrorsAccounted'
  <2>1. main' = main /\ answer' = answer /\ errors' = errors
        /\ worker' = [worker EXCEPT ![w] = "receiving"]
    BY <1>15 DEF Respond
  <2>2. \A v \in Ids : worker'[v] = "responding" => answer'[v] # NULL
    BY <1>0, <2>1 DEF TypeOK
  <2>3. CASE InRun
    <3>1. Answered' = Answered \cup {w} /\ answer[w] \in {"ok", "err"}
      BY <1>15, <2>3, AnsweredMore
    <3>2. Has(responses', "err") <=> answer[w] = "err" \/ Has(responses, "err")
      <4>1. responses' = Append(responses, answer[w]) /\ responses \in Seq({"ok", "err"})
        BY <1>0, <1>15 DEF Respond, TypeOK
      <4> QED
        BY <3>1, <4>1, Send
    <3> QED
      BY <1>0, <2>1, <2>2, <2>3, <3>1, <3>2
  <2>4. CASE ~ InRun
    BY <2>1, <2>2, <2>4 DEF InRun
  <2> QED
    BY <2>3, <2>4
<1>16. CASE UNCHANGED vars
  <2>1. Answered' = Answered
    BY <1>16 DEF vars, Answered, Sent, Idle
  <2> QED
    BY <1>0, <1>16, <2>1 DEF vars, InRun
<1> QED
  BY <1>1, <1>2, <1>3, <1>4, <1>5, <1>6, <1>7, <1>8, <1>9, <1>10, <1>11, <1>12, <1>13, <1>14,
     <1>15, <1>16 DEF Next, Main, Work

LEMMA OutcomeStep == Inv /\ [Next]_vars => OutcomeLater'
<1> SUFFICES ASSUME Inv, [Next]_vars PROVE OutcomeLater'
  OBVIOUS
<1>0. OutcomeLater
  BY DEF Inv, Inductive
<1> QED
  BY <1>0 DEF OutcomeLater, InRun, Next, Main, Work, CallRun, SendJob, AllSent, Collect,
     CollectNothing, CheckWorkers, ReturnRun, DropPool, SendStop, Dropping, Join, DropEnds,
     Receive, JobReturns, JobPanics, Respond, vars

LEMMA StopsStep == Inv /\ [Next]_vars => StopsInOrder' /\ DropJoinsAll'
<1> SUFFICES ASSUME Inv, [Next]_vars PROVE StopsInOrder' /\ DropJoinsAll'
  OBVIOUS
<1> USE DEF StopsInOrder, DropJoinsAll
<1>0. StopsInOrder /\ DropJoinsAll /\ TypeOK
  BY DEF Inv, Inductive
<1>S. Size \in Nat \ {0}
  BY PoolAssumption
<1>G. ASSUME NEW w \in Ids, Work(w) PROVE \A v \in Ids : Gone(v) => Gone(v)'
  BY <1>0, <1>G DEF Work, Receive, JobReturns, JobPanics, Respond, Gone, TypeOK
<1>T. turn \in 0 .. Size /\ 0 .. turn - 1 \subseteq Ids
  BY <1>0, <1>S DEF TypeOK, Ids
<1>1. CASE CallRun \/ AllSent \/ Collect \/ ReturnRun
  BY <1>1 DEF CallRun, AllSent, Collect, ReturnRun
<1>2. CASE SendJob \/ CollectNothing \/ CheckWorkers \/ DropPool
  BY <1>2 DEF SendJob, CollectNothing, CheckWorkers, DropPool
<1>3. CASE SendStop
  <2>1. \A v \in 0 .. turn : v = turn \/ v \in 0 .. turn - 1
    BY <1>T
  <2> QED
    BY <1>0, <1>3, <1>T, <2>1 DEF SendStop, Dropping, Gone
<1>4. CASE Join
  <2>1. \A v \in 0 .. turn : v = turn \/ v \in 0 .. turn - 1
    BY <1>T
  <2> QED
    BY <1>0, <1>4, <1>T, <2>1 DEF Join, Gone
<1>5. CASE DropEnds
  BY <1>0, <1>5 DEF DropEnds, Dropping, Gone, Ids
<1>6. ASSUME NEW w \in Ids, Work(w) PROVE StopsInOrder' /\ DropJoinsAll'
  <2>1. main' = main /\ turn' = turn
    BY <1>6 DEF Work, Receive, JobReturns, JobPanics, Respond
  <2> QED
    BY <1>0, <1>6, <1>G, <1>T, <2>1
<1>7. CASE UNCHANGED vars
  BY <1>0, <1>7 DEF vars, Gone
<1> QED
  BY <1>1, <1>2, <1>3, <1>4, <1>5, <1>6, <1>7 DEF Next, Main

LEMMA SurfaceStep == Inv /\ [Next]_vars => ErrorsSurface'
<1> SUFFICES ASSUME Inv, [Next]_vars PROVE ErrorsSurface'
  OBVIOUS
<1> USE DEF ErrorsSurface
<1>0. ErrorsSurface /\ ErrorsAccounted /\ JobsAccounted
  BY DEF Inv, Inductive
<1>1. CASE ReturnRun
  <2>1. responses = <<>> /\ Answered = Ids /\ InRun
    BY <1>1, ReturnIsComplete DEF ReturnRun, InRun
  <2>2. ~ Has(responses, "err")
    BY <2>1 DEF Has
  <2>3. errors <=> \E w \in Ids : answer[w] = "err"
    BY <1>0, <2>1, <2>2 DEF ErrorsAccounted
  <2> QED
    BY <1>1, <2>3 DEF ReturnRun
<1>2. CASE Main /\ ~ ReturnRun
  BY <1>2 DEF Main, CallRun, SendJob, AllSent, Collect, CollectNothing, CheckWorkers, DropPool,
     SendStop, Dropping, Join, DropEnds
<1>3. ASSUME NEW w \in Ids, Work(w) PROVE ErrorsSurface'
  <2>1. main' = main
    BY <1>3 DEF Work, Receive, JobReturns, JobPanics, Respond
  <2>2. main # "idle"
    BY <1>0, <1>3 DEF Work, Receive, JobReturns, JobPanics, Respond, JobsAccounted, Idle
  <2> QED
    BY <2>1, <2>2
<1>4. CASE UNCHANGED vars
  BY <1>0, <1>4 DEF vars
<1> QED
  BY <1>1, <1>2, <1>3, <1>4 DEF Next

------------------------------------------------------------------------------
(* The count of answers holds throughout the life of a pool.                *)
THEOREM PoolInvariant == Spec => []Inv
<1>1. Inv /\ [Next]_vars => Inv'
  BY TypeStep, JobsStep, ResponsesStep, ErrorsStep, OutcomeStep, StopsStep, SurfaceStep
     DEF Inv, Inductive
<1> QED
  BY InitInv, <1>1, PTL DEF Spec

(* Type correctness.                                                        *)
THEOREM PoolTypes == Spec => []TypeOK
<1>1. Inv => TypeOK
  BY DEF Inv
<1> QED
  BY <1>1, PoolInvariant, PTL

(* run() blocks until every job has returned and been answered for, and     *)
(* leaves nothing on a channel that the next run could take for its own.    *)
THEOREM RunWaitsForAll == Spec => []RunIsComplete
<1>1. Inv => RunIsComplete
  <2> SUFFICES ASSUME Inv, main \in {"return", "idle"}
               PROVE  responses = <<>> /\ \A w \in Ids : Idle(w)
    BY DEF RunIsComplete, Idle
  <2>1. CASE main = "return"
    BY <2>1, ReturnIsComplete
  <2>2. CASE main = "idle"
    BY <2>2 DEF Inv, Inductive, JobsAccounted, ResponsesAccounted
  <2> QED
    BY <2>1, <2>2
<1> QED
  BY <1>1, PoolInvariant, PTL

(* run() returns Err exactly when one of the jobs of that run did.          *)
THEOREM RunReportsErrors == Spec => []ErrorsSurface
<1>1. Inv => ErrorsSurface
  BY DEF Inv, Inductive
<1> QED
  BY <1>1, PoolInvariant, PTL

(* A run in which a worker died never returns a result.                     *)
THEOREM DeadWorkersAreNoticed == Spec => []DeathIsNoticed
<1>1. Inv => DeathIsNoticed
  <2> SUFFICES ASSUME Inv, NEW w \in Ids, worker[w] = "dead"
               PROVE  outcome = NULL /\ main # "return"
    BY DEF DeathIsNoticed, Dead
  <2> USE DEF Inv, Inductive
  <2>1. main # "return"
    BY ReturnIsComplete DEF Idle
  <2>2. main \notin {"idle", "dropping", "joining", "dropped"}
    BY DEF JobsAccounted, Idle
  <2>3. outcome = NULL
    BY <2>1, <2>2 DEF OutcomeLater, InRun, TypeOK
  <2> QED
    BY <2>1, <2>3
<1> QED
  BY <1>1, PoolInvariant, PTL

(* The pool is not gone before all of its threads are.                      *)
THEOREM DropWaitsForAll == Spec => []DropJoinsAll
<1>1. Inv => DropJoinsAll
  BY DEF Inv, Inductive
<1> QED
  BY <1>1, PoolInvariant, PTL
==============================================================================
