------------------------- MODULE CompileStatesProofs -------------------------
(***************************************************************************)
(* Proofs about CompileStates, for any number of workers and any grammar.  *)
(* The argument: seen through the variables of one of them, a step of the  *)
(* composition is a step of the builder or of the pool, or it changes      *)
(* nothing, so both keep their invariants; what the pool has on record for *)
(* a worker that answered is what the worker's loop returned, so run() can *)
(* return Ok only when every loop did.                                     *)
(***************************************************************************)
EXTENDS CompileStates, BuildStatesProofs

P == INSTANCE WorkerPoolProofs

(* The theorems about the pool reach this module through an instance of    *)
(* their own, whose actions are those CompileStates composes.              *)
LEMMA SameMain == Pool!Main => P!Main
<1> QED
  BY DEF Pool!Main, P!Main, Pool!CallRun, P!CallRun, Pool!SendJob, P!SendJob,
     Pool!AllSent, P!AllSent, Pool!Collect, P!Collect, Pool!CollectNothing,
     P!CollectNothing, Pool!CheckWorkers, P!CheckWorkers, Pool!ReturnRun,
     P!ReturnRun, Pool!DropPool, P!DropPool, Pool!SendStop, P!SendStop, Pool!Join,
     P!Join, Pool!DropEnds, P!DropEnds, Pool!Ids, P!Ids, Pool!Gone, P!Gone,
     Pool!Dropping, P!Dropping

(* The composition behaves like the builder.                                *)
LEMMA IsBuild == CompileSpec => Spec
<1>1. CompileInit => Init
  BY DEF CompileInit
<1>2. ASSUME CompileNext PROVE [Next]_vars
  <2>1. CASE CallingThread
    BY <2>1 DEF CallingThread
  <2>2. ASSUME NEW w \in Worker, Thread(w) PROVE [Next]_vars
    <3>1. CASE RunJob(w)
      BY <3>1 DEF RunJob, Next
    <3>2. CASE TakeTask(w) \/ EndJob(w) \/ PanicInJob(w) \/ SendResponse(w)
      BY <3>2 DEF TakeTask, EndJob, PanicInJob, SendResponse
    <3> QED
      BY <2>2, <3>1, <3>2 DEF Thread
  <2> QED
    BY <1>2, <2>1, <2>2 DEF CompileNext
<1>3. [CompileNext]_compileVars => [Next]_vars
  BY <1>2 DEF compileVars
<1> QED
  BY <1>1, <1>3, PTL DEF CompileSpec, Spec

(* The composition behaves like the pool.                                   *)
LEMMA IsPool == CompileSpec => P!Spec
<1>1. CompileInit => P!Init
  BY DEF CompileInit, Pool!Init, P!Init, Pool!Ids, P!Ids
<1>2. ASSUME CompileNext PROVE [P!Next]_P!vars
  <2>1. CASE CallingThread
    BY <2>1, SameMain DEF CallingThread, P!Next
  <2>2. ASSUME NEW w \in Worker, Thread(w) PROVE [P!Next]_P!vars
    <3>1. w \in P!Ids
      BY WorkersArePool DEF Pool!Ids, P!Ids
    <3>2. CASE RunJob(w)
      BY <3>2 DEF RunJob, poolVars, P!vars
    <3>3. CASE TakeTask(w)
      BY <3>3, <3>1 DEF TakeTask, Pool!Receive, P!Receive, P!Work, P!Next
    <3>4. CASE EndJob(w)
      BY <3>4, <3>1 DEF EndJob, Pool!JobReturns, P!JobReturns, P!Work, P!Next
    <3>5. CASE PanicInJob(w)
      BY <3>5, <3>1 DEF PanicInJob, Pool!JobPanics, P!JobPanics, P!Work, P!Next
    <3>6. CASE SendResponse(w)
      BY <3>6, <3>1 DEF SendResponse, Pool!Respond, P!Respond, P!Work, P!Next
    <3> QED
      BY <2>2, <3>2, <3>3, <3>4, <3>5, <3>6 DEF Thread
  <2> QED
    BY <1>2, <2>1, <2>2 DEF CompileNext
<1>3. [CompileNext]_compileVars => [P!Next]_P!vars
  BY <1>2 DEF compileVars, poolVars, P!vars
<1> QED
  BY <1>1, <1>3, PTL DEF CompileSpec, P!Spec

(* Both invariants hold throughout the composition.                         *)
LEMMA BothInvariants == CompileSpec => [](Inv /\ P!Inv)
<1>1. P!Spec => []P!Inv
  BY PoolSized, P!PoolInvariant
<1> QED
  BY <1>1, IsBuild, IsPool, BuildInvariant, PTL

------------------------------------------------------------------------------
\* What the pool has on record for a worker is what the worker's loop returned.
AnswersTrue ==
  \A w \in Worker :
    answer[w] # NULL => pc[w] = "done" /\ (answer[w] = "ok" => result[w] = "ok")

\* A worker that answered in this run has something on record.
AnswersRecorded ==
  P!InRun => \A w \in P!Answered : answer[w] # NULL

\* run() returns Ok only when every job did.
OkIsUnanimous == outcome = "ok" => \A w \in Worker : answer[w] = "ok"

Link == AnswersTrue /\ AnswersRecorded /\ OkIsUnanimous

(* Nothing is on record before the first run.                               *)
LEMMA InitLink == CompileInit => Link
<1> SUFFICES ASSUME CompileInit PROVE Link
  OBVIOUS
<1>1. AnswersTrue
  BY WorkersArePool DEF AnswersTrue, CompileInit, Pool!Init, Pool!Ids
<1>2. AnswersRecorded
  BY DEF AnswersRecorded, CompileInit, Pool!Init, P!InRun
<1>3. OkIsUnanimous
  BY PoolSized DEF OkIsUnanimous, CompileInit, Pool!Init
<1> QED
  BY <1>1, <1>2, <1>3 DEF Link

(* A worker's loop that returned is not resumed.                            *)
LEMMA LoopsStay ==
  ASSUME Inv, NEW v \in Worker, pc[v] = "done", CompileNext
  PROVE  pc'[v] = "done" /\ result'[v] = result[v]
<1> USE DEF Inv, TypeOK
<1>1. CASE UNCHANGED vars
  BY <1>1 DEF vars, shared, local
<1>2. ASSUME NEW w \in Worker, Step(w) PROVE pc'[v] = "done" /\ result'[v] = result[v]
  <2>1. CASE w = v
    BY <1>2, <2>1 DEF Step, Take, FindNothing, Resume, Idle, HandleFails, HandleStale,
       HandleStages, Produce, Enqueue, Committed, Poison, Invalidate, Rebuild, RootCommitted,
       Recovered, Fail
  <2>2. CASE w # v
    BY <1>2, <2>2 DEF Step, Take, FindNothing, Resume, Idle, HandleFails, HandleStale,
       HandleStages, Produce, Enqueue, Committed, Poison, Invalidate, Rebuild, RootCommitted,
       Recovered, Fail, Go, Return
  <2> QED
    BY <2>1, <2>2
<1>3. \/ UNCHANGED vars
      \/ \E w \in Worker : Step(w)
  BY DEF CompileNext, Thread, CallingThread, TakeTask, RunJob, EndJob, PanicInJob, SendResponse
<1> QED
  BY <1>1, <1>2, <1>3

(* What the pool has on record changes only at the end of a job.            *)
LEMMA AnswerSteps ==
  ASSUME CompileNext
  PROVE  answer' = answer \/ \E w \in Worker : EndJob(w)
<1>1. ASSUME CallingThread PROVE answer' = answer
  <2>1. P!Main
    BY <1>1, SameMain DEF CallingThread
  <2> QED
    BY <2>1 DEF P!Main, P!CallRun, P!SendJob, P!AllSent, P!Collect, P!CollectNothing,
       P!CheckWorkers, P!ReturnRun, P!DropPool, P!SendStop, P!Join, P!DropEnds
<1>2. ASSUME NEW w \in Worker, Thread(w) PROVE answer' = answer \/ EndJob(w)
  BY <1>2 DEF Thread, TakeTask, RunJob, PanicInJob, SendResponse, poolVars, Pool!Receive,
     Pool!JobPanics, Pool!Respond
<1> QED
  BY <1>1, <1>2 DEF CompileNext

(* A job ends when its loop has returned, and says whether that went well.  *)
LEMMA NextTrue == Inv /\ P!Inv /\ AnswersTrue /\ CompileNext => AnswersTrue'
<1> SUFFICES ASSUME Inv, P!Inv, AnswersTrue, CompileNext, NEW v \in Worker, answer'[v] # NULL
             PROVE  pc'[v] = "done" /\ (answer'[v] = "ok" => result'[v] = "ok")
  BY DEF AnswersTrue
<1>0. answer \in [Worker -> {NULL, "ok", "err"}]
  BY WorkersArePool DEF P!Inv, P!TypeOK, P!Ids, Pool!Ids
<1>1. CASE answer'[v] = answer[v]
  BY <1>1, LoopsStay DEF AnswersTrue
<1>2. CASE EndJob(v)
  BY <1>0, <1>2 DEF EndJob, Pool!JobReturns, vars, local
<1>3. ASSUME NEW w \in Worker, EndJob(w), w # v PROVE answer'[v] = answer[v]
  BY <1>0, <1>3 DEF EndJob, Pool!JobReturns
<1> QED
  BY <1>1, <1>2, <1>3, AnswerSteps

(* A worker is idle again only after it responded with what is on record.   *)
LEMMA NextRecorded == P!Inv /\ AnswersRecorded /\ CompileNext => AnswersRecorded'
<1> SUFFICES ASSUME P!Inv, AnswersRecorded, CompileNext, P!InRun', NEW v \in P!Answered'
             PROVE  answer'[v] # NULL
  BY DEF AnswersRecorded
<1>0. /\ turn \in Int
      /\ Size \in Int
      /\ tasks \in [P!Ids -> Seq({"job", "stop"})]
      /\ worker \in [P!Ids -> {"receiving", "working", "responding", "stopped", "dead"}]
      /\ answer \in [P!Ids -> {NULL, "ok", "err"}]
  BY PoolSized DEF P!Inv, P!TypeOK
<1>1. v \in P!Sent' /\ tasks'[v] = <<>> /\ worker'[v] = "receiving"
  BY DEF P!Answered, P!Idle
<1>2. CASE CallingThread
  <2>1. P!Main /\ answer' = answer /\ worker' = worker
    BY <1>2, SameMain DEF CallingThread, P!Main, P!CallRun, P!SendJob, P!AllSent, P!Collect,
       P!CollectNothing, P!CheckWorkers, P!ReturnRun, P!DropPool, P!SendStop, P!Join,
       P!DropEnds
  <2>2. CASE P!CallRun
    BY <2>2, <1>1 DEF P!CallRun, P!Sent
  <2>3. CASE P!SendJob
    <3>1. main = "dispatch" /\ main' = "dispatch" /\ turn' = turn + 1 /\ turn \in P!Ids
          /\ tasks' = [tasks EXCEPT ![turn] = Append(@, "job")]
      BY <2>3, <1>0, PoolSized DEF P!SendJob, P!InRun, P!Inv, P!TypeOK, P!Ids
    <3>2. tasks'[turn] # <<>>
      BY <3>1, <1>0
    <3>3. v \in 0 .. turn' - 1 /\ v # turn
      BY <3>1, <3>2, <1>1 DEF P!Sent
    <3>4. v \in 0 .. turn - 1 /\ v \in P!Ids
      BY <3>1, <3>3, <1>0 DEF P!Ids
    <3>5. v \in P!Answered /\ P!InRun
      BY <3>1, <3>3, <3>4, <1>0, <1>1, <2>1 DEF P!Answered, P!Sent, P!Idle, P!InRun
    <3> QED
      BY <3>5, <2>1 DEF AnswersRecorded
  <2>4. CASE P!AllSent
    BY <2>1, <2>4, <1>1 DEF P!AllSent, P!Sent, P!Answered, P!Idle, P!InRun, AnswersRecorded,
       P!Ids
  <2>5. CASE P!Collect \/ P!CollectNothing \/ P!CheckWorkers
    BY <2>1, <2>5, <1>1 DEF P!Collect, P!CollectNothing, P!CheckWorkers, P!Sent, P!Answered,
       P!Idle, P!InRun, AnswersRecorded
  <2>6. CASE P!ReturnRun \/ P!DropPool \/ P!SendStop \/ P!Join \/ P!DropEnds
    BY <2>6 DEF P!ReturnRun, P!DropPool, P!SendStop, P!Join, P!DropEnds, P!Dropping, P!InRun
  <2> QED
    BY <2>1, <2>2, <2>3, <2>4, <2>5, <2>6 DEF P!Main
<1>3. ASSUME NEW w \in Worker, Thread(w) PROVE answer'[v] # NULL
  <2>1. main' = main /\ turn' = turn /\ w \in P!Ids /\ v \in P!Ids
    <3>1. main' = main /\ turn' = turn
      BY <1>3 DEF Thread, TakeTask, RunJob, EndJob, PanicInJob, SendResponse, poolVars,
         Pool!Receive, Pool!JobReturns, Pool!JobPanics, Pool!Respond
    <3>2. P!Sent' \subseteq P!Ids
      BY <3>1, <1>0 DEF P!Sent, P!Ids, P!Inv, P!TypeOK
    <3> QED
      BY <3>1, <3>2, <1>1, WorkersArePool DEF P!Ids, Pool!Ids
  <2>2. ASSUME tasks[v] = <<>>, worker[v] = "receiving", answer'[v] = answer[v]
        PROVE  answer'[v] # NULL
    BY <2>1, <2>2, <1>1 DEF P!Sent, P!Answered, P!Idle, P!InRun, AnswersRecorded
  <2>3. CASE RunJob(w)
    BY <2>2, <2>3, <1>1 DEF RunJob, poolVars
  <2>4. CASE TakeTask(w)
    BY <2>1, <2>2, <2>4, <1>0, <1>1 DEF TakeTask, Pool!Receive
  <2>5. CASE EndJob(w)
    BY <2>1, <2>2, <2>5, <1>0, <1>1 DEF EndJob, Pool!JobReturns
  <2>6. CASE PanicInJob(w)
    BY <2>1, <2>2, <2>6, <1>0, <1>1 DEF PanicInJob, Pool!JobPanics
  <2>7. CASE SendResponse(w)
    <3>1. CASE v = w
      BY <2>1, <2>7, <3>1 DEF SendResponse, Pool!Respond, P!Inv, P!Inductive,
         P!ErrorsAccounted
    <3>2. CASE v # w
      BY <2>1, <2>2, <2>7, <3>2, <1>0, <1>1 DEF SendResponse, Pool!Respond
    <3> QED
      BY <3>1, <3>2
  <2> QED
    BY <1>3, <2>3, <2>4, <2>5, <2>6, <2>7 DEF Thread
<1> QED
  BY <1>2, <1>3 DEF CompileNext

(* A run that returns has every worker's answer and found no error in them; *)
(* after it no worker is in a job whose end could change an answer.         *)
LEMMA NextUnanimous ==
  P!Inv /\ AnswersRecorded /\ OkIsUnanimous /\ CompileNext => OkIsUnanimous'
<1> SUFFICES ASSUME P!Inv, AnswersRecorded, OkIsUnanimous, CompileNext, outcome' = "ok",
                    NEW v \in Worker
             PROVE  answer'[v] = "ok"
  BY DEF OkIsUnanimous
<1>0. v \in P!Ids /\ Worker = P!Ids
  BY WorkersArePool DEF P!Ids, Pool!Ids
<1>1. CASE outcome = "ok"
  <2>1. main \in {"idle", "dropping", "joining", "dropped"}
    BY <1>1, PoolSized DEF P!Inv, P!Inductive, P!OutcomeLater, P!TypeOK, P!InRun
  <2>2. \A w \in Worker : worker[w] # "working"
    BY <2>1, <1>0 DEF P!Inv, P!Inductive, P!JobsAccounted, P!Idle
  <2>3. answer' = answer
    BY <2>2, AnswerSteps DEF EndJob, Pool!JobReturns
  <2> QED
    BY <1>1, <2>3 DEF OkIsUnanimous
<1>2. CASE outcome # "ok"
  <2>1. P!ReturnRun
    <3>1. CASE CallingThread
      BY <3>1, <1>2, PoolSized, SameMain DEF CallingThread, P!Main, P!CallRun, P!SendJob,
         P!AllSent, P!Collect, P!CollectNothing, P!CheckWorkers, P!DropPool, P!SendStop,
         P!Join, P!DropEnds
    <3>2. ASSUME NEW w \in Worker, Thread(w) PROVE outcome' = outcome
      BY <3>2 DEF Thread, TakeTask, RunJob, EndJob, PanicInJob, SendResponse, poolVars,
         Pool!Receive, Pool!JobReturns, Pool!JobPanics, Pool!Respond
    <3> QED
      BY <3>1, <3>2, <1>2 DEF CompileNext
  <2>2. main = "return" /\ ~ errors /\ answer' = answer
    BY <2>1 DEF P!ReturnRun
  <2>3. P!Answered = P!Ids
    BY <2>2, PoolSized, P!ReturnIsComplete
  <2>4. answer[v] # NULL /\ answer[v] # "err"
    BY <2>2, <2>3, <1>0, PoolSized, P!ReturnIsComplete
       DEF AnswersRecorded, P!InRun, P!Inv, P!Inductive, P!ErrorsAccounted, P!Has
  <2>5. answer[v] \in {NULL, "ok", "err"}
    BY <1>0 DEF P!Inv, P!TypeOK
  <2> QED
    BY <2>2, <2>4, <2>5
<1> QED
  BY <1>1, <1>2

(* The records and the loops agree throughout the composition.              *)
LEMMA LinkHolds == CompileSpec => []Link
<1>1. Inv /\ P!Inv /\ Link /\ CompileNext => Link'
  BY NextTrue, NextRecorded, NextUnanimous DEF Link
<1>2. Link /\ UNCHANGED compileVars => Link'
  BY DEF Link, AnswersTrue, AnswersRecorded, OkIsUnanimous, compileVars, vars, local, poolVars,
     P!InRun, P!Answered, P!Sent, P!Idle
<1>3. Inv /\ P!Inv /\ Link /\ [CompileNext]_compileVars => Link'
  BY <1>1, <1>2
<1> QED
  BY <1>3, InitLink, BothInvariants, PTL DEF CompileSpec

------------------------------------------------------------------------------
(* When the run of the pool returned Ok, no worker failed, the queue is     *)
(* empty, every node that was produced was processed and no job is running: *)
(* what Graphs::from asserts before it takes the graph apart.               *)
THEOREM GraphsFinal == CompileSpec => []GraphsAreFinal
<1>1. ASSUME P!Inv, Link, WorkComplete, outcome = "ok"
      PROVE  /\ FailedWorkers = {}
             /\ queue = <<>>
             /\ produced \ Leaf \subseteq taken
             /\ \A w \in Worker : worker[w] # "working"
  <2>1. \A w \in Worker : pc[w] = "done" /\ result[w] = "ok"
    BY <1>1, PoolSized DEF Link, AnswersTrue, OkIsUnanimous
  <2>2. Succeeded /\ FailedWorkers = {}
    BY <2>1 DEF Succeeded, Done, FailedWorkers
  <2>3. main \in {"idle", "dropping", "joining", "dropped"}
    BY <1>1, PoolSized DEF P!Inv, P!Inductive, P!OutcomeLater, P!TypeOK, P!InRun
  <2>4. \A w \in Worker : worker[w] # "working"
    BY <1>1, <2>3, WorkersArePool
       DEF P!Inv, P!Inductive, P!JobsAccounted, P!Idle, P!Ids, Pool!Ids
  <2> QED
    BY <1>1, <2>2, <2>4 DEF WorkComplete
<1>2. P!Inv /\ Link /\ WorkComplete => GraphsAreFinal
  BY <1>1 DEF GraphsAreFinal
<1> QED
  BY <1>2, BothInvariants, LinkHolds, IsBuild, NothingLeftBehind, PTL

(* An outcome of Ok means that every loop returned Ok.                      *)
LEMMA OkMeansSucceeded == ASSUME Link, outcome = "ok" PROVE Succeeded
<1>1. \A w \in Worker : pc[w] = "done" /\ result[w] = "ok"
  BY PoolSized DEF Link, AnswersTrue, OkIsUnanimous
<1> QED
  BY <1>1 DEF Succeeded, Done

\* What the compiler may rely on when run() returned Ok.
ParsersAreComplete ==
  outcome = "ok" =>
    /\ \A x \in Entry : HasParser(x)
    /\ \A x \in NonTerm : \A y \in Predecessors[x] : NormalRoot[y] \notin invalid => HasParser(x)
    /\ \A n \in taken : Root[n] \notin invalid => Successors[n] \subseteq produced

(* When compile_parser_states has Ok from the pool, every entry of the      *)
(* grammar has a valid graph, valid graphs call only what has one, and      *)
(* every valid graph contains whatever its nodes lead to, however the       *)
(* workers were interleaved and whichever graphs had to be rebuilt.         *)
THEOREM ParsersComplete == CompileSpec => []ParsersAreComplete
<1>1. Link /\ EntriesHaveParser /\ CallsResolve /\ WorkComplete => ParsersAreComplete
  BY OkMeansSucceeded DEF ParsersAreComplete, EntriesHaveParser, CallsResolve, WorkComplete
<1> QED
  BY <1>1, LinkHolds, IsBuild, EntriesKept, CallsAnswered, NothingLeftBehind, PTL

(* While the outcome is Ok nothing changes the builder's shared state any   *)
(* more: what compile_parser_states reads after run() is what it stays.     *)
THEOREM GraphsStay == CompileSpec => [][outcome = "ok" => UNCHANGED vars]_compileVars
<1>1. ASSUME Link, outcome = "ok", CompileNext PROVE UNCHANGED vars
  <2>1. \A w \in Worker : pc[w] = "done"
    BY <1>1, OkMeansSucceeded DEF Succeeded, Done
  <2>2. ASSUME NEW w \in Worker, Step(w) PROVE FALSE
    BY <2>1, <2>2 DEF Step, Take, FindNothing, Resume, Idle, HandleFails, HandleStale,
       HandleStages, Produce, Enqueue, Committed, Poison, Invalidate, Rebuild, RootCommitted,
       Recovered, Fail
  <2> QED
    BY <1>1, <2>2 DEF CompileNext, Thread, CallingThread, TakeTask, RunJob, EndJob, PanicInJob,
       SendResponse
<1>2. Link /\ [CompileNext]_compileVars => [outcome = "ok" => UNCHANGED vars]_compileVars
  BY <1>1
<1> QED
  BY <1>2, LinkHolds, PTL DEF CompileSpec
==============================================================================
