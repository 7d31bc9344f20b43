------------------------------ MODULE WorkerPool ------------------------------
(***************************************************************************)
(* StandardPool of radlr-core/types/worker_pool.rs: the calling thread     *)
(* hands one job to every worker over the worker's own channel, collects   *)
(* one response per worker from a channel they share, and stops and joins  *)
(* the workers when the pool is dropped.                                   *)
(*                                                                         *)
(* A job is a black box that returns Ok or Err, or panics and takes its    *)
(* thread with it.  Every send, receive, check and join is one step.       *)
(***************************************************************************)
EXTENDS Integers, Sequences, FiniteSets

CONSTANTS
  Size,       \* number of workers, at least one after new()
  MaxRuns,    \* bound: calls of run() on one pool
  MayPanic,   \* whether a job may panic
  NULL

ASSUME PoolAssumption ==
  /\ Size \in Nat \ {0}
  /\ MaxRuns \in Nat
  /\ MayPanic \in BOOLEAN
  /\ NULL \notin {"ok", "err"}

Ids == 0 .. Size - 1

VARIABLES
  main,       \* where the calling thread is
  turn,       \* the worker its loop over the workers has reached
  tasks,      \* per worker: its channel
  worker,     \* per worker: receiving, running a job, responding or gone
  answer,     \* per worker: what its last job returned
  responses,  \* the shared response channel
  errors,     \* whether run() has collected an error
  count,      \* how many responses run() has collected
  outcome,    \* what the last run() returned
  runs        \* history: calls of run() so far

vars == <<main, turn, tasks, worker, answer, responses, errors, count, outcome, runs>>

Init ==
  /\ main = "idle"
  /\ turn = 0
  /\ tasks = [w \in Ids |-> <<>>]
  /\ worker = [w \in Ids |-> "receiving"]
  /\ answer = [w \in Ids |-> NULL]
  /\ responses = <<>>
  /\ errors = FALSE
  /\ count = 0
  /\ outcome = NULL
  /\ runs = 0

Gone(w) == worker[w] \in {"stopped", "dead"}

------------------------------------------------------------------------------
\* run(), on the calling thread.
CallRun ==
  /\ main = "idle"
  /\ runs < MaxRuns
  /\ main' = "dispatch"
  /\ turn' = 0
  /\ errors' = FALSE
  /\ count' = 0
  /\ outcome' = NULL
  /\ runs' = runs + 1
  /\ UNCHANGED <<tasks, worker, answer, responses>>

\* A send to a thread that is gone ends in todo!("Rebuild worker").
SendJob ==
  /\ main = "dispatch"
  /\ turn < Size
  /\ \/ /\ ~ Gone(turn)
        /\ tasks' = [tasks EXCEPT ![turn] = Append(@, "job")]
        /\ turn' = turn + 1
        /\ UNCHANGED main
     \/ /\ Gone(turn)
        /\ main' = "unwinding"
        /\ turn' = 0
        /\ UNCHANGED tasks
  /\ UNCHANGED <<worker, answer, responses, errors, count, outcome, runs>>

AllSent ==
  /\ main = "dispatch"
  /\ turn = Size
  /\ main' = "collect"
  /\ UNCHANGED <<turn, tasks, worker, answer, responses, errors, count, outcome, runs>>

\* Mutated: off by one in the number of responses awaited.
CollectAllButOne ==
  /\ main = "collect"
  /\ responses # <<>>
  /\ responses' = Tail(responses)
  /\ count' = count + 1
  /\ errors' = (errors \/ Head(responses) = "err")
  /\ main' = IF count' >= Size - 1 THEN "return" ELSE "check"
  /\ UNCHANGED <<turn, tasks, worker, answer, outcome, runs>>

\* Mutated: only the last response decides.
CollectLastError ==
  /\ main = "collect"
  /\ responses # <<>>
  /\ responses' = Tail(responses)
  /\ count' = count + 1
  /\ errors' = (Head(responses) = "err")
  /\ main' = IF count' >= Size THEN "return" ELSE "check"
  /\ UNCHANGED <<turn, tasks, worker, answer, outcome, runs>>

Collect ==
  /\ main = "collect"
  /\ responses # <<>>
  /\ responses' = Tail(responses)
  /\ count' = count + 1
  /\ errors' = (errors \/ Head(responses) = "err")
  /\ main' = IF count' >= Size THEN "return" ELSE "check"
  /\ UNCHANGED <<turn, tasks, worker, answer, outcome, runs>>

\* recv_timeout gave up, or found every sender gone, which ends in todo!().
CollectNothing ==
  /\ main = "collect"
  /\ responses = <<>>
  /\ \/ /\ \E w \in Ids : ~ Gone(w)
        /\ main' = "check"
        /\ UNCHANGED turn
     \/ /\ \A w \in Ids : Gone(w)
        /\ main' = "unwinding"
        /\ turn' = 0
  /\ UNCHANGED <<tasks, worker, answer, responses, errors, count, outcome, runs>>

\* Mutated: dead workers go unnoticed.
CheckNothing ==
  /\ main = "check"
  /\ main' = "collect"
  /\ UNCHANGED <<turn, tasks, worker, answer, responses, errors, count, outcome, runs>>

\* panic!("Worker [{v}] Died")
CheckWorkers ==
  /\ main = "check"
  /\ \/ /\ \A w \in Ids : ~ Gone(w)
        /\ main' = "collect"
        /\ UNCHANGED turn
     \/ /\ \E w \in Ids : Gone(w)
        /\ main' = "unwinding"
        /\ turn' = 0
  /\ UNCHANGED <<tasks, worker, answer, responses, errors, count, outcome, runs>>

ReturnRun ==
  /\ main = "return"
  /\ outcome' = IF errors THEN "err" ELSE "ok"
  /\ main' = "idle"
  /\ UNCHANGED <<turn, tasks, worker, answer, responses, errors, count, runs>>

\* Drop, when the pool goes out of scope; it runs the same during a panic.
DropPool ==
  /\ main = "idle"
  /\ main' = "dropping"
  /\ turn' = 0
  /\ UNCHANGED <<tasks, worker, answer, responses, errors, count, outcome, runs>>

Dropping == main \in {"dropping", "unwinding"}

\* Mutated: the workers are told to stop but not waited for.
StopWithoutJoin ==
  /\ Dropping
  /\ turn < Size
  /\ tasks' = [tasks EXCEPT ![turn] = Append(@, "stop")]
  /\ turn' = turn + 1
  /\ UNCHANGED <<main, worker, answer, responses, errors, count, outcome, runs>>

\* A worker that cannot be told to stop is not joined either.
SendStop ==
  /\ Dropping
  /\ turn < Size
  /\ \/ /\ ~ Gone(turn)
        /\ tasks' = [tasks EXCEPT ![turn] = Append(@, "stop")]
        /\ main' = IF main = "dropping" THEN "joining" ELSE "unwindJoining"
        /\ UNCHANGED turn
     \/ /\ Gone(turn)
        /\ turn' = turn + 1
        /\ UNCHANGED <<tasks, main>>
  /\ UNCHANGED <<worker, answer, responses, errors, count, outcome, runs>>

Join ==
  /\ main \in {"joining", "unwindJoining"}
  /\ Gone(turn)
  /\ turn' = turn + 1
  /\ main' = IF main = "joining" THEN "dropping" ELSE "unwinding"
  /\ UNCHANGED <<tasks, worker, answer, responses, errors, count, outcome, runs>>

DropEnds ==
  /\ Dropping
  /\ turn = Size
  /\ main' = IF main = "dropping" THEN "dropped" ELSE "panicked"
  /\ UNCHANGED <<turn, tasks, worker, answer, responses, errors, count, outcome, runs>>

Main ==
  \/ CallRun
  \/ SendJob
  \/ AllSent
  \/ Collect
  \/ CollectNothing
  \/ CheckWorkers
  \/ ReturnRun
  \/ DropPool
  \/ SendStop
  \/ Join
  \/ DropEnds

------------------------------------------------------------------------------
\* inner_loop, on the thread of worker w.
Receive(w) ==
  /\ worker[w] = "receiving"
  /\ tasks[w] # <<>>
  /\ tasks' = [tasks EXCEPT ![w] = Tail(@)]
  /\ worker' = [worker EXCEPT ![w] = IF Head(tasks[w]) = "job" THEN "working" ELSE "stopped"]
  /\ UNCHANGED <<main, turn, answer, responses, errors, count, outcome, runs>>

JobReturns(w, r) ==
  /\ worker[w] = "working"
  /\ worker' = [worker EXCEPT ![w] = "responding"]
  /\ answer' = [answer EXCEPT ![w] = r]
  /\ UNCHANGED <<main, turn, tasks, responses, errors, count, outcome, runs>>

JobPanics(w) ==
  /\ MayPanic
  /\ worker[w] = "working"
  /\ worker' = [worker EXCEPT ![w] = "dead"]
  /\ UNCHANGED <<main, turn, tasks, answer, responses, errors, count, outcome, runs>>

Respond(w) ==
  /\ worker[w] = "responding"
  /\ responses' = Append(responses, answer[w])
  /\ worker' = [worker EXCEPT ![w] = "receiving"]
  /\ UNCHANGED <<main, turn, tasks, answer, errors, count, outcome, runs>>

Work(w) ==
  \/ Receive(w)
  \/ \E r \in {"ok", "err"} : JobReturns(w, r)
  \/ JobPanics(w)
  \/ Respond(w)

Next == Main \/ \E w \in Ids : Work(w)

Spec == Init /\ [][Next]_vars

\* The calling thread and the workers are scheduled by the operating system;
\* jobs are assumed to return or panic.
FairSpec == Spec /\ WF_vars(Main) /\ \A w \in Ids : WF_vars(Work(w))

------------------------------------------------------------------------------
InRun == main \in {"dispatch", "collect", "check", "return"}

Dead == {w \in Ids : worker[w] = "dead"}

(* Type correctness.                                                        *)
TypeOK ==
  /\ main \in {"idle", "dispatch", "collect", "check", "return", "dropping", "joining",
               "dropped", "unwinding", "unwindJoining", "panicked"}
  /\ turn \in 0 .. Size
  /\ tasks \in [Ids -> Seq({"job", "stop"})]
  /\ worker \in [Ids -> {"receiving", "working", "responding", "stopped", "dead"}]
  /\ answer \in [Ids -> {NULL, "ok", "err"}]
  /\ responses \in Seq({"ok", "err"})
  /\ errors \in BOOLEAN
  /\ count \in 0 .. Size
  /\ outcome \in {NULL, "ok", "err"}
  /\ runs \in 0 .. MaxRuns

(* "This blocks until all worker have returned from their closure": run()   *)
(* returns when every job of this run has returned and been answered for,   *)
(* so that the next run starts with empty channels and idle workers.        *)
RunIsComplete ==
  main \in {"return", "idle"} =>
    /\ responses = <<>>
    /\ \A w \in Ids : tasks[w] = <<>> /\ worker[w] = "receiving"

(* run() returns Err exactly when one of its jobs did.                      *)
ErrorsSurface ==
  main = "idle" /\ runs > 0 =>
    (outcome = "err" <=> \E w \in Ids : answer[w] = "err")

(* A worker that dies in a run keeps that run from returning.               *)
DeathIsNoticed == Dead # {} => outcome = NULL /\ main # "return"

(* The pool is gone only after every one of its threads is.                 *)
DropJoinsAll == main \in {"dropped", "panicked"} => \A w \in Ids : Gone(w)

\* What every worker owes the calling thread.
Idle(w) == tasks[w] = <<>> /\ worker[w] = "receiving"

Sent == IF main = "dispatch" THEN 0 .. turn - 1 ELSE Ids

\* The workers that have sent the response of this run.
Answered == {w \in Sent : Idle(w)}

\* A job that was sent is on its channel, with its worker, or answered.
JobsAccounted ==
  /\ main = "idle" => \A w \in Ids : Idle(w)
  /\ InRun =>
       /\ \A w \in Sent : \/ tasks[w] = <<"job">> /\ worker[w] = "receiving"
                          \/ tasks[w] = <<>> /\ worker[w] # "stopped"
       /\ \A w \in Ids \ Sent : Idle(w)
  /\ main \in {"dropping", "joining", "dropped"} =>
       \A w \in Ids : tasks[w] \in Seq({"stop"}) /\ worker[w] \in {"receiving", "stopped"}

\* Every response of this run is collected or still on the channel.
ResponsesAccounted ==
  /\ InRun => count + Len(responses) = Cardinality(Answered)
  /\ main = "idle" => responses = <<>>
  /\ main = "dispatch" => count = 0
  /\ main \in {"collect", "check"} => count < Size
  /\ main = "return" => count = Size

Has(channel, m) == \E i \in 1 .. Len(channel) : channel[i] = m

ErrorsAccounted ==
  /\ \A w \in Ids : worker[w] = "responding" => answer[w] # NULL
  /\ InRun => (errors \/ Has(responses, "err") <=> \E w \in Answered : answer[w] = "err")

OutcomeLater ==
  InRun \/ main \in {"unwinding", "unwindJoining", "panicked"} => outcome = NULL

StopsInOrder ==
  /\ main \in {"dropping", "joining", "unwinding", "unwindJoining"} =>
       \A w \in 0 .. turn - 1 : Gone(w)
  /\ main \in {"joining", "unwindJoining"} => turn < Size

(* Why the properties above hold: at every point of a run the calling       *)
(* thread has heard, or will hear, of each worker exactly once.             *)
Inductive ==
  /\ JobsAccounted
  /\ ResponsesAccounted
  /\ ErrorsAccounted
  /\ OutcomeLater
  /\ StopsInOrder
  /\ ErrorsSurface
  /\ DropJoinsAll

(* run() does return, with a result or by the panic that reports a dead     *)
(* worker, and dropping the pool ends.                                      *)
Returns ==
  /\ main = "dispatch" ~> main \in {"idle", "panicked"}
  /\ Dropping ~> main \in {"dropped", "panicked"}
==============================================================================
