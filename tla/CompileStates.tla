---------------------------- MODULE CompileStates ----------------------------
(***************************************************************************)
(* compile_parser_states: the worker pool running the jobs of build_states.*)
(* A job of the pool is the loop of one worker of BuildStates; it returns  *)
(* to the pool what the loop returned.  A panic inside handle_kernel_items *)
(* takes the thread with it, and the other jobs go on.                     *)
(***************************************************************************)
EXTENDS BuildStates

CONSTANTS Size, MaxRuns, MayPanic

VARIABLES main, turn, tasks, worker, answer, responses, errors, count, outcome, runs

Pool == INSTANCE WorkerPool

ASSUME WorkersArePool == Worker = Pool!Ids

ASSUME PoolSized ==
  /\ Size \in Nat \ {0}
  /\ MaxRuns \in Nat
  /\ MayPanic \in BOOLEAN
  /\ NULL \notin {"ok", "err"}

poolVars == <<main, turn, tasks, worker, answer, responses, errors, count, outcome, runs>>

compileVars == <<vars, poolVars>>

CompileInit == Init /\ Pool!Init

\* The caller's first use of the pool is the run, not its end.
CallingThread ==
  /\ Pool!Main
  /\ runs = 0 => main' # "dropping"
  /\ UNCHANGED vars

TakeTask(w) == Pool!Receive(w) /\ UNCHANGED vars

RunJob(w) ==
  /\ worker[w] = "working"
  /\ Step(w)
  /\ UNCHANGED poolVars

\* Mutated: the job's result is ignored.
EndJobInSuccess(w) ==
  /\ pc[w] = "done"
  /\ Pool!JobReturns(w, "ok")
  /\ UNCHANGED vars

\* Mutated: a job that was halted never responds.
EndJobUnlessHalted(w) ==
  /\ pc[w] = "done"
  /\ result[w] # "halted"
  /\ Pool!JobReturns(w, IF result[w] = "ok" THEN "ok" ELSE "err")
  /\ UNCHANGED vars

EndJob(w) ==
  /\ pc[w] = "done"
  /\ Pool!JobReturns(w, IF result[w] = "ok" THEN "ok" ELSE "err")
  /\ UNCHANGED vars

PanicInJob(w) ==
  /\ pc[w] = "handle"
  /\ Pool!JobPanics(w)
  /\ UNCHANGED vars

SendResponse(w) == Pool!Respond(w) /\ UNCHANGED vars

Thread(w) ==
  \/ TakeTask(w)
  \/ RunJob(w)
  \/ EndJob(w)
  \/ PanicInJob(w)
  \/ SendResponse(w)

CompileNext == CallingThread \/ \E w \in Worker : Thread(w)

CompileSpec == CompileInit /\ [][CompileNext]_compileVars

\* As for the two components: every thread is scheduled.
FairCompileSpec ==
  /\ CompileSpec
  /\ WF_compileVars(CallingThread)
  /\ \A w \in Worker : WF_compileVars(Thread(w))

------------------------------------------------------------------------------
(* The debug_assert!(queue.is_empty()) of Graphs::from, and what it stands  *)
(* for: when run() returned Ok no worker failed, every node that was        *)
(* produced has been processed and no thread works on the graph any more.   *)
GraphsAreFinal ==
  outcome = "ok" =>
    /\ FailedWorkers = {}
    /\ queue = <<>>
    /\ produced \ Leaf \subseteq taken
    /\ \A w \in Worker : worker[w] # "working"

(* Unless a thread dies in a panic, compile_parser_states returns.          *)
CompileReturns == <>(outcome # NULL \/ \E w \in Worker : worker[w] = "dead")
==============================================================================
