----------------------------- MODULE BuildStates -----------------------------
(***************************************************************************)
(* The parallel construction of the parse graph: the worker loop of        *)
(* radlr-core/compile/states/build_states.rs over the shared builder of    *)
(* build_graph/graph/mod.rs.                                               *)
(*                                                                         *)
(* A node stands for one hash_id: what handle_kernel_items stages for it   *)
(* is a function of the node (Successors), fixed by the grammar.  Every    *)
(* lock acquisition and every atomic operation is a step of its own; the   *)
(* pushes of one commit are single steps too, made under the graph lock.   *)
(* The end of the loop is a distributed termination detection: a worker    *)
(* that finds the queue empty counts itself in sync_tracker, a worker that *)
(* fails adds more than the count can reach.                               *)
(***************************************************************************)
EXTENDS Integers, Sequences, FiniteSets

CONSTANTS
  Worker,        \* the threads of the pool
  Node,          \* graph nodes, one per hash_id
  Successors,    \* node -> the nodes handle_kernel_items stages for it
  Root,          \* node -> the root its predecessor chain leads to
  Leaf,          \* nodes that are never enqueued
  Peek,          \* nodes of a peek state above level 0
  Faulty,        \* nodes handle_kernel_items rejects with another error
  NonTerm,       \* parsed non-terminals
  Entry,         \* those exported as entry points
  Predecessors,  \* non-terminal -> those whose rules reach it
  NonTermOf,     \* root of a parser graph -> its non-terminal
  NormalRoot,    \* non-terminal -> its root in the normal graph
  FallbackRoot,  \* non-terminal -> its root in the LR fallback graph
  Scanners,      \* node -> the scanner roots staged along with it
  StartQueue,    \* the queue compile_parser_states leaves to the workers
  AllowLR,       \* config.ALLOW_LR
  NULL

Elements(s) == {s[i] : i \in DOMAIN s}

NoRepeats(s) == \A i, j \in DOMAIN s : s[i] = s[j] => i = j

N == Cardinality(Worker)

ASSUME WorkersAssumption == IsFiniteSet(Worker) /\ Worker # {}

ASSUME GrammarAssumption ==
  /\ NULL \notin Node \cup {"ok", "halted", "failed"}
  /\ Successors \in [Node -> SUBSET Node]
  /\ Scanners \in [Node -> SUBSET Node]
  /\ Root \in [Node -> Node]
  /\ Leaf \subseteq Node
  /\ Peek \subseteq Node
  /\ Entry \subseteq NonTerm
  /\ Predecessors \in [NonTerm -> SUBSET NonTerm]
  /\ NormalRoot \in [NonTerm -> Node]
  /\ FallbackRoot \in [NonTerm -> Node]
  /\ \A n \in Peek : NonTermOf[Root[n]] \in NonTerm
  /\ StartQueue \in Seq(Node \ Leaf)
  /\ NoRepeats(StartQueue)
  /\ AllowLR \in BOOLEAN

\* The hash of a root takes in the non-terminal its items start and the version
\* of its graph.
ASSUME RootsAssumption ==
  \A x \in NonTerm : /\ NonTermOf[NormalRoot[x]] = x
                     /\ NonTermOf[FallbackRoot[x]] = x
                     /\ \A y \in NonTerm : NormalRoot[x] # FallbackRoot[y]

VARIABLES
  queue,         \* nodes waiting to be processed
  produced,      \* produced_nodes: every hash_id ever committed
  invalid,       \* roots whose `invalid` flag is set
  sync_tracker,  \* waiting workers, plus N + 1 for every failed one
  pc,            \* where each worker stands in the loop
  node,          \* the node each worker works on
  waiting,       \* retries > 0: the worker is counted in sync_tracker
  staged,        \* pre_stage: nodes about to be committed
  pending,       \* nodes a commit has yet to push to the queue
  fruitful,      \* the last commit queued at least one new state
  recovering,    \* the worker is rebuilding after a failed peek
  rebuild,       \* non-terminals whose fallback graph is yet to be started
  result,        \* what the job returned
  taken          \* history: nodes some worker has taken

shared == <<queue, produced, invalid, sync_tracker>>
local == <<pc, node, waiting, staged, pending, fruitful, recovering, rebuild, result>>
history == <<taken>>
vars == <<shared, local, history>>

PC == {"poll", "took", "handle", "produce", "enqueue", "poison", "invalidate",
       "rebuild", "fail", "idle", "done"}

Init ==
  /\ queue = StartQueue
  /\ produced = Elements(StartQueue)
  /\ invalid = {}
  /\ sync_tracker = 0
  /\ pc = [w \in Worker |-> "poll"]
  /\ node = [w \in Worker |-> NULL]
  /\ waiting = [w \in Worker |-> FALSE]
  /\ staged = [w \in Worker |-> {}]
  /\ pending = [w \in Worker |-> {}]
  /\ fruitful = [w \in Worker |-> FALSE]
  /\ recovering = [w \in Worker |-> FALSE]
  /\ rebuild = [w \in Worker |-> {}]
  /\ result = [w \in Worker |-> NULL]
  /\ taken = {}

Go(w, label) == pc' = [pc EXCEPT ![w] = label]

Return(w, value) ==
  /\ Go(w, "done")
  /\ result' = [result EXCEPT ![w] = value]

------------------------------------------------------------------------------
\* get_global_work: the front of the queue, whatever has become of its root.
Take(w) ==
  /\ pc[w] = "poll"
  /\ queue # <<>>
  /\ queue' = Tail(queue)
  /\ node' = [node EXCEPT ![w] = Head(queue)]
  /\ taken' = taken \cup {Head(queue)}
  /\ Go(w, IF waiting[w] THEN "took" ELSE "handle")
  /\ UNCHANGED <<produced, invalid, sync_tracker, waiting, staged, pending, fruitful,
                 recovering, rebuild, result>>

\* Mutated: a worker gives up when another one holds the queue's lock.
FindLocked(w) ==
  /\ pc[w] = "poll"
  /\ Go(w, "idle")
  /\ UNCHANGED <<shared, node, waiting, staged, pending, fruitful, recovering, rebuild,
                 result, history>>

FindNothing(w) ==
  /\ pc[w] = "poll"
  /\ queue = <<>>
  /\ Go(w, "idle")
  /\ UNCHANGED <<shared, node, waiting, staged, pending, fruitful, recovering, rebuild,
                 result, history>>

\* Mutated: retries is not reset.
ResumeStillWaiting(w) ==
  /\ pc[w] = "took"
  /\ sync_tracker' = sync_tracker - 1
  /\ Go(w, "handle")
  /\ UNCHANGED <<queue, produced, invalid, node, waiting, staged, pending, fruitful,
                 recovering, rebuild, result, history>>

\* A worker that had been waiting takes itself off the count.
Resume(w) ==
  /\ pc[w] = "took"
  /\ sync_tracker' = sync_tracker - 1
  /\ waiting' = [waiting EXCEPT ![w] = FALSE]
  /\ Go(w, "handle")
  /\ UNCHANGED <<queue, produced, invalid, node, staged, pending, fruitful, recovering,
                 rebuild, result, history>>

\* The first idle round counts the worker, later ones only look.
Idle(w) ==
  /\ pc[w] = "idle"
  /\ waiting' = [waiting EXCEPT ![w] = TRUE]
  /\ sync_tracker' = IF waiting[w] THEN sync_tracker ELSE sync_tracker + 1
  /\ \/ /\ sync_tracker' = N
        /\ Return(w, "ok")
     \/ /\ sync_tracker' > N
        /\ Return(w, "halted")
     \/ /\ sync_tracker' < N
        /\ Go(w, "poll")
        /\ UNCHANGED result
  /\ UNCHANGED <<queue, produced, invalid, node, staged, pending, fruitful, recovering,
                 rebuild, history>>

------------------------------------------------------------------------------
\* handle_kernel_items up to its commit.
HandleFails(w) ==
  /\ pc[w] = "handle"
  /\ node[w] \in Faulty
  /\ Go(w, "fail")
  /\ UNCHANGED <<shared, node, waiting, staged, pending, fruitful, recovering, rebuild,
                 result, history>>

\* commit drops what was staged when the root has been invalidated; it then
\* returns u32::MAX, which never looks like an unsuccessful peek.
HandleStale(w) ==
  /\ pc[w] = "handle"
  /\ node[w] \notin Faulty
  /\ Root[node[w]] \in invalid
  /\ Go(w, "poll")
  /\ node' = [node EXCEPT ![w] = NULL]
  /\ UNCHANGED <<shared, waiting, staged, pending, fruitful, recovering, rebuild, result,
                 history>>

\* A staged state brings the scanner roots of its symbols with it.
WithScanners(S) == S \cup UNION {Scanners[n] : n \in S}

HandleStages(w) ==
  /\ pc[w] = "handle"
  /\ node[w] \notin Faulty
  /\ Root[node[w]] \notin invalid
  /\ staged' = [staged EXCEPT ![w] = WithScanners(Successors[node[w]])]
  /\ Go(w, "produce")
  /\ UNCHANGED <<shared, node, waiting, pending, fruitful, recovering, rebuild, result,
                 history>>

\* The second half of commit runs under the locks of graph and produced_nodes;
\* it does not take them when there is nothing to add.
Unlocked == \A w \in Worker : pc[w] # "enqueue"

\* Mutated: produced_nodes is not consulted.
NewUnchecked(w) == staged[w]

New(w) == staged[w] \ produced

Produce(w) ==
  /\ pc[w] = "produce"
  /\ staged[w] # {} => Unlocked
  /\ produced' = produced \cup New(w)
  /\ pending' = [pending EXCEPT ![w] = New(w) \ Leaf]
  /\ fruitful' = [fruitful EXCEPT ![w] = New(w) # {}]
  /\ staged' = [staged EXCEPT ![w] = {}]
  /\ Go(w, "enqueue")
  /\ UNCHANGED <<queue, invalid, sync_tracker, node, waiting, recovering, rebuild, result,
                 history>>

Enqueue(w) ==
  /\ pc[w] = "enqueue"
  /\ \E n \in pending[w] :
       /\ queue' = Append(queue, n)
       /\ pending' = [pending EXCEPT ![w] = @ \ {n}]
  /\ UNCHANGED <<produced, invalid, sync_tracker, pc, node, waiting, staged, fruitful,
                 recovering, rebuild, result, history>>

\* The end of handle_kernel_items: a peek that led to no new state is reported
\* as non-deterministic.
Inconclusive(w) == node[w] \in Peek /\ ~ fruitful[w]

Committed(w) ==
  /\ pc[w] = "enqueue"
  /\ pending[w] = {}
  /\ ~ recovering[w]
  /\ \/ /\ ~ Inconclusive(w) \/ ~ AllowLR
        /\ Go(w, "poll")
        /\ node' = [node EXCEPT ![w] = NULL]
     \/ /\ Inconclusive(w)
        /\ AllowLR
        /\ Go(w, "poison")
        /\ UNCHANGED node
  /\ UNCHANGED <<shared, waiting, staged, pending, fruitful, recovering, rebuild, result,
                 history>>

------------------------------------------------------------------------------
\* The recovery from a NonDeterministicPeek.
Failed(w) == NonTermOf[Root[node[w]]]

Poison(w) ==
  /\ pc[w] = "poison"
  /\ invalid' = invalid \cup {Root[node[w]]}
  /\ Go(w, IF Failed(w) \notin Entry /\ Predecessors[Failed(w)] # {}
           THEN "invalidate" ELSE "fail")
  /\ UNCHANGED <<queue, produced, sync_tracker, node, waiting, staged, pending, fruitful,
                 recovering, rebuild, result, history>>

\* Mutated: entry points are not started again in the fallback graph.
InvalidateSparesEntry(w) ==
  /\ pc[w] = "invalidate"
  /\ invalid' = invalid \cup {NormalRoot[x] : x \in Predecessors[Failed(w)] \cup {Failed(w)}}
  /\ rebuild' = [rebuild EXCEPT ![w] = Predecessors[Failed(w)] \ Entry]
  /\ recovering' = [recovering EXCEPT ![w] = TRUE]
  /\ Go(w, "rebuild")
  /\ UNCHANGED <<queue, produced, sync_tracker, node, waiting, staged, pending, fruitful,
                 result, history>>

\* Mutated: only the failed non-terminal is invalidated.
InvalidateFailedOnly(w) ==
  /\ pc[w] = "invalidate"
  /\ invalid' = invalid \cup {NormalRoot[Failed(w)]}
  /\ rebuild' = [rebuild EXCEPT ![w] = Predecessors[Failed(w)]]
  /\ recovering' = [recovering EXCEPT ![w] = TRUE]
  /\ Go(w, "rebuild")
  /\ UNCHANGED <<queue, produced, sync_tracker, node, waiting, staged, pending, fruitful,
                 result, history>>

\* invalidate_nonterms reaches the roots of the normal graph only.
Invalidate(w) ==
  /\ pc[w] = "invalidate"
  /\ invalid' = invalid \cup {NormalRoot[x] : x \in Predecessors[Failed(w)] \cup {Failed(w)}}
  /\ rebuild' = [rebuild EXCEPT ![w] = Predecessors[Failed(w)]]
  /\ recovering' = [recovering EXCEPT ![w] = TRUE]
  /\ Go(w, "rebuild")
  /\ UNCHANGED <<queue, produced, sync_tracker, node, waiting, staged, pending, fruitful,
                 result, history>>

\* Each predecessor is started again in the fallback graph, in a commit of its
\* own that is subject to no root.
Rebuild(w) ==
  /\ pc[w] = "rebuild"
  /\ \E x \in rebuild[w] :
       /\ staged' = [staged EXCEPT ![w] = WithScanners({FallbackRoot[x]})]
       /\ rebuild' = [rebuild EXCEPT ![w] = @ \ {x}]
  /\ Go(w, "produce")
  /\ UNCHANGED <<shared, node, waiting, pending, fruitful, recovering, result, history>>

RootCommitted(w) ==
  /\ pc[w] = "enqueue"
  /\ pending[w] = {}
  /\ recovering[w]
  /\ Go(w, "rebuild")
  /\ UNCHANGED <<shared, node, waiting, staged, pending, fruitful, recovering, rebuild,
                 result, history>>

Recovered(w) ==
  /\ pc[w] = "rebuild"
  /\ rebuild[w] = {}
  /\ recovering' = [recovering EXCEPT ![w] = FALSE]
  /\ node' = [node EXCEPT ![w] = NULL]
  /\ Go(w, "poll")
  /\ UNCHANGED <<shared, waiting, staged, pending, fruitful, rebuild, result, history>>

\* Mutated: a failing worker leaves without a trace.
FailSilently(w) ==
  /\ pc[w] = "fail"
  /\ node' = [node EXCEPT ![w] = NULL]
  /\ Return(w, "failed")
  /\ UNCHANGED <<shared, waiting, staged, pending, fruitful, recovering, rebuild, history>>

\* Mutated: a failing worker counts itself like a waiting one.
FailAsWaiting(w) ==
  /\ pc[w] = "fail"
  /\ sync_tracker' = sync_tracker + 1
  /\ node' = [node EXCEPT ![w] = NULL]
  /\ Return(w, "failed")
  /\ UNCHANGED <<queue, produced, invalid, waiting, staged, pending, fruitful, recovering,
                 rebuild, history>>

\* error_count halts the others once the queue is exhausted.
Fail(w) ==
  /\ pc[w] = "fail"
  /\ sync_tracker' = sync_tracker + N + 1
  /\ node' = [node EXCEPT ![w] = NULL]
  /\ Return(w, "failed")
  /\ UNCHANGED <<queue, produced, invalid, waiting, staged, pending, fruitful, recovering,
                 rebuild, history>>

Step(w) ==
  \/ Take(w)
  \/ FindNothing(w)
  \/ Resume(w)
  \/ Idle(w)
  \/ HandleFails(w)
  \/ HandleStale(w)
  \/ HandleStages(w)
  \/ Produce(w)
  \/ Enqueue(w)
  \/ Committed(w)
  \/ Poison(w)
  \/ Invalidate(w)
  \/ Rebuild(w)
  \/ RootCommitted(w)
  \/ Recovered(w)
  \/ Fail(w)

Next == \E w \in Worker : Step(w)

Spec == Init /\ [][Next]_vars

\* Each worker is a thread the operating system runs; the locks are held for a
\* bounded number of steps and the sleep between two idle rounds ends.
FairSpec == Spec /\ \A w \in Worker : WF_vars(Step(w))

------------------------------------------------------------------------------
Done == \A w \in Worker : pc[w] = "done"

\* build_states returns Ok: no worker returned an error.
Succeeded == Done /\ \A w \in Worker : result[w] = "ok"

FailedWorkers == {w \in Worker : result[w] = "failed"}

Waiting == {w \in Worker : waiting[w]}

(* Type correctness.                                                        *)
TypeOK ==
  /\ queue \in Seq(Node \ Leaf)
  /\ produced \subseteq Node
  /\ invalid \subseteq Node
  /\ sync_tracker \in Nat
  /\ pc \in [Worker -> PC]
  /\ node \in [Worker -> Node \cup {NULL}]
  /\ waiting \in [Worker -> BOOLEAN]
  /\ staged \in [Worker -> SUBSET Node]
  /\ pending \in [Worker -> SUBSET (Node \ Leaf)]
  /\ fruitful \in [Worker -> BOOLEAN]
  /\ recovering \in [Worker -> BOOLEAN]
  /\ rebuild \in [Worker -> SUBSET NonTerm]
  /\ result \in [Worker -> {NULL, "ok", "halted", "failed"}]
  /\ taken \subseteq Node

(* sync_tracker means what the loop takes it to mean: the workers counted   *)
(* as waiting, and N + 1 for every worker that failed.                      *)
TrackerExact ==
  sync_tracker = Cardinality(Waiting) + (N + 1) * Cardinality(FailedWorkers)

(* A node is in one place at a time and is never processed again: the queue *)
(* has no repeats, and nothing queued or about to be was already taken.     *)
NoNodeTwice ==
  /\ NoRepeats(queue)
  /\ Elements(queue) \cap taken = {}
  /\ \A w \in Worker : pending[w] \cap (Elements(queue) \cup taken) = {}
  /\ \A v, w \in Worker : v # w => pending[v] \cap pending[w] = {}
  /\ \A v, w \in Worker : node[v] = node[w] /\ node[v] # NULL => v = w

(* The termination detection is sound although a waiting worker takes work  *)
(* before it uncounts itself: when all workers returned Ok nothing is left  *)
(* in the queue, every node was taken, and the graph of every valid root is *)
(* closed: no successor of one of its nodes is missing.                     *)
WorkComplete ==
  Succeeded =>
    /\ queue = <<>>
    /\ produced \ Leaf \subseteq taken
    /\ \A n \in taken : Root[n] \notin invalid => Successors[n] \subseteq produced

HasParser(x) ==
  NormalRoot[x] \notin invalid \/ FallbackRoot[x] \in produced \ invalid

(* A build that succeeds gives a parser to every entry point, also to one   *)
(* whose normal graph was invalidated because of another non-terminal.      *)
EntriesHaveParser == Succeeded => \A x \in Entry : HasParser(x)

(* A graph of the normal kind may call the non-terminals its rules reach;   *)
(* if it is still valid in the end, each of them has a parser to call.      *)
CallsResolve ==
  Succeeded =>
    \A x \in NonTerm : \A y \in Predecessors[x] :
      NormalRoot[y] \notin invalid => HasParser(x)

(* After a worker has failed no other worker ends in success.               *)
NoOkAfterFailure ==
  [][FailedWorkers # {} =>
       \A w \in Worker : result'[w] = "ok" => result[w] = "ok"]_vars

(* Every worker returns: the workers do not wait for one another forever.   *)
Termination == <>Done

(* A failure does not strand the other workers: each of them returns, and   *)
(* the error of one job is enough for the run as a whole to fail.           *)
FailureEndsAll == FailedWorkers # {} ~> Done /\ ~ Succeeded

------------------------------------------------------------------------------
\* The parts of the inductive invariant.
Working == {"took", "handle", "produce", "enqueue", "poison", "invalidate", "rebuild", "fail"}

\* What each worker's place in the loop says of its locals.
LocalsAgree ==
  \A w \in Worker :
    /\ node[w] # NULL <=> pc[w] \in Working
    /\ node[w] # NULL => node[w] \in taken
    /\ pc[w] = "took" => waiting[w]
    /\ pc[w] \in Working \ {"took"} => ~ waiting[w]
    /\ pending[w] # {} => pc[w] = "enqueue"
    /\ pc[w] \in {"poison", "invalidate"} => node[w] \in Peek
    /\ result[w] # NULL <=> pc[w] = "done"

\* While there is work, some worker that is not counted will poll again.
SomeoneActive ==
  queue # <<>> /\ FailedWorkers = {} =>
    \E w \in Worker : ~ waiting[w] /\ pc[w] \notin {"idle", "done"}

\* Every produced node has a place, and only produced nodes do.
Accounted ==
  /\ \A n \in produced \ Leaf :
       n \in taken \/ n \in Elements(queue) \/ \E w \in Worker : n \in pending[w]
  /\ taken \cup Elements(queue) \subseteq produced
  /\ \A w \in Worker : pending[w] \subseteq produced

\* A worker is on its way to commit the successors of n.
Covers(w, n) ==
  /\ node[w] = n
  /\ \/ pc[w] \in {"took", "handle", "fail"}
     \/ pc[w] = "produce" /\ Successors[n] \subseteq staged[w]

\* The successors of a taken node are there, unless a worker has yet to commit
\* them or its root is no longer valid.
Closed ==
  FailedWorkers = {} =>
    \A n \in taken :
      \/ Root[n] \in invalid
      \/ Successors[n] \subseteq produced
      \/ \E w \in Worker : Covers(w, n)

\* What each worker's place in the loop says of its recovery.
RecoveryAgrees ==
  \A w \in Worker :
    /\ staged[w] # {} => pc[w] = "produce"
    /\ rebuild[w] # {} => recovering[w]
    /\ recovering[w] => pc[w] \in {"rebuild", "produce", "enqueue"}
    /\ pc[w] = "invalidate" => Failed(w) \notin Entry

\* An error has been returned, or is about to be.
Failing == \E w \in Worker : pc[w] = "fail" \/ result[w] = "failed"

\* No graph of x is asked for any more: none that calls it is valid, or a worker
\* is about to invalidate them.
Abandoned(x) ==
  /\ x \notin Entry
  /\ \/ \A y \in Predecessors[x] : NormalRoot[y] \in invalid
     \/ \E w \in Worker : pc[w] = "invalidate" /\ Failed(w) = x

\* The fallback graph of x is started, or a worker has yet to do so.
Restarted(x) ==
  \/ FallbackRoot[x] \in produced
  \/ \E w \in Worker : x \in rebuild[w] \/ FallbackRoot[x] \in staged[w]

\* Unless the build fails, what loses its normal graph gets a fallback graph,
\* and only what nobody needs loses that one too.
Recoverable ==
  ~ Failing =>
    \A x \in NonTerm :
      /\ NormalRoot[x] \in invalid => Abandoned(x) \/ Restarted(x)
      /\ FallbackRoot[x] \in invalid => Abandoned(x)

(* The inductive invariant of the proofs.                                   *)
Inductive ==
  /\ LocalsAgree
  /\ TrackerExact
  /\ SomeoneActive
  /\ Accounted
  /\ NoNodeTwice
  /\ Closed
  /\ RecoveryAgrees
  /\ Recoverable
==============================================================================
