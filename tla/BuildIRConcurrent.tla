--------------------------- MODULE BuildIRConcurrent ---------------------------
(***************************************************************************)
(* build_ir_concurrent (build_ir.rs): the nodes of the finished graphs are *)
(* cut into one chunk for each thread of the pool; every thread translates *)
(* its chunk into a map of its own and adds it to the shared one, and its  *)
(* classification to the shared one, under the locks of the two.  The      *)
(* calling thread then takes both out of their Arcs and adds the entry and *)
(* the custom states.                                                      *)
(*                                                                         *)
(* A map of states is a set of pairs <<name, origin>>: the index of the    *)
(* node the state was made from, or N for an entry or a custom state.      *)
(* What the state is made of is module BuildIR.  That the pool runs one    *)
(* job on each thread, and returns when all have answered, is module       *)
(* WorkerPool.                                                             *)
(***************************************************************************)
EXTENDS Naturals, FiniteSets

CONSTANTS
  N,           \* number of nodes with successors
  T,           \* number of threads
  Name, Flag,  \* names of states; the parts of a classification
  Names,       \* node -> the names of the states it gives
  Flags,       \* node -> its classification
  Invalid,     \* nodes of graphs that were given up
  ScannerNode, \* nodes of scanner graphs
  Faults,      \* the sets of nodes whose states may fail to be built
  Extra        \* names of the entry and custom states

Index  == 0 .. N - 1
Thread == 0 .. T - 1
Valid  == Index \ Invalid

ASSUME SizesAssumption == N \in Nat /\ T \in Nat \ {0}
ASSUME NodesAssumption == /\ \A i \in Index : Names[i] \subseteq Name /\ Flags[i] \subseteq Flag
                          /\ Extra \subseteq Name
\* A state is named after the hash of its node, or after a nonterminal or a
\* scanner, which has one valid graph.
ASSUME OneStateAName ==
  \A i, j \in Valid : i # j => Names[i] \cap Names[j] = {}

VARIABLES
  faulty,    \* the nodes whose states cannot be built
  main,      \* where the calling thread is
  pc,        \* thread -> where its job is
  seen,      \* thread -> the classification it holds
  owners,    \* threads whose job still holds clones of the two Arcs
  states,    \* the shared map of states
  class      \* the shared classification

vars == <<faulty, main, pc, seen, owners, states, class>>

Init ==
  /\ faulty \in Faults
  /\ main = "run"
  /\ pc = [t \in Thread |-> "start"]
  /\ seen = [t \in Thread |-> {}]
  /\ owners = Thread
  /\ states = {}
  /\ class = {}

---------------------------------------------------------------------------
(* The job of thread t.                                                    *)

\* Mutant: the remainder of the division belongs to no chunk.
FlooredChunk == N \div T

\* usize::div_ceil
ChunkSize == (N + T - 1) \div T

InChunk(i, t) == ChunkSize * t <= i /\ i < ChunkSize * t + ChunkSize
Mine(t) == {i \in Valid : InChunk(i, t)}

\* The map of a thread: of two nodes with one name the first counts (or_insert).
Local(t) ==
  UNION {(Names[i] \ UNION {Names[j] : j \in {j \in Mine(t) : j < i}}) \X {i} : i \in Mine(t)}

FlagsOf(t) == UNION {Flags[i] : i \in Mine(t) \ ScannerNode}

\* BTreeMap::extend and insert: the newer state of a name stays.
Extended(m, new) ==
  LET names == {q[1] : q \in new} IN {p \in m : p[1] \notin names} \cup new

ReadClassification(t) ==
  /\ pc[t] = "start"
  /\ seen' = [seen EXCEPT ![t] = class]
  /\ pc' = [pc EXCEPT ![t] = "build"]
  /\ UNCHANGED <<faulty, main, owners, states, class>>

\* The nodes of the chunk, up to the first that fails.
Build(t) ==
  /\ pc[t] = "build"
  /\ \/ /\ Mine(t) \cap faulty = {}
        /\ seen' = [seen EXCEPT ![t] = @ \cup FlagsOf(t)]
        /\ pc' = [pc EXCEPT ![t] = "states"]
     \/ /\ Mine(t) \cap faulty # {}
        /\ pc' = [pc EXCEPT ![t] = "fail"]
        /\ UNCHANGED seen
  /\ UNCHANGED <<faulty, main, owners, states, class>>

WriteStates(t) ==
  /\ pc[t] = "states"
  /\ states' = Extended(states, Local(t))
  /\ pc' = [pc EXCEPT ![t] = "class"]
  /\ UNCHANGED <<faulty, main, seen, owners, class>>

WriteClassification(t) ==
  /\ pc[t] = "class"
  /\ class' = class \cup seen[t]
  /\ seen' = [seen EXCEPT ![t] = {}]
  /\ pc' = [pc EXCEPT ![t] = "end"]
  /\ UNCHANGED <<faulty, main, owners, states>>

\* The job is over: what it holds goes before the worker sends the answer.
Drop(t) ==
  /\ pc[t] \in {"end", "fail"}
  /\ t \in owners
  /\ owners' = owners \ {t}
  /\ UNCHANGED <<faulty, main, pc, seen, states, class>>

\* Mutant: the worker keeps the job, and what it holds, until the next task.
AnswerHolding(t) ==
  /\ pc[t] \in {"end", "fail"}
  /\ pc' = [pc EXCEPT ![t] = IF @ = "end" THEN "ok" ELSE "err"]
  /\ UNCHANGED <<faulty, main, seen, owners, states, class>>

Answer(t) ==
  /\ pc[t] \in {"end", "fail"}
  /\ t \notin owners
  /\ pc' = [pc EXCEPT ![t] = IF @ = "end" THEN "ok" ELSE "err"]
  /\ UNCHANGED <<faulty, main, seen, owners, states, class>>

Job(t) == \/ ReadClassification(t) \/ Build(t) \/ WriteStates(t)
          \/ WriteClassification(t) \/ Drop(t) \/ Answer(t)

---------------------------------------------------------------------------
(* The calling thread.                                                     *)

RunReturns ==
  /\ main = "run"
  /\ \A t \in Thread : pc[t] \in {"ok", "err"}
  /\ main' = IF \E t \in Thread : pc[t] = "err" THEN "failed" ELSE "unwrap"
  /\ UNCHANGED <<faulty, pc, seen, owners, states, class>>

\* expect("Should have no other owners") of both Arcs.
Unwrap ==
  /\ main = "unwrap"
  /\ main' = IF owners = {} THEN "extras" ELSE "panicked"
  /\ UNCHANGED <<faulty, pc, seen, owners, states, class>>

AddExtras ==
  /\ main = "extras"
  /\ states' = Extended(states, Extra \X {N})
  /\ main' = "done"
  /\ UNCHANGED <<faulty, pc, seen, owners, class>>

Next == RunReturns \/ Unwrap \/ AddExtras \/ \E t \in Thread : Job(t)

Spec == Init /\ [][Next]_vars

---------------------------------------------------------------------------
TypeOK ==
  /\ main \in {"run", "unwrap", "extras", "done", "failed", "panicked"}
  /\ pc \in [Thread -> {"start", "build", "states", "class", "end", "fail", "ok", "err"}]
  /\ seen \in [Thread -> SUBSET Flag]
  /\ owners \subseteq Thread
  /\ states \subseteq Name \X (0 .. N)
  /\ class \subseteq Flag

\* The calling thread finds itself the only owner of the map and of the
\* classification when it takes them out of their Arcs.
SoleOwner == main # "panicked" /\ (main = "unwrap" => owners = {})

\* The result is that of one thread that translates every valid node: whatever
\* the number of threads, the order in which they end and the two separate locks,
\* no state is lost, doubled or taken from a graph that was given up, and the
\* classification is that of all the nodes of the parser; and there is none when
\* the state of a node cannot be built.
Translated ==
  Extended(UNION {Names[i] \X {i} : i \in Valid}, Extra \X {N})

ResultIsSequential ==
  main = "done" => /\ Valid \cap faulty = {}
                   /\ states = Translated
                   /\ class = UNION {Flags[i] : i \in Valid \ ScannerNode}
=============================================================================
