------------------------------ MODULE ForkParser ------------------------------
(***************************************************************************)
(* The fork parser of radlr-rust-runtime/parsers/fork.rs: contexts that    *)
(* follow every way to parse an input, in sweeps over a ContextQueue.      *)
(*                                                                         *)
(* A sweep pops every context of the last generation, steps those that are *)
(* not ahead of the slowest one, and merges the contexts that have just    *)
(* reduced the same non-terminal in the same surroundings.  One iteration  *)
(* of each loop is one action.                                             *)
(*                                                                         *)
(* The bytecode of a parser is abstracted to an LR automaton: Table gives  *)
(* the actions its states take on a token (several of them are a Fork,     *)
(* none is an Error) and Target the state after a reduction.  Input is a   *)
(* sequence of tokens, and sym_ptr counts tokens.  Without error recovery  *)
(* contexts at the same position have the same entropy, so entropy is left *)
(* out, and with it the order of alternatives made at different positions. *)
(***************************************************************************)
EXTENDS Integers, Sequences, SequencesExt, FiniteSets

CONSTANTS
  Task,     \* [grammar, input]: what may be parsed
  Rule,     \* grammar -> sequence of rules [lhs, rhs]
  Start,    \* grammar -> the state and the non-terminal of its entry point
  Items,    \* grammar -> state -> its items, <<rule, how much of it was passed>>
  Table,    \* grammar -> state -> token -> sequence of actions
  Target,   \* grammar -> state -> non-terminal -> state
  Zero,     \* grammar -> the non-terminal whose id is 0
  END,      \* the token beyond the input
  NULL

\* An input is a sequence of tokens.
ASSUME InputAssumption == \A t \in Task : t.input \in Seq(ToSet(t.input))

StatesOf(g) == DOMAIN Table[g]

ActionsOn(g, s, t) == ToSet(Table[g][s][t])

\* From s to q symbol x is passed, by every item that has passed anything.
Passes(g, s, x, q) ==
  /\ q \in StatesOf(g)
  /\ \A i \in Items[g][q] :
       i[2] > 0 => Rule[g][i[1]].rhs[i[2]] = x /\ <<i[1], i[2] - 1>> \in Items[g][s]

(* What the automata of graphs are like.  No rule is empty (error_types.rs,  *)
(* 120).  Only a state that expects nothing else of a token skips it.        *)
ASSUME AutomatonAssumption ==
  \A t \in Task : LET g == t.grammar IN
    /\ \A r \in DOMAIN Rule[g] : LET rhs == Rule[g][r].rhs IN rhs \in Seq(ToSet(rhs)) /\ rhs # <<>>
    /\ Start[g].state \in StatesOf(g)
    /\ \A i \in Items[g][Start[g].state] : i[2] = 0
    /\ \A s \in StatesOf(g) :
         /\ ToSet(t.input) \cup {END} \subseteq DOMAIN Table[g][s]
         /\ \A i \in Items[g][s] :
              i[1] \in DOMAIN Rule[g] /\ i[2] \in 0 .. Len(Rule[g][i[1]].rhs)
         /\ \A x \in DOMAIN Table[g][s] :
              /\ Table[g][s][x] \in Seq(ActionsOn(g, s, x))
              /\ \A a \in ActionsOn(g, s, x) :
                   /\ a.act = "shift" => Passes(g, s, x, a.state)
                   /\ a.act = "skip" => Len(Table[g][s][x]) = 1
                   /\ a.act = "accept" => \E i \in Items[g][s] : i[2] > 0
                   /\ a.act = "reduce" =>
                        /\ <<a.rule, Len(Rule[g][a.rule].rhs)>> \in Items[g][s]
                        /\ \A q \in StatesOf(g) :
                             <<a.rule, 0>> \in Items[g][q] =>
                               Passes(g, q, Rule[g][a.rule].lhs, Target[g][q][Rule[g][a.rule].lhs])

VARIABLES
  task,         \* what is being parsed
  phase,        \* where fork_parse and fork_meta_kernel stand
  popQ, pushQ, alive,  \* the pending contexts, see AbstractQueue
  rec_ctx,      \* the context being stepped
  min_advance,  \* sym_ptr of the slowest context of the sweep
  nonterm,      \* non_terminal_id: what rec_ctx reduced last
  branches,     \* the fork states rec_ctx has yet to be split into
  reduction_stage,
  groups,       \* merge groups yet to be processed
  completed,
  errored,
  store,        \* the nodes CSTStore shares
  boxes         \* number of contexts allocated so far

queueVars == <<popQ, pushQ, alive>>
kernelVars == <<min_advance, nonterm, branches, reduction_stage, groups>>
vars == <<task, phase, queueVars, rec_ctx, kernelVars, completed, errored, store, boxes>>

------------------------------------------------------------------------------
\* The member of a set of numbers that k of them do not exceed.
Nth(I, k) == CHOOSE i \in I : Cardinality({j \in I : j <= i}) = k

\* What a sequence has at these positions, in its order.
Picked(s, I) == [k \in 1 .. Cardinality(I) |-> s[Nth(I, k)]]

------------------------------------------------------------------------------
(* Nodes.  A token's id stands for its text too; key is the sequence of     *)
(* values that dedup_hash feeds to the hasher, node after node, without     *)
(* anything to tell where a node ends or, for a token, its type.            *)
Token(t) == [type |-> "token", id |-> t, rule |-> 0, parts |-> <<>>, key |-> <<t>>]

Skipped(t) == [Token(t) EXCEPT !.type = "skipped"]

Keys(nodes) == FlattenSeq([i \in DOMAIN nodes |-> nodes[i].key])

NonTerm(id, rule, nodes) ==
  [type |-> "nonterm", id |-> id, rule |-> rule, parts |-> nodes, key |-> <<id>> \o Keys(nodes)]

\* All alternatives of a group are nodes of the same canonical value, here id.
Alts(nodes) ==
  [type |-> "alts", id |-> nodes[1].id, rule |-> 0, parts |-> nodes, key |-> Keys(nodes)]

Shared(n) == n.type # "alts" /\ Len(n.parts) <= 3

\* get_unique: the shared node with the same key, if there is one.
Unique(S, n) ==
  IF Shared(n) /\ \E m \in S : m.key = n.key THEN CHOOSE m \in S : m.key = n.key ELSE n

Remember(S, n) == IF Shared(n) THEN S \cup {Unique(S, n)} ELSE S

\* A node is no None.
ASSUME NullAssumption ==
  \A t \in Task : \A x \in ToSet(t.input) \cup {END} : NULL \notin {Token(x), Skipped(x)}

------------------------------------------------------------------------------
\* A context is [box, ptr, stack, symbols, finished]; a stack entry is a state
\* and, in a fork branch, the one action of that branch.
Contexts == [box : Nat, ptr : Nat, finished : BOOLEAN]

Q == INSTANCE AbstractQueue WITH
       Items <- Contexts, Priorities <- Int, result <- rec_ctx

Queued == Q!Owned

Input == task.input

Beyond == Len(Input) + 1   \* usize::MAX

Lookahead(c) == IF c.ptr < Len(Input) THEN Input[c.ptr + 1] ELSE END

\* parser.next: the actions of the state on top of the stack.
Actions(c) ==
  LET top == Last(c.stack)
  IN IF top.branch # NULL THEN <<top.branch>> ELSE Table[task.grammar][top.state][Lookahead(c)]

Acts(c, kind) == Len(Actions(c)) = 1 /\ Actions(c)[1].act = kind

Forks(c) == Len(Actions(c)) > 1

Fails(c) == Actions(c) = <<>>

Plain(s) == [state |-> s, branch |-> NULL]

\* The stack of a context whose top state has acted.
Resumed(c) == Append(Front(c.stack), Plain(Last(c.stack).state))

AfterShift(c) ==
  [c EXCEPT !.ptr = @ + 1, !.stack = Append(Resumed(c), Plain(Actions(c)[1].state))]

AfterSkip(c) == [c EXCEPT !.ptr = @ + 1]

Inserted(c, n) == [c EXCEPT !.symbols = Append(@, Unique(store, n))]

Counted(n) == n.type # "skipped"

\* Mutated: skipped tokens count as symbols of the rule.
FirstOfCountingAll(symbols, count) == {Len(symbols) + 1 - count} \cap Nat

\* Where the last `count` symbols begin, skipped ones not counted.
FirstOf(symbols, count) ==
  IF count = 0 THEN {Len(symbols) + 1}
  ELSE {k \in DOMAIN symbols :
          /\ Counted(symbols[k])
          /\ Cardinality({i \in k .. Len(symbols) : Counted(symbols[i])}) = count}

RuleToReduce(c) == Rule[task.grammar][Actions(c)[1].rule]

\* The stack once the rule's symbols are popped and its non-terminal is passed.
Uncovered(c) == SubSeq(Resumed(c), 1, Len(c.stack) - Len(RuleToReduce(c).rhs))

AfterReduce(c) ==
  LET stack == Uncovered(c)
  IN Append(stack, Plain(Target[task.grammar][Last(stack).state][RuleToReduce(c).lhs]))

Push(c) == Q!AbsPushWithPriority(- c.ptr, c)

KeepQueue == UNCHANGED queueVars

------------------------------------------------------------------------------
Init ==
  /\ task \in Task
  /\ phase = "pop"
  /\ popQ = <<[item |-> [box |-> 0, ptr |-> 0, stack |-> <<Plain(Start[task.grammar].state)>>,
                         symbols |-> <<>>, finished |-> FALSE],
               priority |-> 0]>>
  /\ pushQ = <<>>
  /\ alive = TRUE
  /\ rec_ctx = NULL
  /\ min_advance = Beyond
  /\ nonterm = NULL
  /\ branches = <<>>
  /\ reduction_stage = <<>>
  /\ groups = {}
  /\ completed = <<>>
  /\ errored = <<>>
  /\ store = {}
  /\ boxes = 1

Pop ==
  /\ phase = "pop"
  /\ popQ # <<>>
  /\ Q!AbsPopFront
  /\ phase' = "step"
  /\ UNCHANGED <<task, kernelVars, completed, errored, store, boxes>>

\* Mutated: no context is held back.
AheadNever(c) == FALSE

Ahead(c) == c.ptr > min_advance

\* A context ahead of the slowest one waits for the next sweep.
HoldBack ==
  /\ phase = "step"
  /\ Ahead(rec_ctx)
  /\ Push(rec_ctx)
  /\ phase' = "pop"
  /\ UNCHANGED <<task, kernelVars, completed, errored, store, boxes>>

\* The first action of a context in a sweep.
Stepping ==
  /\ phase = "step"
  /\ ~ Ahead(rec_ctx)
  /\ min_advance' = IF rec_ctx.ptr < min_advance THEN rec_ctx.ptr ELSE min_advance

StepInsert(c, n) ==
  /\ Stepping
  /\ Push(Inserted(c, n))
  /\ store' = Remember(store, n)
  /\ phase' = "pop"
  /\ UNCHANGED <<task, nonterm, branches, reduction_stage, groups, completed, errored, boxes>>

StepSkip ==
  /\ phase = "step"
  /\ Acts(rec_ctx, "skip")
  /\ StepInsert(AfterSkip(rec_ctx), Skipped(Lookahead(rec_ctx)))

StepShift ==
  /\ phase = "step"
  /\ Acts(rec_ctx, "shift")
  /\ StepInsert(AfterShift(rec_ctx), Token(Lookahead(rec_ctx)))

StepError ==
  /\ Stepping
  /\ Fails(rec_ctx)
  /\ errored' = Append(errored, [rec_ctx EXCEPT !.finished = TRUE])
  /\ phase' = "pop"
  /\ KeepQueue
  /\ UNCHANGED <<task, rec_ctx, nonterm, branches, reduction_stage, groups, completed, store,
                 boxes>>

StepAccept ==
  /\ Stepping
  /\ Acts(rec_ctx, "accept")
  /\ completed' = Append(completed, [rec_ctx EXCEPT !.finished = TRUE])
  /\ phase' = "pop"
  /\ KeepQueue
  /\ UNCHANGED <<task, rec_ctx, nonterm, branches, reduction_stage, groups, errored, store,
                 boxes>>

StepFork ==
  /\ Stepping
  /\ Forks(rec_ctx)
  /\ branches' = Actions(rec_ctx)
  /\ phase' = "fork"
  /\ KeepQueue
  /\ UNCHANGED <<task, rec_ctx, nonterm, reduction_stage, groups, completed, errored, store,
                 boxes>>

\* split and push_state, once per fork state.
Branch(c) ==
  [c EXCEPT !.box = boxes,
            !.stack = Append(Front(@), [state |-> Last(@).state, branch |-> Head(branches)])]

Split ==
  /\ phase = "fork"
  /\ Push(Branch(rec_ctx))
  /\ boxes' = boxes + 1
  /\ branches' = Tail(branches)
  /\ phase' = IF Tail(branches) = <<>> THEN "pop" ELSE "fork"
  /\ UNCHANGED <<task, min_advance, nonterm, reduction_stage, groups, completed, errored,
                 store>>

\* reduce_symbols; without enough symbols its `expect` panics.
Reduce ==
  /\ Acts(rec_ctx, "reduce")
  /\ \E k \in FirstOf(rec_ctx.symbols, Len(RuleToReduce(rec_ctx).rhs)) :
     \E node \in {NonTerm(RuleToReduce(rec_ctx).lhs, Actions(rec_ctx)[1].rule,
                         SubSeq(rec_ctx.symbols, k, Len(rec_ctx.symbols)))} :
       /\ rec_ctx' = [rec_ctx EXCEPT !.stack = AfterReduce(rec_ctx),
                                     !.symbols = Append(SubSeq(@, 1, k - 1), Unique(store, node))]
       /\ store' = Remember(store, node)
       /\ nonterm' = node.id
  /\ phase' = "reduce"
  /\ KeepQueue
  /\ UNCHANGED <<task, branches, reduction_stage, groups, completed, errored, boxes>>

StepReduce == Stepping /\ Reduce

\* A context that has reduced goes on until it does something else; it is then
\* staged for merging, before the token it shifted or skipped is inserted.
Reducing == phase = "reduce" /\ UNCHANGED min_advance

StageFor(c, follow) ==
  /\ Reducing
  /\ reduction_stage' = Append(reduction_stage, [nonterm |-> nonterm, ctx |-> c, follow |-> follow])
  /\ phase' = "pop"
  /\ KeepQueue
  /\ UNCHANGED <<task, rec_ctx, nonterm, branches, groups, completed, errored, store, boxes>>

ReduceAgain == Reducing /\ Reduce

ReduceSkip ==
  /\ phase = "reduce"
  /\ Acts(rec_ctx, "skip")
  /\ StageFor(AfterSkip(rec_ctx), Skipped(Lookahead(rec_ctx)))

ReduceShift ==
  /\ phase = "reduce"
  /\ Acts(rec_ctx, "shift")
  /\ StageFor(AfterShift(rec_ctx), Token(Lookahead(rec_ctx)))

ReduceAccept ==
  /\ phase = "reduce"
  /\ Acts(rec_ctx, "accept")
  /\ StageFor([rec_ctx EXCEPT !.finished = TRUE], NULL)

ReduceError ==
  /\ Reducing
  /\ Fails(rec_ctx)
  /\ errored' = Append(errored, [rec_ctx EXCEPT !.finished = TRUE])
  /\ phase' = "pop"
  /\ KeepQueue
  /\ UNCHANGED <<task, rec_ctx, nonterm, branches, reduction_stage, groups, completed, store,
                 boxes>>

ReduceFork ==
  /\ Reducing
  /\ Forks(rec_ctx)
  /\ branches' = Actions(rec_ctx)
  /\ phase' = "fork"
  /\ KeepQueue
  /\ UNCHANGED <<task, rec_ctx, nonterm, reduction_stage, groups, completed, errored, store,
                 boxes>>

------------------------------------------------------------------------------
(* Merging.  sort_candidate compares the symbols before the last one by     *)
(* their canonical value, that is by their ids.                             *)
Surroundings(e) ==
  [before  |-> [i \in 1 .. Len(e.ctx.symbols) - 1 |-> e.ctx.symbols[i].id],
   follow  |-> e.follow,
   nonterm |-> e.nonterm,
   ptr     |-> e.ctx.ptr,
   stack   |-> e.ctx.stack]

\* Contexts completed before take part as if they had reduced non-terminal 0.
Candidates ==
  reduction_stage \o
  [i \in DOMAIN completed |-> [nonterm |-> Zero[task.grammar], ctx |-> completed[i], follow |-> NULL]]

\* The candidates in the same surroundings as the i-th, in their order.
GroupOf(i) ==
  Picked(Candidates,
         {j \in DOMAIN Candidates : Surroundings(Candidates[j]) = Surroundings(Candidates[i])})

MergeGroups == {GroupOf(i) : i \in DOMAIN Candidates}

EndSweep ==
  /\ phase = "pop"
  /\ popQ = <<>>
  /\ IF reduction_stage = <<>>
     THEN phase' = "swap" /\ UNCHANGED <<groups, completed>>
     ELSE phase' = "merge" /\ groups' = MergeGroups /\ completed' = <<>>
  /\ reduction_stage' = <<>>
  /\ Q!AbsPopFront
  /\ UNCHANGED <<task, min_advance, nonterm, branches, errored, store, boxes>>

\* Mutated: alternatives are told apart by their canonical value.
DistinctById(nodes) ==
  Picked(nodes, {i \in DOMAIN nodes : \A j \in DOMAIN nodes : nodes[j].id = nodes[i].id => i <= j})

\* The first node of each key.
Distinct(nodes) ==
  Picked(nodes, {i \in DOMAIN nodes : \A j \in DOMAIN nodes : nodes[j].key = nodes[i].key => i <= j})

Interpretations(n) == IF n.type = "alts" THEN n.parts ELSE <<n>>

\* The first context of a group stands for all, with the last symbols of all.
\* No rule is empty, so a candidate has a symbol.
Merged(group) ==
  LET first == group[1].ctx
      all == Distinct(FlattenSeq(
               [i \in DOMAIN group |-> Interpretations(Last(group[i].ctx.symbols))]))
      last == IF Len(all) = 1 THEN all[1] ELSE Alts(all)
  IN IF Len(group) = 1 THEN first ELSE [first EXCEPT !.symbols = Append(Front(@), last)]

\* Mutated: what follows is inserted for the contexts that were alone only.
FollowedIfAlone(group) ==
  IF group[1].follow # NULL /\ Len(group) = 1
  THEN Inserted(Merged(group), group[1].follow) ELSE Merged(group)

Followed(group) ==
  IF group[1].follow # NULL THEN Inserted(Merged(group), group[1].follow) ELSE Merged(group)

\* The groups come in the order of a HashMap.
MergeGroup ==
  /\ phase = "merge"
  /\ \E group \in groups :
       /\ groups' = groups \ {group}
       /\ store' = IF group[1].follow # NULL THEN Remember(store, group[1].follow) ELSE store
       /\ \/ /\ group[1].ctx.finished
             /\ completed' = Append(completed, Followed(group))
             /\ KeepQueue
             /\ UNCHANGED rec_ctx
          \/ /\ ~ group[1].ctx.finished
             /\ Push(Followed(group))
             /\ UNCHANGED completed
  /\ UNCHANGED <<task, phase, min_advance, nonterm, branches, reduction_stage, errored, boxes>>

EndMerge ==
  /\ phase = "merge"
  /\ groups = {}
  /\ phase' = "swap"
  /\ UNCHANGED <<task, queueVars, rec_ctx, kernelVars, completed, errored, store, boxes>>

\* Mutated: the slowest position is kept from sweep to sweep.
SwapKeepsGate ==
  /\ phase = "swap"
  /\ Q!AbsSwapBuffers
  /\ phase' = IF pushQ = <<>> THEN "done" ELSE "pop"
  /\ UNCHANGED <<task, kernelVars, completed, errored, store, boxes>>

\* The loop of fork_parse.
Swap ==
  /\ phase = "swap"
  /\ Q!AbsSwapBuffers
  /\ phase' = IF pushQ = <<>> THEN "done" ELSE "pop"
  /\ min_advance' = Beyond
  /\ UNCHANGED <<task, nonterm, branches, reduction_stage, groups, completed, errored, store,
                 boxes>>

Next ==
  \/ Pop \/ HoldBack
  \/ StepSkip \/ StepShift \/ StepError \/ StepAccept \/ StepFork \/ StepReduce
  \/ ReduceAgain \/ ReduceSkip \/ ReduceShift \/ ReduceAccept \/ ReduceError \/ ReduceFork
  \/ Split
  \/ EndSweep \/ MergeGroup \/ EndMerge \/ Swap

Spec == Init /\ [][Next]_vars

\* A single thread runs the loop.
FairSpec == Spec /\ WF_vars(Next)

------------------------------------------------------------------------------
Phases == {"pop", "step", "reduce", "fork", "merge", "swap", "done"}

(* Type correctness.                                                        *)
TypeOK ==
  /\ phase \in Phases
  /\ min_advance \in 0 .. Beyond
  /\ phase \in {"step", "reduce", "fork"} => rec_ctx # NULL
  /\ branches # <<>> => phase = "fork"
  /\ groups # {} => phase = "merge"
  /\ \A c \in Queued : c.ptr \in 0 .. Len(Input) /\ ~ c.finished
  /\ \A i \in DOMAIN completed : completed[i].finished

(* A context is stepped only while no pending one is behind it, neither in  *)
(* this generation nor in the next: the gate of fork_meta_kernel, and the   *)
(* order of the queue that makes one pass enough.                           *)
SlowestFirst ==
  phase \in {"step", "reduce", "fork"} /\ ~ Ahead(rec_ctx) =>
    \A c \in Queued : c.ptr >= rec_ctx.ptr

(* Every parse ends.                                                        *)
ParseEnds == <>(phase = "done")

(* "Should have enough symbols to complete this Non-Terminal": the expect   *)
(* of reduce_symbols.                                                       *)
EnoughSymbols ==
  phase \in {"step", "reduce"} /\ Acts(rec_ctx, "reduce") =>
    FirstOf(rec_ctx.symbols, Len(RuleToReduce(rec_ctx).rhs)) # {}
==============================================================================
