# TLA+ models of RADLR

RADLR compiles grammars into parsers. The compiler (`src/crates/radlr-core`,
`radlr-bytecode`) turns a grammar into a graph of parse states, in parallel,
the graph into a map of parse states in an intermediate language (IR), optimises
these and lays them out as bytecode; the runtime (`src/crates/radlr-rust-runtime`)
interprets the bytecode, forking when a grammar is ambiguous and recovering
from errors. This directory models the parts in which the order of steps
matters, checks them with TLC and proves what matters most with TLAPS.

    tlc -workers 2 -config BuildStates.cfg MCBuildStates.tla
    tlapm BuildStatesProofs.tla

## 1. Inventory

Paths are relative to `src/crates/`.

| Component | Source | State | Operations | What makes it correct | Model |
|---|---|---|---|---|---|
| Context queue | `radlr-rust-runtime/types/context_queue.rs` | an array of sleds with three chains through it (free, pop, push), two trackers | push_back, push_with_priority, pop_front, swap_buffers, drop | the chains partition the array; order and stability; no item lost or doubled; lengths right | `ContextQueue`, `AbstractQueue` |
| Graph construction | `radlr-core/compile/states/build_states.rs`, `build_graph/` | shared: work queue, produced nodes, graph, roots and their `invalid` flags, `sync_tracker`; per worker: staged nodes, retries | the worker loop, commit, invalidate and rebuild in the LR graph, termination detection | each state built once; nothing left when all return Ok; failures stop everyone; every entry has a parser | `BuildStates`, `ParseGraph` |
| Worker pool | `radlr-core/types/worker_pool.rs` | one channel per worker, one response channel, thread states | new, run, inner_loop, drop | a run waits for all of its jobs and no others; a dead worker is noticed; drop joins all | `WorkerPool` |
| State compilation | `compile_parser_states` | both of the above | pool runs the loop; graphs are read afterwards | the graphs are final when they are read | `CompileStates` |
| IR construction | `radlr-core/compile/ir/build_ir.rs` | shared: map of states, classification, each behind an Arc and a lock; per thread: a map, a classification | chunking, translating a node, adding the results, taking the maps out of their Arcs | the result is that of one thread; the program parses its grammar | `BuildIRConcurrent`, `BuildIR` |
| IR optimiser | `radlr-core/compile/ir/optimize.rs` | the map of states | eight passes, garbage collection, rounds of canonicalization | no pass changes a parse; no name is left without a state; the rounds end | `Optimize`, `GarbageCollect` |
| Bytecode generation | `radlr-bytecode/build_bytecode.rs` | the bytes, proxies of names, addresses | writing states, hash tables of matches, putting in addresses | every name leads to its state and nothing else changes | `Bytecode` |
| Bytecode interpreter | `radlr-rust-runtime/kernel/parser_new.rs`, `types/context.rs` | address, stack of addresses, pointers into the input, current token | fetch, decode, carry out; scanners; forks | does with the bytes what the states say | `Kernel`; statements: `IR` |
| Fork parser | `radlr-rust-runtime/parsers/fork.rs`, `types/cst/nodes.rs`, `types/cst/store.rs` | a queue of contexts, finished and failed contexts, contexts staged for merging, the store of shared nodes | sweep over the queue; step, fork, reduce, stage, merge; `get_unique` | contexts advance together; a node covers what it was made of; a reduction takes the symbols of its rule; the result holds every parse and no other | `ForkParser`, `ForkNodes`, `ForkForest` |
| Error recovery | `radlr-rust-runtime/parsers/error_recovery.rs` | the contexts of the fork parser with a recovery mode and entropy | drop codepoints, drop symbols, inject tokens, keep the best | the best recoveries survive; it ends | not modelled |
| Flow rules, items | `build_graph/flow/`, `build_graph/build.rs`, `build_graph/items.rs`, `types/item.rs`, `types/parser_db.rs` | tables of the grammar; the nodes produced so far, which follow sets read | which nodes a node leads to, and when two nodes are one | every conflict is decided, by precedence, peeking or forking; gotos are counted as they are pushed; the graphs parse the grammar | `Items`, `FlowRules`, `ParseGraph` |
| String interning | `types/istring.rs` | a map behind a lock | look up, insert | equal strings get equal tokens | not modelled |
| CST store and editing | `types/cst/store.rs`, `edit.rs`, `writer.rs` | map of nodes by hash; an edit graph with counted references | get_unique; replace, to_node | nodes are shared only if equal | `get_unique` in `ForkParser` |
| Tokens, UTF-8 | `types/token.rs`, `utf8/` | none | ranges, decoding | | one- and two-byte headers in `IR` |
| Grammar front end, ascript, formatter, build targets, CLI, lab, wasm, site, generated parsers | | | | | not modelled |

Interactions. `compile_parser_states` seeds the queue of a
`ConcurrentGraphBuilder` with one root per non-terminal, makes one job per
worker that clones the builder (sharing everything behind locks), and reads the
graph when the pool's `run` returned Ok. `build_ir_concurrent` runs a second set
of jobs on the same pool, one for each chunk of the nodes, and then owns the map
of states alone; `optimize` rewrites that map pass by pass on one thread;
`compile_bytecode` lays out what is left. The interpreter runs the bytes for one
context at a time. The fork and recovery parsers drive many contexts through a
`ContextQueue`: all contexts of one generation are popped, advanced by the
interpreter and pushed into the next, and the buffers are swapped.

Hard behaviours: the end of the worker loop is a hand-made termination
detection over one atomic counter, which also carries failures; commits check a
root's validity before and publish after; a failed peek invalidates and restarts
parts of the graph that other workers are building; panics in jobs; one free
list shared by two linked lists whose roles are exchanged, a bounded length
counter, and growth in the middle of an insertion; parses that are merged when
they look alike, and nodes that are shared by a hash; rewriting passes that
inline states into each other, whose pushes and pops cancel; addresses that are
put into bytes by a walk that has to know the length of every instruction; hash
tables that are addressed by fewer bits than they have slots. `PROJECT.json`
lists them one by one under `hazards`, with the properties that watch each of
them.

## 2. Modules

### Queue, graph construction, pool

**AbstractQueue** is what `ContextQueue` promises: two sequences, stable
priority insertion, exchange. **ContextQueue** is the array. Each `Sled` field is
a function over `0 .. capacity - 1`; each method is one action except
`push_with_priority`, whose loop is one action per iteration (`Walk`,
`InsertBefore`, `InsertLast`) with the loop's locals in `cursor`. `LenMod` is the
width of the `u16` length counter. A caller owns what it pops and pushes nothing
it does not own, so an item is never pushed while it is held. A failing
allocation, which makes `push` panic, is left out.

**BuildStates** is the loop of `build_states` for a set of workers over the
shared builder.

| Model | Code |
|---|---|
| `queue`, `produced`, `staged` | `queue`, `produced_nodes`, `pre_stage` of `ConcurrentGraphBuilder` |
| `invalid` | the roots whose `invalid` flag is set |
| `sync_tracker` | the `AtomicUsize` of that name |
| `waiting[w]` | `retries > 0` |
| `Take`, `FindNothing`, `Resume`, `Idle` | `get_global_work`, `fetch_sub`, `fetch_add`/`load` and the two comparisons |
| `HandleStale`, `HandleStages`, `HandleFails` | `handle_kernel_items` up to the `invalid` test of `commit`, or its error |
| `Produce`, `Enqueue`, `Committed` | the locked second half of `commit`, one step per push, and the peek test after it |
| `Poison`, `Invalidate`, `Rebuild`, `RootCommitted`, `Recovered` | the NonDeterministicPeek arm |
| `Fail` | `sync_tracker.fetch_add(error_count)` and `return Err` |

A node of the model is one `hash_id`. Which nodes a node leads to is decided by
the flow rules, which are functions of the grammar, so it is a constant
(`Successors`); so are the scanner roots that come along (`Scanners`), the nodes
of a peek (`Peek`), the nodes that are never queued (`Leaf`) and those rejected
with another error (`Faulty`). A state's hash contains its root, so a queued
node has one root (`Root`); leaves do not, and are only ever inlined. The graph's
edges are not kept: they are `Successors` restricted to what is produced. The
`local_next` slot is disabled in the code by `if false`. Poisoned locks are left
out. Two commits in one call of `handle_kernel_items` (the out-of-scope scanner
state) are one commit here. Atomics are sequentially consistent in the model;
every access to the queue that follows one goes through a lock.

**WorkerPool** is `StandardPool` with a black-box job that returns Ok, Err or
panics; every send, receive, liveness check and join is a step. **CompileStates**
EXTENDS `BuildStates` and instantiates `WorkerPool`: a job is the loop of
one worker, it responds with what the loop returned, and it may panic inside
`handle_kernel_items`. The calling thread begins with the run, not with the drop.
**MCContextQueue**, **MCBuildStates**, **MCWorkerPool** and **MCCompileStates** give the
instances.

### From the grammar to the graph

**Items** are the items and the tables that `process_data` makes of the rules.
**FlowRules** is `handle_kernel_items`: which nodes a node leads to. **ParseGraph**
is the builder over it: workers take nodes, apply the flow rules to them and
commit the result, until no node is left and the graphs are handed to the
construction of the IR. `BuildStates` has what happens to the workers around that
(idling, invalid roots, failures); here an error is the end.

| Model | Code |
|---|---|
| `Item`: `r`, `d`, `from`, `org`, `st`, `dist`, `fg` | `Item`: `index`, `from`, `origin`, `origin_state`, `goto_distance`, `from_goto_origin` |
| `Database`, `Closure`, `ClosureAlign`, ... | `process_data`, `get_closure`, `closure_iter_align`, ... |
| `Yield`, `Relocated`, `Chase`, `Follow`, `Completes` | `get_follow_internal` |
| `Firsts`, `LookaheadPairs` | `get_firsts`, `get_completed_item_artifacts` |
| `CompletedResults`, `OpenGroups`, `Incomplete` | `handle_completed_items`, what is left of `groups`, `handle_incomplete_items` |
| `ShiftReduce`, `KBetween`, `ResolveTokens` | `resolve_shift_reduce_conflict`, `calculate_k`, `resolve_conflicting_tokens` |
| `CreatePeek`, `PeekCompleteGroups`, `PeekIncompleteItems` | `flow/peek.rs` |
| `Reduce`, `CompleteScan`, `Call`, `Climb`, `NonTermShifts`, `CreateFork`, `ForkedStates` | `flow/complete.rs`, `call.rs`, `goto.rs`, `fork.rs` |
| `Staged` | `StagedNode` |
| `Take`, `Process`, `Committed` | `get_global_work`, `handle_kernel_items` with the test for a peek without successors |
| `ProducedFrom`, `Produced`, `Added` | `commit`: goto counts, the scanner root of a node, the insertion into `graph` and `produced_nodes` |
| `Key`, `LookaheadOf`, `Numbered` | `create_state_hash`, `create_lookahead_hash`, `commit_state` |
| `Finish`, `IRNode` | `create_ir_precursors` |

A node's number stands for its hash: nodes have the same number if what
`create_state_hash` hashes is the same (`Key`). Where the code keeps the first of
several nodes of one hash, with its predecessors and its item states, so does the
model, so what a graph is may depend on the order of the workers. `dist` and `fg`
are not part of an item's identity, as in `PartialEq for Item`. The states of
items outside the graph, one for each closure in the code, are the one state
`Outside`; nothing compares them. Groups and symbols are visited in one order.
**MCGrammars** has the grammars, **MCParseGraph** puts the graphs through `BuildIR`,
adds the entry of each root and runs the program with the machine of `IR`, and
takes `Derivations` for what a parse should be: this joins the pieces from the
grammar to the parse.

The default configuration is modelled, with calls and forks on or off for each
root. Left out: lookahead in scanners (off by default), the parsers without LR and
without peeking, the error for two reductions that eight tokens do not decide
(the model peeks), kernels of items that are all out of scope (`regular.rs`,
237-239 and 263-264), CST actions and custom states. By hand the same modules were
also run on grammars of the repository's tests: `construct_recursive_ascent`,
`fork_parsing`, `follow_symbols_in_gotos` and, in the run,
`other_symbols_requiring_peek_hybrid`.

### From the graph to bytecode

**IR** is the intermediate language as a data type and a machine that runs it.
A statement has a transitive part, a sequence of non-branching parts, pops and a
branch; the machine is the interpreter seen at the level of statements, and
`Parse` gives the actions (shifts, skips, reductions, forks, accept, error) that
a program yields for a text. A text is a sequence of bytes.

**BuildIR** is the translation of one node of a parse graph (`StatesOf`): its
state, the state it jumps to after a reduction or an assignment, and the state
that reads the non-terminal a shift left behind.

| Model | Code (`build_ir.rs`) |
|---|---|
| `Body`, `Moves`, `GotoOf` | `build_body` |
| `MatchExpr`, `CasesOf`, `SkipCase` | `add_match_expr` |
| `AssignedToken` | `add_tok_expr` |
| `OwnStates`, `BaseState`, `Prologue` | `convert_state_to_ir`, `process_precursor` |
| `GotoState` | `convert_nonterm_shift_state_to_ir` |
| `EntryStates` | `build_entry_ir` |

**BuildIRConcurrent** is `build_ir_concurrent`: each thread reads the shared
classification, translates its chunk, adds its states, adds its classification,
drops its job and answers; the two locks are separate steps. The calling thread
unwraps the two Arcs and adds the entry and custom states. What the states of a
node contain is a constant here, given by `BuildIR` in the instance.
`OneStateAName` says that two valid nodes never give the same name, which is how
names are made (from the hash of the node, or the name of the root).
**Derivations** says what a parse should be: the reductions that a parser yields,
replayed on a stack of symbols, apply rules of the grammar to what is on top.

**GarbageCollect** is the collector most passes end with, one state per step;
the code serves its queue at both ends, which the model leaves open.
**Optimize** is the pipeline of `optimize` and `sweep`: `at` holds the passes
still to run, each pass is one action that rewrites the whole map, and the
collection after it is a loop of its own.

| Model | Code (`optimize.rs`) |
|---|---|
| `Canonicalize`, `Round`; `Canon`, `Canonical`, `Rename` | `canonicalize_states`, the loops of `optimize`; `canonical_hash` of `parse_state.rs` |
| `Merge`; `MergeBranches`, `TakeOver` | `merge_branches` |
| `CombineBranches`; `Combine`, `Grouped`, `Absorb` | `combine_state_branches` |
| `Inline`; `InlineCase`, `Annihilate` | `inline_states` |
| `Scanners`; `InlineScanner`, `Chain` | `inline_scanners` |
| `Sequences`; `ByteSequences`, `Follows` | `create_byte_sequences` |
| `Defaults`; `WithoutRedundant`, `Redundant` | `remove_redundant_defaults` |
| `CollectOnly`, `FollowState`, `Collected` | `garbage_collect` |
| `config` | `ParserConfig`: optimise at all, `ALLOW_SCANNER_INLINING`, `ALLOW_BYTE_SEQUENCES` |

**Bytecode** is `compile_bytecode`: one action writes a state, one action puts in
the addresses of one instruction. The bytes are those of the code, byte for
byte, including the hash table of a match (11 bits of value, 11 of offset, 10 of
distance) and the proxies that stand for names at first. `broken` is set where
the walk would index out of bounds. **Kernel** is the dispatch loop of
`parser_new.rs` on these bytes. **Backend** EXTENDS `Optimize` and `Kernel`: the
layout begins when the last pass is over.

**MCPrograms** has the parse graphs of seven small grammars in the form in which
the graph builder gives them, and **MCNodes**, **MCOptimize**, **MCBackend** and
**MCBuildIR** make instances of them.

Left out of these modules: reports, debug symbols and the lookup maps of the
bytecode for tools; line numbers and `set-line`; matches on CST nodes; the
instructions that the compiler never writes (scanless shifts, peeks and skips,
VectorBranch, PushExceptionHandler); UTF-8 headers of three and four bytes. The
text of a state and its parser (`build_ast`) are abstracted to the statement
they agree on: `compile_bytecode` and the passes get a statement from the text
that `build_ir` wrote.

### Fork parser

**ForkParser** is `fork_parse` and `fork_meta_kernel`: its queue is
`AbstractQueue` with the negated position as priority, and one iteration of
each of its loops is one action. **ForkNodes** EXTENDS it with the nodes below the
symbols of the contexts, and **ForkForest** that with the trees that a context stands
for and the properties about them; **MCForkParser** has grammars and builds their SLR(1)
automata; **ForkParserProofs** (section 5) proves the order in which contexts are stepped
and that reductions take the symbols of their rules.

| Model | Code |
|---|---|
| `popQ`, `pushQ` | `pending`, a `ContextQueue<ForkContext>` |
| `rec_ctx`, `min_advance`, `nonterm` | the locals of `fork_meta_kernel` (`nonterm`: `non_terminal_id`) |
| `Pop`, `HoldBack` | `pop_front`; the test against `min_advance` and the push back |
| `StepShift`, `StepSkip`, `StepError`, `StepAccept`, `StepFork`, `StepReduce` | the arms of the first `match parser.next(..)` |
| `ReduceAgain`, `ReduceShift`, ... | the arms of the loop after a reduction, which stage a context |
| `Split` | one iteration over `fork_states` |
| `EndSweep`, `MergeGroup`, `EndMerge` | draining `reduction_stage` into `create_merge_groups`, and the loop over its groups |
| `Surroundings` | `sort_candidate` |
| `Merged`, `Distinct` | `attempt_merge` |
| `Keys`, `Unique`, `Remember` | `dedup_hash` and `CSTStore::get_unique` |
| `Swap` | the loop of `fork_parse` |

The bytecode that drives a context is abstracted to an LR automaton whose states
have, for a token, a sequence of actions: several are a `Fork`, none is an
`Error`. As in `get_state_symbols` (`graph/mod.rs`, 357-418) a state skips an
ignored token only if it does not expect it, and a state with one completed item
neither looks ahead nor skips. A token's id stands for its text and `sym_ptr`
counts tokens. `key` is the sequence of values that `dedup_hash` feeds to the
hasher; the hasher is taken to have no collisions of its own. `Zero` names the
non-terminal with id 0, under which contexts completed earlier enter a merge. `Items` gives
the items of each state, which no step reads: `AutomatonAssumption` says with them what
the automaton of a grammar is like. A state is entered with the symbol that its items
have passed, from a state with the same items one symbol earlier (`Passes`), which is how
a node gets its kernel items from its predecessor's; a state that reduces has the completed item,
one that skips a token does nothing else with it, the first state has passed nothing, and no
rule is empty, which RADLR refuses (`error_types.rs`, 120). TLC evaluates it on the
automata of both runs. The groups of a
merge are taken in any order, that of a `HashMap`. Left out: byte lengths of
nodes and the order of alternatives, which depends on them; entropy, equal for
contexts at the same position without recovery; the branch for finished contexts
in the queue and the end of an action stream, which no step leads to.

## 3. Runs

| Run | Bounds | Shows |
|---|---|---|
| `context_queue` | 4 items, 2 priorities, initial capacity 0 (so 1, grown to 2 and 4) | the chains partition the array, lengths are right, drop releases everything, and the lists refine `AbstractQueue` |
| `build_states` | 3 workers, a grammar with an entry, a caller, a failing callee, a shared scanner and LR fallbacks | tracker exact, nodes processed once, nothing left behind, entries and calls resolved |
| `build_states_live` | 2 workers, one node rejected, LR off | every worker returns; a failure ends all; no success after a failure |
| `worker_pool` | 3 workers, 2 runs, panics | runs are complete and separate, deaths noticed, drop joins all; run and drop end |
| `compile_states` | 2 workers, 1 run, panics | the graphs are final when they are read; unless a thread died, `compile_parser_states` returns |
| `flow_rules` | six grammars in one graph with one worker; two non-terminals of them with two workers in every order; all texts of up to 4 letters, and longer words | no conflict is left undecided; items count the gotos that are pushed; a node has one successor for a symbol; the program accepts the words and reduces by the rules |
| `build_ir` | 4 threads, the 85 nodes of seven grammars in chunks of 22 (the last has 19), two of them of a graph that was given up, one that cannot be translated or none | the calling thread owns the maps alone; the result is that of one thread; the program derives its texts by the rules of its grammar |
| `backend` | six programs, three sets of options, two orders of the map, all texts of up to 4 bytes over `a`, `b` and a space | after every pass no name is without a state and every text is parsed as before; the bytes are linked as if addresses had been known; the interpreter yields for the bytes what the states before the optimiser said; the optimiser ends |
| `optimize_fork` | a program with a fork of three paths, the default options | *violation*: the fork is lost |
| `backend_fork` | the same program, not optimised, every rotation of two orders of the map | *violation*: the walk behind the fork takes an address for instructions |
| `fork_parser` | four grammars; all inputs of up to 3 tokens (lists, sums) or 4 (dangling else), sums of 3 and 4 operands, the grammar of the repository's fork test with skipped tokens | the slowest context goes first; contexts and nodes cover what they were made of; the result holds exactly the derivations of the grammar; the parse ends |
| `fork_store` | `S > P sp c`, `P > a b`, `sp` ignored, `a sp b sp c` | *violation*: a shifted token comes back as skipped and a reduction lacks a symbol |

Why the bounds are enough. The queue's operations touch at most two neighbours
and an end of a chain; four items give chains with a first, an inner and a last
sled on both sides, and two growths. The interleavings of the worker loop that
matter involve one worker that detects, one that produces and one in between,
hence three; the grammar has the shapes that matter, a diamond (one node reached
by two paths), a root shared by two graphs, a peek that fails or not, a failing
non-terminal with a predecessor that is an entry. The pool's second run meets
whatever the first one left.

The grammars of `flow_rules` have a conflict of two reductions and a shift that
two tokens decide, left recursion with calls and with gotos, a conflict that no
number of tokens decides, so that the parser forks, contexts that differ only in
what follows them, and a list of lists in which a peek stands between gotos. With
two workers the small graphs come out numbered in 1369 ways; `S > A b | c`,
`A > a` was also run with two. Four letters
reach past each of the peeks; the words reach the rest.

The programs have calls by recursive descent, a goto state of recursive ascent,
a peek over two tokens that resolves into two different calls, scanners that
share states, follow a longer token after a shorter one or read two literals in
a row, skipped tokens, a fork of two paths behind a call (and of three in the
finding runs). Between them every pass changes some program and every
instruction the compiler writes is run. Texts of 4 bytes contain each sentence
of the shorter languages and an error at each position; a parse of more than
`Fuel` steps counts as endless. The order in which the map of states is laid out
is that of hashes, so any: with a list and its reverse each state comes both
before and after its neighbours. The fork of three paths is broken in some orders
only, those in which the byte the walk resumes at is an instruction with
operands, which is why `backend_fork` takes every rotation.

The fork parser's inputs contain errors at every position, forks after which one
branch dies or both live, branches of different speed, nested forks, and merges
of two contexts, of one with an earlier result, and of an alternative with a
further reading (a sum of four operands has five readings).

Symmetry is used for items and workers in runs without liveness properties.
`CHECK_DEADLOCK FALSE` everywhere but in `flow_rules`: a dropped queue, finished workers, a dropped
pool, a program that is laid out stop; and a calling thread that unwinds while
jobs wait for a worker that panicked is stuck (see the hazards).

Fairness. `FairSpec` of BuildStates is weak fairness of each worker's steps: the
operating system runs each thread, the sleep between two polls ends, and every
lock is held for a bounded number of steps. `WorkerPool` adds weak fairness of
the calling thread, and assumes that jobs return or panic. Nothing says which
worker is served first, nor that a poll finds the queue non-empty. `FairSpec` of
ForkParser, and `BackendSpec`, have weak fairness of the one thread that parses
or optimises.

## 4. Findings

1. **A skipped token replaces a shifted one** (`nodes.rs:388`, run `fork_store`). The
   hash of a token leaves out that it is skipped; a token of the same text that is
   shifted later is not counted by `reduce_symbols`, whose `expect` then panics.
2. **A fork is inlined away** (`optimize.rs:572`, run `optimize_fork`). A case that
   goes to a state with a fork takes over everything of that state except the
   paths; the comment at line 489 says that statements with branches are not
   inlined.
3. **Behind a fork addresses are put into the wrong bytes** (`build_bytecode.rs:148`,
   run `backend_fork`). A `Fork` of n paths takes 3 + 4n bytes; the walk goes on after
   3 + n + 4. With two paths it happens to resume on zeros.

Observed while reading or modelling, without a run of its own:

- The queue's `u16` length wraps after 65536 pushes in a release build, and
  `pop_is_empty()` is then true of a full queue (`context_queue.rs:229`).
- With LR disabled a non-deterministic peek is dropped (`build_states.rs:152`),
  though the comment above it (145-147) says construction is reported as failed.
- "Peek has no successors" is decided by the number of *new* states (`build.rs:59`),
  so by what was produced before. `S > A X e | B X f`, `A > a`, `B > a`,
  `X > b | c` ends with that error, although two tokens and the call of `X` leave
  only one peek to follow and it has been produced on the other branch.
- Nodes are one when the hash of the *union* of the tokens that follow their items is
  the same (`graph/mod.rs:422`). In `S > a A c | a B d | b B c | b A d`,
  `A > e E`, `B > e F`, `E > f`, `F > f` the nodes behind `a e f` and `b e f`
  are merged and `a e f c` is rejected.
- A peek pushes a goto like other nodes (`build_ir.rs:556`) but its items do not count
  it (`graph/mod.rs:995`). In `S > P c d | Q e`, `P > a | a c f`, `Q > a B`,
  `B > B g | b` a reduction pops too little and `a c d` is rejected;
  `GotosCounted` is violated.
- At the end of the input a peek has the groups of all that may end
  (`build.rs:292`), and no node when they differ (`peek.rs:244`): with the
  grammar of `other_symbols_requiring_peek_hybrid` the text `:t t` is rejected.
- A shift goes before a reduction when the items that shift belong to the
  non-terminal behind the reduction (`conflict.rs:141`): by design `S > A b d | a b c`,
  `A > a` does not accept `a b d`.
- Contexts are merged when the symbols before the last one have the same ids,
  whatever they cover (`fork.rs:290`): with `S > A B x` and `A`, `B` of one or two
  `a`, the result for `aaax` holds a tree of four `a`s or of two.
- `dedup_hash` has neither rule nor arity (`nodes.rs:231`): trees that differ only in
  their nesting are equal for `attempt_merge`, and one parse of a dangling else is lost.
- Values and offsets of a match are cut to 11 bits; only debug builds notice
  (`build_bytecode.rs:524`).
- `canonical_hash` leaves out which kind of reference a name is (`parse_state.rs:379`).
- `build_statement` looks at the last byte written to decide whether a block has
  ended; for an empty block that is a byte of the block before.
- A run of matches that ends in a fork keeps `create_byte_sequences` from ending;
  scanners, the only states it is for, have no forks.
- With inlined scanners a shifted token has the id 0, since nothing assigns one.

The passing runs show what is true where these do not apply: the inputs of
`fork_parser` for the dangling else have at most four tokens, which leaves one
reading, and in its other grammars contexts that are merged have read the same
input before their last symbol; the programs of `backend` have no fork of more
than two paths, and no case that goes straight to a fork; the grammars of
`flow_rules` are none of those above but the hybrid one, whose words leave out those
that end where a peek has to decide.

## 5. Proofs

**ContextQueueProofs.** `QueueInvariant` proves `TypeOK /\ Sided`. Neither
`Partition` nor `PushFindsVacantSled` is inductive: nothing in them says that
chains end, or that the free list is not entered from a buffer. `Sided` says that
every sled can be given a side (free, pop, push or being inserted) such that
links stay on one side, no two sleds link to the same one, heads are linked from
nowhere, and exactly the free sleds are vacant. It avoids reachability, which
would need induction over data. The lemmas follow the halves of the operations:
growing (`RoomStructure`), taking a free sled (`TakeFree`), linking it
(`LinkLast`, `LinkBefore`), returning one (`PopHead`). `PushNeverOverwrites` and
`ItemsUnique` are corollaries. `Sided` does not say that links end, so it cannot give
the statements about whole lists; the next module does.

**ContextQueueChains.** `Partition`, `LenExact`, `DropReleasesAll` and the refinement
speak of the list one reads off by following `next` from a tracker (`Chain`), which
no finite number of link-by-link facts pins down. The invariant `Chained` therefore
carries the lists themselves: there are three sequences of sleds (free, pop, push)
that hold every sled once, except the one a running `push_with_priority` has in hand;
the links follow them (`Linked`); the trackers name their first and last sled and
count them modulo `LenMod`; the walk stands between two neighbours of the push
sequence and nothing before it has a lower priority. `FollowsLists` and `ChainFromList`
show, once, that `ChainFrom` reads such a sequence off the links: that is the only
induction, over positions from the end of a list, done by taking a least
counterexample (`LeastNatural`). The lemmas about sequences then follow
the halves of the operations, as above: taking the free head, appending, inserting
between two neighbours, popping, exchanging, growing.

- `SledsPartitioned`, `DropReleases`: `Partition` and `DropReleasesAll`, for every
  capacity, every set of items and every width of the counter.
- `LengthsCounted`: each length is that of its list modulo `LenMod`, without a bound
  on the items. `LengthsExact`: it is exact if there are fewer items than `LenMod`,
  65536 in the code. Nothing enforces that; see section 4.
- `QueueImplementsAbstract`: the refinement. `PushBack` is `AbsPushBack`;
  `InsertBefore` and `InsertLast`, and `PushWithPriority` into an empty buffer, are
  `AbsPushWithPriority`, with the position of the walk for the abstract `k`;
  `PopFront`, `SwapBuffers` and `Drop` are their namesakes; otherwise the start of a
  priority push and each step of its walk stutter, since the sled in hand is on no list.

Both modules assume `QueueAssumption` about the constants, the second also
`NoneAssumption`: `None` is not `Some` of a tracker or of a walk.

**BuildStatesProofs.** The inductive invariant, for any finite set of workers and
any grammar, is `TypeOK` with the parts of `Inductive` (the types of the builder
and of the pool are proved, as `BuildTypes` and `PoolTypes`, and not checked in a run):

- `LocalsAgree`: the program counter determines the locals.
- `TrackerExact`: the counter is the number of waiting workers plus N + 1 for each
  failed one. So it equals N only if all wait and none failed.
- `SomeoneActive`: while nothing failed and the queue is not empty, some worker
  that is not counted will poll again. This is why the window in `Take`/`Resume`
  is harmless: a worker that pushes is not counted and polls after its pushes.
- `Accounted`, `NoNodeTwice`: each produced node is in exactly one place.
- `Closed`: the successors of a taken node are produced, or its root is invalid,
  or a worker still has them in hand.

- `RecoveryAgrees`: a worker has roots to rebuild only while it recovers, and is
  about to invalidate only for a non-terminal that is not an entry.
- `Recoverable`: unless an error is returned or about to be, a non-terminal whose
  normal root is invalid has a fallback root that is produced or in a worker's hands,
  or is abandoned: it is no entry, and no valid graph calls it or a worker is about to
  invalidate those that do. One whose fallback root is invalid is abandoned. Two
  workers may invalidate the graphs of one another's callers at the same time, and
  each recovery takes several steps; that clause about the worker in between is what
  makes the statement inductive.

`BuildTypes`, `TrackerIsExact`, `EachNodeOnce`, `NothingLeftBehind` and
`FailureIsFinal` follow from the first six, `EntriesKept` (`EntriesHaveParser`) and
`CallsAnswered` (`CallsResolve`) from the last and from what holds when all workers
returned Ok: nobody recovers any more, so "in a worker's hands" is empty. They assume
`WorkersAssumption`, `GrammarAssumption` and `RootsAssumption`: a root belongs to its
non-terminal, and normal and fallback roots differ, because the hash of a root takes
in the origin of its items, which names the non-terminal (`node.rs:28`), and the
version of its graph (`graph/mod.rs:457`).

**WorkerPoolProofs.** For any number of workers and runs. The parts of `Inductive`:

- `JobsAccounted`: a job that was sent is on its channel, with its worker or answered;
  a worker that was not sent one is idle.
- `ResponsesAccounted`: collected and pending responses are together as many as
  `Answered`, the workers that were sent a job and are idle again. A run returns
  after `Size` of them, so then all workers are in `Answered` and none is pending.
- `ErrorsAccounted`: an error was collected or is pending iff a worker in `Answered`
  returned one.
- `StopsInOrder`: drop is done with the workers before `turn`.

`RunWaitsForAll`, `RunReportsErrors`, `DeadWorkersAreNoticed` and `DropWaitsForAll`
follow. They assume only `PoolAssumption`.

**CompileStatesProofs.** For any number of workers and runs and any grammar. A step of
the composition, seen through the variables of the builder or of the pool, is a step
of that component or leaves it as it is (`IsBuild`, `IsPool`), so both inductive
invariants hold in the composition without being proved again. What relates the two
is `Link`: what the pool has on record for a worker is what its loop returned, a
worker that answered in this run has something on record, and Ok from a run means
that every worker's record is Ok. `GraphsFinal` follows with `WorkComplete`.
`ParsersComplete` says what the caller of `compile_parser_states` relies on: with an Ok
from the pool, every entry has a valid graph, valid graphs call only non-terminals that
have one, and a valid graph contains whatever its nodes lead to. It combines
`OkMeansSucceeded` (an Ok outcome means that every worker's loop returned Ok) with
`EntriesKept`, `CallsAnswered` and `NothingLeftBehind`. `GraphsStay` is the action
property beside it: while the outcome is Ok no step changes the builder any more, so
what is read after `run()` is not a moving target. The module assumes `PoolSized` and
`WorkersArePool` besides the assumptions of the builder.

**BuildIRConcurrentProofs.** For any number of nodes and threads. The lemmas about
`ChunkSize` show that the chunks of the rounded division cover each index exactly
once. The inductive invariant says which states and which parts of the
classification are in the shared maps, by where each thread is (before or after
its two insertions), that a thread that answered owns nothing any more, and that a
thread that failed has a faulty node in its chunk. `OnlyOwner` and `Sequential`
follow; `Sequential` uses `OneStateAName`, without which the order of the threads
would decide which of two states of one name stays.

**ForkParserProofs.** For every grammar, automaton and input, and any number of
contexts. `SlowestFirst` says that no context is stepped while another is behind it; it
is not inductive, because the test against `min_advance` looks at the contexts stepped
in this sweep, not at those that wait. The parts of the invariant:

- `QueuesSorted`: both buffers hold unfinished contexts, sorted by position. The
  priority of an entry is its negated position, so `push_with_priority` keeps them so
  (`PushKeepsOrder`), and the first of a buffer is behind all others.
- `StagesOnward`: what is staged or grouped is not behind `min_advance`, except for what
  accepted earlier and only takes part in the merge. Merging keeps the position and the
  flag of the first of a group (`FollowedIsContext`).
- `Gated`: during a sweep either nothing was stepped yet and the push buffer is empty
  (`Fresh`), or nothing in either buffer is behind `min_advance` (`NoneBehind`); while
  staged contexts are merged, only the second remains, for the push buffer.

`SlowestGoesFirst` follows, and `GenerationsAdvance`: the sweep that `swap_buffers`
starts has no context behind the slowest of the sweep before, although `min_advance` is
reset in between. `FinishedStayOut`: contexts that accepted are never queued again, and
only such contexts are handed back. The assumption is `InputAssumption`, that inputs are
sequences. The shape of the queue comes from `AbstractQueue`, which `ContextQueue`
implements (`QueueImplementsAbstract`).

Part two is about what `reduce_symbols` takes from a context. `symbols` and `stack` are
two vectors; nothing compares them, and a reduction counts symbols on the one and pops
states off the other. `NodesFollowRules` says that the two agree wherever a node is in
reach, and `EnoughSymbols` is the `expect` of `reduce_symbols`. In a grammar in which one
state skips a token that another shifts both can be false (section 4, finding 1, run
`fork_store`), so the theorems have the hypothesis `LayoutApart`, that there is no such
token; it is a condition on the grammar, true of those of `fork_parser`. The invariant
`FitInv` has these parts (it was checked with TLC on the instances of both runs too, before
it was proved):

- `Spells`: there is an increasing enumeration of the symbols that count, one less than
  the states on the stack, and each leads from one state to the next (`Passes`). With the
  items of the states it follows, going down the stack from a completed item
  (`RuleWalked`), that the last symbols that count are those of the rule (`RuleSpelled`),
  and, since the remaining ones lead to a state with the rule's first item, that the goto is
  one that passes the non-terminal (`ReductionFits`). A node that does not
  count may stand anywhere in between.
- `Sound`: a node and everything below it is one that the parser makes (`IsNode`): tokens
  shifted somewhere, skipped ones skipped somewhere, non-terminals with the symbols of
  their rule, and each with the key of its kind. It is stated by a set closed under parts,
  which needs no recursion over trees.
- `IsStore`: what `get_unique` hands out is sound. The key does not tell a skipped token from
  a shifted one, and this is where `LayoutApart` is needed: the node found under a
  key then counts if and only if the one asked for does (`UniqueFits`).
- `OnBranch`, and the branches at hand while forking: a branch on top of a stack is an
  action of that state for what comes next.
- `FitsMerge`: a staged or grouped context that has not accepted is ahead of its symbols by the
  one that follows, and its last symbol is the non-terminal just reduced. Contexts are grouped
  when that is the same, so whatever stands for all of a group counts and is named alike
  (`AllInterpretations`), and putting it in its place leaves `Spells` as it was
  (`LastReplaced`).

`SymbolsFitStacks` is the invariant, `SymbolsSuffice` gives `EnoughSymbols` and
`ReductionsFollowRules` gives `NodesFollowRules`: every node at every depth is `Sound`,
by a least depth at which one would not be (`NodesSound`). Recursive functions are choices
to the provers; `LevelUnfolds` and `FlattenUnfolds` show that `Level` and the concatenation
of sequences satisfy their equations. They assume `AutomatonAssumption`,
`InputAssumption` and `NullAssumption`, that a token is not the value that stands for none.

**GarbageCollectProofs.** `CollectorOnePlace`, and `CollectorExact` from the
invariant that what is handed out or queued is reachable, and that what a state
handed out refers to is handed out or queued. It holds for every order in which
the queue is served, so `Optimize` serves it in one.

Only model-checked:

- `ContextsTile` and `ForestExact` of the fork parser. They hold only
  if a merge puts together nothing but what covers the same input and loses no tree, which
  is not true of every grammar (section 4), and they speak of trees and texts that are
  read by recursion over nodes.
- `GraphsParse`, `GotosCounted` and `Deterministic` of the graphs; `ProgramParses`,
  `NamesResolve`, `PassesPreserve`, `Linked` and `Faithful` of what is made from them:
  they depend on operators that recurse over items, statements or parses, and their
  modules declare them RECURSIVE, with which the provers cannot work.
- Everything temporal under fairness, which TLAPS does not do: that a parse, a
  compilation or a run of the pool ends.

## 6. Plan

The order in which the models were built, and what is done:

1. *Queue*: `ContextQueue` implements `AbstractQueue`; its structure, its lists and the
   refinement proved. Done.
2. *Graph construction and pool*: `BuildStates`, `WorkerPool`, their proofs, and their
   composition `CompileStates` with its proof. Done.
3. *Fork parser*: `ForkParser`, `ForkNodes` and `ForkForest`; the order in which contexts are
   stepped and what reductions take proved, the forest model-checked. Done.
4. *From the graph to bytecode*: `IR`, `BuildIR` and `BuildIRConcurrent` with its proof,
   `Optimize` and `GarbageCollect` with its proof, `Bytecode`, `Kernel`, and the
   composition `Backend`. Done.
5. *Flow rules*: `Items`, `FlowRules` and `ParseGraph`, composed with `BuildIR`, `IR`
   and `Derivations`. Done.
6. *Error recovery* on top of `ForkParser`. Open.

## 7. Not modelled

- **Flow rules outside the default configuration**: scanners with lookahead, parsers
  without LR or without peeking, and what section 2 lists. `BuildStates` and
  `MCPrograms` still have nodes and graphs as constants: the first is about any
  grammar, the second about small programs.
- **Leaves that two graphs share**: the hash of a node that is not queued leaves its
  root out (`graph/mod.rs:460`) and the graph keeps the first node of a hash, so a
  leaf may belong to a graph that is invalidated later, while `build_ir_concurrent`
  skips nodes of invalid roots (`build_ir.rs:55`). `BuildStates` gives a root to
  queued nodes only, so its properties say nothing about such leaves.
- **Error recovery** (`parsers/error_recovery.rs`): `fork_meta_kernel` driven with
  contexts that carry an entropy and a recovery mode. Its ranking by entropy and its
  limits (`SYNTH_LIMIT`, 32 contexts kept) are heuristics; the parts it shares with
  the fork parser are modelled there.
- **StackVec, string interning, CST edit graph and writer**: an inline buffer, a
  map in which a second insertion of a string changes nothing, a sequential editor.
- **Tokens and UTF-8**: headers of one and two bytes are in `IR` and `Bytecode`.
- **AST and recogniser drivers**: loops over the interpreter with no state of their own
  beyond the caller's stack.
- **Grammar front end, ascript, formatter, build targets, CLI, lab, wasm, site**:
  translations of trees and text, or I/O around the rest.
- **Generated parsers** (`radlr_bc*.rs`, `at_at_formatter.rs` and others), which are most
  of the lines of the repository: output of RADLR itself.
