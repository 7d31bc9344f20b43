------------------------------ MODULE ParseGraph ------------------------------
(***************************************************************************)
(* The parse graphs as the workers build them (ConcurrentGraphBuilder,     *)
(* graph/mod.rs): a worker takes a node from the queue, finds what it      *)
(* leads to (FlowRules), and commits that: nodes that are alike are one,   *)
(* nodes that are new are queued, and each node whose items begin with     *)
(* tokens gets the root of a scanner for them.  What a worker does after   *)
(* an error is modelled by BuildStates; here an error is the end.          *)
(*                                                                         *)
(* A node is numbered when it is produced.  The states of items outside a  *)
(* graph are one (Items), and the worker that knows them is not modelled.  *)
(***************************************************************************)
EXTENDS FlowRules

\* What may be built: [roots, workers], with the configuration [calls, forks] of each
\* root, a nonterminal, and the workers there are.
CONSTANT Builds

VARIABLES
  build,     \* what is built
  queue,     \* nodes to process, first in first out
  busy,      \* worker -> the node it has taken, or 0
  succ,      \* node -> its successors
  gotos,     \* the nodes that read nonterminals back, with their items
  err,       \* the errors met
  graphs     \* what the graphs give the construction of the IR, or <<>>

vars == <<build, db, nodes, queue, busy, succ, gotos, err, graphs>>

---------------------------------------------------------------------------
(* The symbols of a node.                                                  *)

TokensOf(S) == {i \in S : SymOf(i).kind = "token"}

\* What an item begins with, by get_follow_symbol_data: itself, its closure, or what
\* follows it.
Beginnings(n, i) ==
  UNION {TokensOf(ClosureIter(f)) : f \in IF IsComplete(i) THEN Follow(n, i) ELSE {i}}

\* create_lookahead_hash
LookaheadOf(n) ==
  IF n.root \/ n.scan THEN {}
  ELSE {SymOf(i).val : i \in UNION {Beginnings(n, ToComplete(i)) : i \in n.kernel}}

\* get_state_symbols: the tokens that may be next, and those to skip.
Symbols(n) == UNION {{<<SymOf(i).val, TokenPrec(i)>> : i \in Beginnings(n, k)} : k \in n.kernel}

SkippedSyms(n, syms) ==
  LET at == n.kernel \cup UNION {Beginnings(n, k) : k \in n.kernel}
      known == {s[1] : s \in syms}
  IN  IF Cardinality(n.kernel) = 1 /\ \A k \in n.kernel : IsComplete(k) THEN {}
      ELSE UNION {Skipped(i) : i \in at} \ known

---------------------------------------------------------------------------
(* create_state_hash: what makes nodes the same.                           *)

\* The part of an origin that is hashed.
OriginTag(org) ==
  CASE "goal" \in DOMAIN org -> Goal(0)
    [] "goto" \in DOMAIN org -> [goto |-> 0]
    [] "peek" \in DOMAIN org -> [peek |-> [org.peek EXCEPT !.items = {Identity(i) : i \in @}]]
    [] OTHER -> org

ItemTag(i, scan) ==
  <<Index(i), i.from, OriginTag(i.org)>> \o IF scan THEN <<>> ELSE <<i.fg, i.dist>>

Key(s) ==
  LET tags == {ItemTag(i, s.scan) : i \in s.kernel}
  IN  [ty |-> s.ty, sym |-> s.sym,
       red |-> IF s.leaf THEN s.red ELSE <<>>,
       more |-> IF s.leaf /\ ~ s.enqueued THEN <<>>
                ELSE <<IF s.root THEN 0 ELSE s.base,
                       [t \in tags |-> Cardinality({i \in s.kernel : ItemTag(i, s.scan) = t})],
                       s.followed, LookaheadOf(s)>>]

---------------------------------------------------------------------------
(* commit.                                                                 *)

StartNode(kernel, scan, config) ==
  [id |-> Invalid, par |-> 0, base |-> 0, root |-> TRUE, scan |-> scan, config |-> config,
   ty |-> <<"Start">>, sym |-> <<DefaultSym, 0>>, kernel |-> kernel, leaf |-> FALSE, enqueued |-> FALSE,
   goto |-> FALSE, red |-> <<>>, followed |-> {}, returns |-> FALSE,
   key |-> <<>>, scanner |-> 0, syms |-> {}, skip |-> {}]

\* Mutant: only the items that start here learn of the gotos.
WithGotosOfNew(s) ==
  IF ~ s.goto \/ s.ty[1] = "Peek" THEN s
  ELSE [s EXCEPT !.kernel = {IF i.st = s.par THEN [i EXCEPT !.fg = TRUE, !.dist = 1] ELSE i : i \in @}]

\* The gotos of pred are on the stack, above what comes from elsewhere.
WithGotos(s) ==
  IF ~ s.goto \/ s.ty[1] = "Peek" THEN s
  ELSE [s EXCEPT !.kernel = {IF i.st = s.par THEN [i EXCEPT !.fg = TRUE, !.dist = 1] ELSE [i EXCEPT !.dist = @ + 1] : i \in @}]

ScannerRoot(syms, skip, config) ==
  LET goals == syms \cup {<<t, 0>> : t \in skip}
  IN  StartNode(UNION {{[i EXCEPT !.org = TerminalGoal(g[1], g[2])] : i \in db[TokenNT[g[1]]].starts} : g \in goals},
                TRUE, config)

Completion(n) == Leaf(Staged(n, <<"NonTermCompleteOOS">>, <<DefaultSym, 0>>, {}))

\* The number of a node, given or found, and the node under it.
NumberOf(g, key) ==
  IF \E m \in DOMAIN g.nodes : g.nodes[m].key = key
  THEN CHOOSE m \in DOMAIN g.nodes : g.nodes[m].key = key ELSE Len(g.nodes) + 1

WithNumber(s, key, id) ==
  [s EXCEPT !.id = id, !.base = IF s.root THEN id ELSE @, !.key = key,
            !.kernel = {IF i.st = Invalid THEN [i EXCEPT !.st = id] ELSE i : i \in @}]

Keyed(g, s, key) == WithNumber(s, key, NumberOf(g, key))
Numbered(g, s) == Keyed(g, s, Key(s))

Added(g, n) ==
  LET new == n.id > Len(g.nodes)
      all == IF new THEN Append(g.succ, {}) ELSE g.succ
  IN  [nodes |-> IF new THEN Append(g.nodes, n) ELSE g.nodes,
       succ  |-> IF n.root THEN all ELSE [all EXCEPT ![n.par] = @ \cup {n.id}],
       queue |-> IF new /\ (n.leaf => n.enqueued) THEN Append(g.queue, n.id) ELSE g.queue]

\* A node that returns from its graph leads to one that completes it.
WithCompletion(g, n) == IF n.returns THEN Added(g, Numbered(g, Completion(n))) ELSE g
AddedLast(g, n) == WithCompletion(Added(g, n), n)

\* A node is numbered after the root of the scanner for its tokens.
WithScanner(g, s, root, syms, skip) ==
  AddedLast(Added(g, root), [Numbered(Added(g, root), s) EXCEPT !.scanner = root.id, !.syms = syms, !.skip = skip])

WithTokens(g, s, syms, skip) ==
  IF syms = {} THEN AddedLast(g, [Numbered(g, s) EXCEPT !.skip = skip])
  ELSE WithScanner(g, s, Numbered(g, ScannerRoot(syms, skip, s.config)), syms, skip)

WithSymbols(g, s, n, syms) == WithTokens(g, s, syms, SkippedSyms(n, syms))
WithSymbolsOf(g, s, n) == WithSymbols(g, s, n, Symbols(n))

\* One staged node, with the scanner of its tokens and the node that returns.
Produced(g, s) == IF s.scan THEN AddedLast(g, Numbered(g, s)) ELSE WithSymbolsOf(g, s, Numbered(g, s))

ProducedAll(g, staged) == FoldSet(LAMBDA s, acc : Produced(acc, s), g, staged)

---------------------------------------------------------------------------

Roots == {StartNode({[i EXCEPT !.org = Goal(nt)] : i \in db[nt].starts}, FALSE, build.roots[nt]) : nt \in DOMAIN build.roots}

\* The nodes and the queue with what is staged.
ProducedFrom(x) ==
  ProducedAll([nodes |-> nodes, succ |-> succ, queue |-> queue],
              IF x.gotos THEN {WithGotos(s) : s \in x.staged} ELSE x.staged)

Init ==
  /\ build \in Builds
  /\ db = Database
  /\ nodes = <<>> /\ queue = <<>> /\ succ = <<>>
  /\ busy = [w \in build.workers |-> 0]
  /\ gotos = {} /\ err = {} /\ graphs = <<>>

\* add_root
AddRoots ==
  /\ nodes = <<>>
  /\ \E g \in {ProducedFrom([staged |-> Roots, gotos |-> FALSE])} :
       nodes' = g.nodes /\ succ' = g.succ /\ queue' = g.queue
  /\ UNCHANGED <<build, db, busy, gotos, err, graphs>>

Take(w) ==
  /\ err = {} /\ busy[w] = 0 /\ queue # <<>>
  /\ busy' = [busy EXCEPT ![w] = Head(queue)]
  /\ queue' = Tail(queue)
  /\ UNCHANGED <<build, db, nodes, succ, gotos, err, graphs>>

\* The end of handle_kernel_items, and the commit of what node n leads to.
Committed(n, x, g) ==
  IF x.errs # {}
  THEN err' = x.errs /\ UNCHANGED <<nodes, succ, queue, gotos>>
  ELSE /\ nodes' = g.nodes /\ succ' = g.succ /\ queue' = g.queue
       /\ gotos' = IF x.gotos THEN gotos \cup {n.id} ELSE gotos
       /\ err' = IF IsPeek(n) /\ Len(g.nodes) = Len(nodes) THEN {"no successors"} ELSE {}

\* handle_kernel_items
Process(w) ==
  /\ err = {} /\ busy[w] # 0
  /\ \E x \in {Expand(nodes[busy[w]])} : \E g \in {ProducedFrom(x)} : Committed(nodes[busy[w]], x, g)
  /\ busy' = [busy EXCEPT ![w] = 0]
  /\ UNCHANGED <<build, db, graphs>>

---------------------------------------------------------------------------
(* create_ir_precursors: the graphs by name, as BuildIR reads them.        *)

InOrder(S) == FoldSet(LAMBDA x, seq : Append(seq, x), <<>>, S)
Name(id) == ToString(id)
Named(S) == {Name(id) : id \in S}
RootName(n) == IF n.scan THEN "scan_" \o Name(n.id) ELSE "nt_" \o Name(n.id)

RootOf(nt) == CHOOSE m \in DOMAIN nodes : nodes[m].root /\ ~ nodes[m].scan /\ \A i \in nodes[m].kernel : NT(i) = nt

IRNode(n) ==
  [ty |-> n.ty[1], sym |-> n.sym[1], succ |-> InOrder(Named(succ[n.id])),
   tok |-> IF n.ty[1] \in {"AssignToken", "AssignAndFollow"} THEN n.ty[2] ELSE 0,
   red |-> IF n.ty[1] # "Reduce" THEN <<>>
           ELSE [op |-> "reduce", nt |-> Rules[n.ty[2]].nt, rule |-> n.ty[2], n |-> Len(Rules[n.ty[2]].body)],
   pops |-> IF n.ty[1] = "Reduce" THEN n.ty[3] ELSE 0,
   call |-> IF n.ty[1] \in {"KernelCall", "InternalCall"} THEN Name(RootOf(n.ty[2])) ELSE "none",
   root |-> IF n.root THEN RootName(n) ELSE "none",
   scanner |-> IF n.scanner = 0 THEN "none" ELSE RootName(nodes[n.scanner]),
   skip |-> InOrder(n.skip), toks |-> {s[1] : s \in n.syms} \cup n.skip,
   gotos |-> n.id \in gotos, scan |-> n.scan]

Done == nodes # <<>> /\ queue = <<>> /\ \A w \in build.workers : busy[w] = 0

Finish ==
  /\ Done /\ err = {} /\ graphs = <<>>
  /\ graphs' = [name \in Named(DOMAIN nodes) |-> IRNode(nodes[CHOOSE m \in DOMAIN nodes : Name(m) = name])]
  /\ UNCHANGED <<build, db, nodes, queue, busy, succ, gotos, err>>

Terminating == (graphs # <<>> \/ err # {}) /\ UNCHANGED vars

Next ==
  \/ AddRoots
  \/ \E w \in build.workers : Take(w) \/ Process(w)
  \/ Finish
  \/ Terminating

Spec == Init /\ [][Next]_vars

---------------------------------------------------------------------------
(* Properties.                                                             *)

\* The chain of nodes from n to the root.
RECURSIVE Chain(_)
Chain(id) == IF nodes[id].root THEN {id} ELSE {id} \cup Chain(nodes[id].par)

Pushes(id) ==
  ~ nodes[id].leaf /\ nodes[id].par \in gotos /\ nodes[id].ty[1] \notin {"KernelShift", "KernelCall"}

GotosAbove(id, st) == {m \in Chain(id) : m # st /\ st \in Chain(m) /\ Pushes(m)}

\* The gotos that an item says lie above the state it comes from
\* (increment_goto, item.rs) are those pushed on the way there, and that state is on
\* the way back from its node, where follow sets look for it without a check
\* (get_predecessor, items.rs): nodes met on different ways are one only if they
\* agree on both.  A reduction that is told a wrong count pops too few states or too
\* many.
GotosCounted ==
  \A id \in DOMAIN nodes : nodes[id].scan \/ IsPeek(nodes[id]) \/
    \A i \in nodes[id].kernel :
      i.st \in Chain(id) /\ i.dist = Cardinality(GotosAbove(id, i.st))

\* A node has one successor for a symbol, unless it forks: the flow rules decide
\* between all that want it.  Of two the match in the IR would keep one.
Deterministic ==
  \A id \in DOMAIN nodes : nodes[id].ty[1] = "ForkInitiator" \/
    \A m, k \in succ[id] : nodes[m].sym[1] = nodes[k].sym[1] => m = k
=============================================================================
