------------------------------- MODULE FlowRules -------------------------------
(***************************************************************************)
(* What a node of a parse graph leads to: handle_kernel_items (build.rs)   *)
(* and the flow rules it calls (flow/).  A node has a kernel of items; the *)
(* symbols after them group the items of their closures, and each group    *)
(* gives a successor: a shift, a call, a reduction, or, where items that   *)
(* are complete and items that are not want the same symbol, a node that   *)
(* peeks at further tokens.                                                *)
(*                                                                         *)
(* The scanners do without lookahead, and a conflict of reductions that 8  *)
(* tokens do not decide is left out (ALLOW_LOOKAHEAD_SCANNERS is off by    *)
(* default; MAX_EVAL_K_RR).                                                *)
(***************************************************************************)
EXTENDS Items

CONSTANTS
  TokSym,    \* token -> [kind, val, prec], with its precedence in conflicts
  ClassOf    \* the class of a codepoint

VARIABLE nodes   \* id -> the node produced first under it

Pred(n, id) == IF id = n.id THEN n ELSE nodes[id]

MaxOf(S) == Max(S \cup {0})

---------------------------------------------------------------------------
(* items.rs: what follows an item that is complete.                        *)

\* The items that shift over the nonterminal of c, behind it: in the state c comes
\* from, or anywhere in the grammar once c has left the graph.
Yield(n, c) ==
  CASE c.st = Sled -> {[Increment(i) EXCEPT !.org = OosClosure, !.st = Outside] : i \in db[NT(c)].follow}
    [] c.st = Outside -> {}
    [] OTHER ->
         {Increment(i) : i \in {i \in UNION {ClosureAlign(k, [k EXCEPT !.org = c.org, !.st = c.st]) :
                                               k \in {k \in Pred(n, c.st).kernel : IsSuccessorOf(c, k)}} :
                                  NTAt(i) = NT(c)}}

\* Without any, the item is looked for a state further up, and outside at last.
Relocated(n, c) ==
  CASE c.st = Sled -> {}
    [] c.st = Outside -> {[c EXCEPT !.st = Sled]}
    [] OTHER -> LET p == Pred(n, c.st)
                IN  IF ~ p.root THEN {[c EXCEPT !.st = p.par]}
                    ELSE IF ~ n.scan THEN {[c EXCEPT !.st = Sled]} ELSE {}

\* The completed items that completing those of todo leads to.
Onward(n, c, ys) == IF ys = {} THEN Relocated(n, c) ELSE {y \in ys : IsComplete(y)}

RECURSIVE Chase(_, _, _)
Chase(n, todo, done) ==
  IF todo = {} THEN done
  ELSE Chase(n, UNION {Onward(n, c, Yield(n, c)) : c \in todo} \ (todo \cup done), done \cup todo)

Completes(n, i) == IF IsComplete(i) THEN Chase(n, {i}, {}) ELSE {}

\* get_follow_internal
Follow(n, i) ==
  IF ~ IsComplete(i) THEN {i}
  ELSE UNION {{y \in Yield(n, c) : ~ IsComplete(y)} : c \in Completes(n, i)}

---------------------------------------------------------------------------
(* Transition pairs: an item of the kernel, and an item of its closure or  *)
(* of its follow.                                                          *)

Pair(n, k, i) == [k |-> k, next |-> i, sym |-> SymOf(i), prec |-> Precedence(i, n.scan)]
LookPair(k, i) == [k |-> k, next |-> i, sym |-> SymOf(i), prec |-> TokenPrec(i)]

IsEoiComplete(p) == IsComplete(p.k) /\ Index(p.k) = Index(p.next)
IsKernelTerminal(p) == ~ IsComplete(p.k) /\ Index(p.k) = Index(p.next)
Kernels(pairs) == {p.k : p \in pairs}
Nexts(pairs) == {p.next : p \in pairs}
MaxPrecedence(pairs) == MaxOf({p.prec : p \in pairs})
SameRule(pairs) == Cardinality({p.k.r : p \in pairs}) = 1

\* get_firsts
Firsts(n) ==
  LET pairs == UNION {{Pair(n, k, i) : i \in {i \in ClosureLaneSplit(k, [k EXCEPT !.st = n.id]) : NTAt(i) = 0}} :
                        k \in n.kernel}
      of(s) == {p \in pairs : p.sym = s}
  IN  [s \in {p.sym : p \in pairs} |-> [prec |-> MaxPrecedence(of(s)), pairs |-> of(s)]]

\* get_completed_item_artifacts; an item without a follow stands for itself.
LookaheadPairs(n, kernels) ==
  LET from(k, f) ==
        IF f.org = OosClosure
        THEN {i \in ClosureAlign([f EXCEPT !.dist = 0, !.fg = FALSE], [f EXCEPT !.dist = 0, !.fg = FALSE]) : ~ IsComplete(i)}
        ELSE ClosureAlign(f, [f EXCEPT !.org = k.org])
      pairs(k) == LET fs == Follow(n, k)
                  IN  IF fs = {} THEN {LookPair(k, k)}
                      ELSE UNION {{LookPair(k, i) : i \in from(k, f)} : f \in fs}
  IN  UNION {pairs(k) : k \in kernels}

---------------------------------------------------------------------------
(* What is staged: the nodes to come, and the errors that end the parser   *)
(* of a root instead.                                                      *)

Staged(n, ty, sym, kernel) ==
  [id |-> Invalid, par |-> n.id, base |-> n.base, root |-> FALSE, scan |-> n.scan, config |-> n.config,
   ty |-> ty, sym |-> sym, kernel |-> kernel, leaf |-> FALSE, enqueued |-> FALSE,
   goto |-> FALSE, red |-> <<>>, followed |-> {}, returns |-> FALSE,
   key |-> <<>>, scanner |-> 0, syms |-> {}, skip |-> {}]
Leaf(s) == [s EXCEPT !.leaf = TRUE]
IncludeWithGoto(s) == [s EXCEPT !.goto = TRUE]

Of(staged) == [staged |-> staged, err |-> {}, keep |-> FALSE]
Error(e)   == [staged |-> {}, err |-> {e}, keep |-> FALSE]
KeepShift  == [staged |-> {}, err |-> {}, keep |-> TRUE]

IsPeek(n) == n.ty[1] = "Peek"

---------------------------------------------------------------------------
(* peek.rs                                                                 *)

PeekOrigin(items, oos) == [peek |-> [items |-> items, oos |-> oos]]
GroupOf(p) == p.k.org.peek

PeekGroup(pairs, oos) == PeekOrigin(Kernels(pairs), oos)

\* Each rule that may be reduced is a group, resolved by what follows it, and so is
\* all that may be shifted.
CreatePeek(n, sp, incomplete, completed) ==
  LET heritage(i) == <<Index(i), i.from>>
      existing == {heritage(p.next) : p \in incomplete}
      ofRule(q) == {p \in completed : <<p.k.r, OutOfScope(p.k)>> = q}
      reduced(q) == {[i EXCEPT !.org = PeekGroup(ofRule(q), q[2])] :
                       i \in {i \in Nexts(ofRule(q)) : heritage(i) \notin existing}}
      shifted == {[p.next EXCEPT !.org = PeekGroup(incomplete, \E q \in incomplete : OutOfScope(q.k))] :
                    p \in incomplete}
      items == shifted \cup UNION {reduced(q) : q \in {<<p.k.r, OutOfScope(p.k)>> : p \in completed}}
  IN  IncludeWithGoto(Staged(n, <<"Peek">>, sp, {TryIncrement(i) : i \in items}))

PeekEnd(n, sp, group) ==
  Of({Staged(n, <<"PeekEndComplete", [group EXCEPT !.items = {Identity(i) : i \in @}]>>, sp, group.items)})
PeekOn(n, sp, items)  == Of({Staged(n, <<"Peek">>, sp, {TryIncrement(i) : i \in items})})

\* What follows an item stands for the group of the item.
ToGroups(pairs) == {[p.next EXCEPT !.org = p.k.org] : p \in pairs}

PeekCompleteGroups(n, sp, pairs, shift) ==
  LET groups == {GroupOf(p) : p \in pairs}
      oos  == {g \in groups : g.oos}
      cmpl == {g \in groups \ oos : \A i \in g.items : IsComplete(i)}
      inc  == groups \ (oos \cup cmpl)
  IN  IF shift # {}
      THEN IF \E p \in pairs : IsEoiComplete(p) THEN Error("panic")
           ELSE PeekOn(n, sp, Nexts(shift) \cup ToGroups(pairs))
      ELSE IF Cardinality(groups) = 1 \/ groups = oos THEN PeekEnd(n, sp, CHOOSE g \in groups : TRUE)
      ELSE IF cmpl = {} THEN PeekEnd(n, sp, CHOOSE g \in inc : TRUE)
      ELSE IF Cardinality(cmpl) = 1 /\ inc = {} THEN PeekEnd(n, sp, CHOOSE g \in cmpl : TRUE)
      ELSE IF sp[1] = DefaultSym THEN Of({})
      ELSE PeekOn(n, sp, ToGroups(pairs))

PeekIncompleteItems(n, sp, pairs) ==
  IF Cardinality({GroupOf(p) : p \in pairs}) = 1
  THEN PeekEnd(n, sp, CHOOSE g \in {GroupOf(p) : p \in pairs} : TRUE)
  ELSE PeekOn(n, sp, Nexts(pairs))

---------------------------------------------------------------------------
(* complete.rs                                                             *)

\* Mutant: the goto of the item itself is popped with the others.
PopsOwn(i) == i.dist

Pops(i) == i.dist - (IF i.fg THEN 1 ELSE 0)

Reduce(n, sp, pairs) ==
  LET k == CHOOSE k \in Kernels(pairs) : TRUE
  IN  Leaf([Staged(n, <<"Reduce", k.r, Pops(k)>>, sp, {k}) EXCEPT !.red = Index(k)])

\* item_is_goal
IsGoal(n, c) == \E i \in nodes[n.base].kernel : Index(ToComplete(i)) = Index(c) /\ i.from = c.from

\* What the rules ks of a scanner complete, with what goes on behind them.
ScanTokens(n, compl) == {c.org.token : c \in {c \in compl : IsGoal(n, c)}}

ScanNode(n, sp, ks, follow, compl, toks) ==
  LET ty == CASE toks # {} -> <<IF follow # {} THEN "AssignAndFollow" ELSE "AssignToken", Min(toks)>>
              [] OTHER     -> <<IF follow # {} THEN "Follow" ELSE "CompleteToken">>
  IN  [Staged(n, ty, sp, follow) EXCEPT
         !.red = Index(CHOOSE k \in ks : IsComplete(k)),
         !.followed = {<<Index(c), c.from, c.org>> : c \in compl},
         !.leaf = follow = {} \/ toks # {},
         !.enqueued = follow # {} /\ toks # {}]

ScanNodeOf(n, sp, ks, compl) ==
  ScanNode(n, sp, ks, UNION {Follow(n, k) : k \in ks}, compl, ScanTokens(n, compl))

CompleteScan(n, sp, pairs) ==
  ScanNodeOf(n, sp, Kernels(pairs), UNION {Completes(n, k) : k \in Kernels(pairs)})

CompletedItem(n, sp, pairs) ==
  IF \A p \in pairs : p.k.org = GoalCompleteOOS
  THEN Of({Leaf(Staged(n, <<"NonTermCompleteOOS">>, sp, {}))})
  ELSE Of({IF n.scan THEN CompleteScan(n, sp, pairs) ELSE Reduce(n, sp, pairs)})

---------------------------------------------------------------------------
(* conflict.rs                                                             *)

\* resolve_conflicting_tokens: the token of the most specific symbol, and of those
\* the one of highest precedence.
ResolveTokens(n, sp, pairs) ==
  LET org(p) == p.k.org
      top    == {p \in pairs : TokSym[org(p).token].prec = MaxOf({TokSym[org(q).token].prec : q \in pairs})}
      best   == {p \in top : \A q \in top :
                   \/ org(q).prec < org(p).prec
                   \/ org(q).prec = org(p).prec /\ org(q).token <= org(p).token}
  IN  IF best = top \/ Cardinality(best) = 1 THEN CompletedItem(n, IF Cardinality(pairs) = 1 THEN sp ELSE <<sp[1], 0>>, best)
      ELSE Error("conflicting symbols")

\* get_conflict_follow_artifacts
Artifacts(n, items) ==
  {i \in UNION {ClosureAlign(f, f) : f \in UNION {Follow(n, TryIncrement(j)) : j \in items}} : IsTerm(i)}

MaxEvalKSR == 64

\* calculate_k: how far rs, behind the reductions, and ss, behind the shifts, go on
\* alike.
RECURSIVE KBetween(_, _, _, _, _)
KBetween(n, rs, ss, k, seen) ==
  LET common == {SymOf(i) : i \in rs} \cap {SymOf(i) : i \in ss}
      alike(S) == {i \in S : SymOf(i) \in common}
      indices == {Index(i) : i \in alike(rs \cup ss)}
  IN  CASE k > MaxEvalKSR -> "peek"
        [] k <= MaxEvalKSR /\ (rs = {} \/ ss = {}) -> "unpeekable"
        [] k <= MaxEvalKSR /\ rs # {} /\ ss # {} /\ common = {} -> "peek"
        [] k <= MaxEvalKSR /\ common # {} /\ indices \in seen -> "recursive"
        [] OTHER -> KBetween(n, Artifacts(n, alike(rs)), Artifacts(n, alike(ss)), k + 1, seen \cup {indices})

CreateFork(n, sp, items) == IncludeWithGoto(Staged(n, <<"ForkInitiator">>, sp, items))

\* A symbol that completed items and others want.
ShiftReduce(n, pairs, shift) ==
  LET compl == MaxOf({Rules[k.r].body[k.d].sp : k \in Kernels(pairs)})
      incom == MaxPrecedence(shift)
      ofShift == {NT(k) : k \in Kernels(shift)}
  IN  CASE incom > compl -> "shift"
        [] incom < compl -> "reduce"
        [] incom = compl /\ Cardinality(ofShift) = 1 /\ {NT(i) : i \in Nexts(pairs)} \subseteq ofShift -> "shift"
        [] OTHER -> KBetween(n, Artifacts(n, Nexts(pairs)), Artifacts(n, Nexts(shift)), 2, {})

---------------------------------------------------------------------------
(* regular.rs: what the completed items of a node do on a symbol, with the *)
(* items that shift on it.                                                 *)

\* Of several rules on one symbol a scanner takes the best, a parser peeks at more.
CompleteAlone(n, sp, pairs) ==
  LET one == IF sp[1] = DefaultSym THEN SameRule(pairs) ELSE Cardinality({Index(k) : k \in Kernels(pairs)}) = 1
  IN  IF n.scan THEN ResolveTokens(n, sp, pairs)
      ELSE IF one THEN CompletedItem(n, sp, pairs)
      ELSE Of({CreatePeek(n, sp, {}, pairs)})

Decided(n, sp, pairs, shift, way) ==
  CASE way = "all"    -> CompletedItem(n, sp, pairs \cup shift)
    [] way = "reduce" -> CompleteAlone(n, sp, pairs)
    [] way = "shift"  -> KeepShift
    [] way = "peek"   -> Of({CreatePeek(n, sp, shift, pairs)})
    [] way \in {"recursive", "unpeekable"} ->
         IF n.config.forks THEN Of({CreateFork(n, sp, Kernels(pairs) \cup Kernels(shift))}) ELSE Error(way)

RegularComplete(n, sp, pairs, shift) ==
  Decided(n, sp, pairs, shift,
          IF shift = {} THEN "reduce" ELSE IF n.scan THEN "all" ELSE ShiftReduce(n, pairs, shift))

---------------------------------------------------------------------------
(* call.rs and regular.rs: items that wait for a symbol.                   *)

\* climb_nonterms: the outermost nonterminal that all the items begin, with the
\* items behind which it stands; or none.
RECURSIVE Climb(_)
Climb(pairs) ==
  LET nts == {NT(i) : i \in Nexts(pairs)}
      nt  == CHOOSE nt \in nts : TRUE
      up  == UNION {{[k |-> p.k, next |-> Align(i, p.next)] :
                       i \in {i \in ClosureIter(p.k) : NTAt(i) = nt /\ NT(i) # nt}} : p \in pairs}
  IN  IF Cardinality(nts) # 1 \/ LeftRecursive(nt) \/ \E i \in Nexts(pairs) : ~ IsInitial(i) THEN {}
      ELSE IF Climb(up) # {} THEN Climb(up) ELSE {[nt |-> nt, items |-> Nexts(up)]}

Call(n, sp, pairs) ==
  LET nts == {NTAt(k) : k \in Kernels(pairs)}
  IN  IF n.scan \/ ~ n.config.calls \/ \E p \in pairs : IsKernelTerminal(p) THEN {}
      ELSE IF Cardinality(nts) = 1 /\ \A nt \in nts : ~ LeftRecursive(nt)
      THEN {Staged(n, <<"KernelCall", CHOOSE nt \in nts : TRUE>>, sp, {Increment(k) : k \in Kernels(pairs)})}
      ELSE {IncludeWithGoto(Staged(n, <<"InternalCall", c.nt>>, sp, {TryIncrement(i) : i \in c.items})) : c \in Climb(pairs)}

RegularIncomplete(n, sp, pairs) ==
  Of(IF Call(n, sp, pairs) # {} THEN Call(n, sp, pairs)
     ELSE IF \A p \in pairs : IsKernelTerminal(p)
     THEN {Staged(n, <<"KernelShift">>, sp, {Increment(k) : k \in Kernels(pairs)})}
     ELSE {IncludeWithGoto(Staged(n, <<"Shift">>, sp, {Increment(i) : i \in Nexts(pairs)}))})

---------------------------------------------------------------------------
(* build.rs                                                                *)

ScannerPrecBaseline == 5     \* CUSTOM_TOKEN_PRECEDENCE_BASELINE
ExclusivePrec == 9999

\* handle_scanner_items: pairs of lower precedence go, and those of a class join
\* those of its characters.
ScannerGroups(groups, completed) ==
  LET above(p) == IF p > ScannerPrecBaseline THEN p ELSE 0
      kept(s)  == {p \in groups[s].pairs : p.prec >= Max({above(completed), above(groups[s].prec)})}
      left     == {s \in DOMAIN groups : kept(s) # {}}
      occludes(s, t) == /\ t.kind = "class" /\ s.kind = "byte" /\ ClassOf[s.val] = t.val
                        /\ groups[s].prec < ExclusivePrec /\ groups[s].prec <= groups[t].prec
  IN  [s \in left |-> [groups[s] EXCEPT !.pairs = kept(s) \cup UNION {kept(t) : t \in {t \in left : occludes(s, t)}}]]

\* handle_completed_items
Completed(n, sym, pairs, shift) ==
  LET sp == <<sym, MaxPrecedence(pairs)>>
  IN  IF IsPeek(n) THEN PeekCompleteGroups(n, sp, pairs, shift) ELSE RegularComplete(n, sp, pairs, shift)

Incomplete(n, sym, group) ==
  IF IsPeek(n) THEN PeekIncompleteItems(n, <<sym, group.prec>>, group.pairs)
  ELSE RegularIncomplete(n, <<sym, group.prec>>, group.pairs)

\* What the completed items of n give: the result for each symbol that follows them,
\* and the one for all other symbols.
ResultsFor(n, firsts, own, pairs) ==
  LET syms  == {SymOf(i) : i \in {i \in Nexts(pairs) : IsTerm(i)}}
      rest  == IF SameRule(own) THEN own ELSE {p \in pairs : IsEoiComplete(p)}
      now(s) == IF s = DefaultSym THEN rest ELSE {p \in pairs : p.sym = s}
      open(s) == IF s \in DOMAIN firsts \ {DefaultSym} THEN firsts[s].pairs ELSE {}
  IN  [s \in syms \cup (IF rest = {} THEN {} ELSE {DefaultSym}) |-> Completed(n, s, now(s), open(s))]

CompletedResults(n, firsts) ==
  IF DefaultSym \notin DOMAIN firsts THEN <<>>
  ELSE LET own == firsts[DefaultSym].pairs IN ResultsFor(n, firsts, own, LookaheadPairs(n, Kernels(own)))

---------------------------------------------------------------------------
(* goto.rs                                                                 *)

NonTermItems(S) == {i \in S : NTAt(i) # 0}

\* What the staged nodes wait for, to which the gotos of n lead back.
PendingItems(staged) ==
  UNION {IF s.ty[1] = "Peek" THEN UNION {i.org.peek.items : i \in s.kernel} ELSE s.kernel : s \in {s \in staged : s.goto}}

\* The items behind a left recursive nonterminal, of nonterminals that the items
\* here do not stand for: what may come once it leaves the graph.
OosItems(n, nt, items) ==
  LET local == {NTAt(i) : i \in items}
  IN  {[i EXCEPT !.org = GoalCompleteOOS, !.st = n.id] :
         i \in {i \in {Increment(j) : j \in db[nt].follow} :
                  /\ NTAt(i) = nt /\ NT(i) # nt /\ NT(i) \notin local
                  /\ Index(i) \notin {Index(j) : j \in items}}}

\* The nonterminals that n reads back, with their items.
GotoItems(n) ==
  LET base    == {i \in n.kernel : ~ IsOos(i)}
      indices == IF n.root THEN {Index(i) : i \in base} ELSE {}
      behind(i) == ClosureLaneSplit(i, [i EXCEPT !.org = [goto |-> n.id], !.st = n.id])
  IN  NonTermItems(base) \cup
      {i \in NonTermItems(UNION {behind(i) : i \in {i \in base : ~ IsComplete(i)}}) : Index(i) \notin indices}

NonTermShifts(n, staged) ==
  LET base    == {i \in n.kernel : ~ IsOos(i)}
      items   == GotoItems(n)
      pending == {i \in PendingItems(staged) : i.st = n.id /\ (Identity(i) \notin {Identity(k) : k \in base} \/ IsInitial(i))}
      own     == {NTAt(i) : i \in NonTermItems(base)} \cup {NT(i) : i \in NonTermItems(base)}
      targets == {NTAt(i) : i \in items}
      sp(nt)  == <<[kind |-> "nonterm", val |-> nt], 0>>
      shift(nt) ==
        LET of   == {i \in items : NTAt(i) = nt}
            next == {Increment(i) : i \in of}
            oos  == /\ nt \in own /\ n.root
                    /\ \E i \in of : RuleIsLeftRecursive(i)
                    /\ \A i \in of : ~ IsPenultimate(i)
            done == \E i \in of : IsPenultimate(i) /\ Identity(i) \in {Identity(k) : k \in base}
        IN  [IncludeWithGoto(Staged(n, <<"NonTerminalShiftLoop">>, sp(nt), next \cup IF oos THEN OosItems(n, nt, next) ELSE {}))
               EXCEPT !.returns = n.root /\ nt \in {NT(i) : i \in n.kernel} /\ ~ done]
  IN  IF n.scan \/ IsPeek(n) \/ pending = {} THEN {}
      ELSE {shift(nt) : nt \in targets}
           \cup (IF items = {} THEN {} ELSE {Leaf(Staged(n, <<"NonTerminalComplete">>, sp(nt), {})) : nt \in own \ targets})

---------------------------------------------------------------------------
(* handle_kernel_items.                                                    *)

ForkedStates(n) == {Staged(n, <<"ForkedState">>, <<DefaultSym, 0>>, {i}) : i \in n.kernel}

\* Mutant: a symbol that has a result for the complete items stays with the others.
OpenGroupsOfAll(n, firsts, done) ==
  LET groups == [s \in DOMAIN firsts \ {DefaultSym} |-> firsts[s]]
  IN  IF ~ n.scan THEN groups
      ELSE ScannerGroups(groups, IF done = <<>> THEN 0 ELSE firsts[DefaultSym].prec)

\* What is left to items that wait, once those that are complete have their results.
OpenGroups(n, firsts, done) ==
  LET open == {s \in DOMAIN firsts \ {DefaultSym} : s \in DOMAIN done => done[s].keep}
      groups == [s \in open |-> firsts[s]]
  IN  IF ~ n.scan THEN groups
      ELSE ScannerGroups(groups, IF done = <<>> THEN 0 ELSE firsts[DefaultSym].prec)

Results(n, done, groups) ==
  {done[s] : s \in DOMAIN done} \cup {Incomplete(n, s, groups[s]) : s \in DOMAIN groups}

WithNonTermShifts(results, staged, shifts) ==
  [staged |-> staged \cup shifts, errs |-> UNION {r.err : r \in results}, gotos |-> shifts # {}]

FromResults(n, results) ==
  LET staged == UNION {r.staged : r \in results}
  IN  WithNonTermShifts(results, staged, NonTermShifts(n, staged))

FromFirsts(n, firsts, done) == FromResults(n, Results(n, done, OpenGroups(n, firsts, done)))

\* The nodes that n leads to, the errors met, and whether n reads nonterminals back.
Expand(n) ==
  IF n.ty[1] = "ForkInitiator" THEN [staged |-> ForkedStates(n), errs |-> {}, gotos |-> FALSE]
  ELSE LET firsts == Firsts(n) IN FromFirsts(n, firsts, CompletedResults(n, firsts))
=============================================================================
