------------------------------- MODULE Optimize -------------------------------
(***************************************************************************)
(* The optimiser of the parse states (optimize.rs): a fixed sequence of    *)
(* passes over the whole map of states, most of which end in a collection  *)
(* of the states left without a reference (module GarbageCollect).  Each   *)
(* pass reads a copy of what it needs from the map as it was before the    *)
(* pass, so that the order in which it visits the states does not matter.  *)
(*                                                                         *)
(* A state of the map is [st, root, toks]: its statement, whether it is a  *)
(* root of a parse graph, and the tokens its scanner knows, skipped ones   *)
(* included ({} without a scanner).                                        *)
(***************************************************************************)
EXTENDS IR, FiniteSetsExt, TLC

CONSTANTS Names, Entry,          \* names of states, and the exported entry state
          TokSym                 \* [kind, val]: the symbol of each token

VARIABLES config,    \* the options: optimise at all, ALLOW_SCANNER_INLINING
                     \* and ALLOW_BYTE_SEQUENCES (ParserConfig)
          orig,      \* the program before the first pass
          prog,      \* the map of parse states
          at,        \* the passes still to run, the current one first
          rest, queue, out,      \* the collection under way
          collecting

vars == <<config, orig, prog, at, rest, queue, out, collecting>>

---------------------------------------------------------------------------
(* What every pass needs of a statement.                                   *)

Cases(s)     == ToSet(s.br.cases)
Without(s)   == [s EXCEPT !.br = NoBr]
Bare(s)      == s.tr = None /\ s.nb = <<>>
StmtOf(n)    == prog[n].st
Rewrite(F(_, _)) == [n \in DOMAIN prog |-> [prog[n] EXCEPT !.st = F(n, @)]]

\* Mutant: pushes are no references.
RECURSIVE RefsWithoutPushes(_)
RefsWithoutPushes(s) ==
  IF IsGotos(s) THEN (ToSet(s.br.fork) \cup {s.br.goto}) \ {None}
  ELSE IF IsMatch(s)
  THEN UNION {RefsWithoutPushes(m.st) : m \in Cases(s)}
       \cup (IF s.br.mode = "_TOKEN_" THEN {s.br.scanner} ELSE {})
  ELSE {}

\* The names a statement refers to (traverse_statement): a scanner only counts
\* in a match on tokens.
RECURSIVE RefsOf(_)
RefsOf(s) ==
  IF IsGotos(s)
  THEN (ToSet(s.br.pushes) \cup ToSet(s.br.fork) \cup {s.br.goto}) \ {None}
  ELSE IF IsMatch(s)
  THEN UNION {RefsOf(m.st) : m \in Cases(s)}
       \cup (IF s.br.mode = "_TOKEN_" THEN {s.br.scanner} ELSE {})
  ELSE {}

\* The cases with values of a state, those of the match in its default included,
\* as <<mode, value, statement>>: what two passes look up of a state.
RECURSIVE RootCases(_)
RootCases(s) ==
  IF ~ (Bare(s) /\ IsMatch(s)) THEN {}
  ELSE {<<s.br.mode, v, m.st>> : <<m, v>> \in
          {<<m, v>> \in Cases(s) \X UNION {ToSet(m.vals) : m \in Cases(s)} :
             v \in ToSet(m.vals)}}
       \cup UNION {RootCases(m.st) : m \in {m \in Cases(s) : IsDefault(m)}}

---------------------------------------------------------------------------
(* canonicalize_states: states with the same text become one state.        *)

\* Mutant: reductions and tokens are left out.
RECURSIVE CanonOfBranches(_, _)
CanonOfBranches(self, s) ==
  <<s.tr, s.pop>> \o
  (IF IsGotos(s) THEN <<s.br.goto>> \o s.br.pushes \o s.br.fork
   ELSE IF IsMatch(s) THEN <<s.br.mode, s.br.scanner, {<<m.vals, CanonOfBranches(self, m.st)>> : m \in Cases(s)}>>
   ELSE <<s.br.k>>)

\* What the hash of a statement is made of; gotos, pushes and paths of a fork
\* are hashed by name only, and those to the state itself may be passed over.
RECURSIVE Canon(_, _)
Canon(self, s) ==
  LET names == IF IsGotos(s)
               THEN (IF s.br.goto = None THEN <<>> ELSE <<s.br.goto>>) \o s.br.pushes \o s.br.fork
               ELSE <<>>
      others(n) == n # self
  IN  <<s.tr, s.nb, s.pop>> \o
      (IF IsGotos(s) THEN SelectSeq(names, others)
       ELSE IF IsMatch(s)
       THEN <<s.br.mode, s.br.scanner, {<<m.vals, Canon(self, m.st)>> : m \in Cases(s)}>>
       ELSE IF s.br = NoBr THEN <<>> ELSE <<s.br.k>>)

CanonOf(n, mergeSelfRecursive) == Canon(IF mergeSelfRecursive THEN n ELSE "", StmtOf(n))

RECURSIVE Rename(_, _)
Rename(s, to) ==
  IF IsGotos(s)
  THEN [s EXCEPT !.br = [k |-> "gotos",
          pushes |-> [i \in DOMAIN @.pushes |-> to[@.pushes[i]]],
          fork   |-> [i \in DOMAIN @.fork |-> to[@.fork[i]]],
          goto   |-> IF @.goto = None THEN None ELSE to[@.goto]]]
  ELSE IF IsMatch(s)
  THEN [s EXCEPT !.br.scanner = IF @ = None THEN None ELSE to[@],
                 !.br.cases = [i \in DOMAIN @ |-> [@[i] EXCEPT !.st = Rename(@, to)]]]
  ELSE s

\* The state each state is replaced by: a root if there is one.
Canonical(mergeSelfRecursive) ==
  LET keyOf == [n \in DOMAIN prog |-> CanonOf(n, mergeSelfRecursive)]
      same(n) == {k \in DOMAIN prog : keyOf[k] = keyOf[n]}
      pick(S) == LET roots == {k \in S : prog[k].root}
                 IN  CHOOSE k \in (IF roots # {} THEN roots ELSE S) : TRUE
      of == [key \in Range(keyOf) |-> pick({k \in DOMAIN prog : keyOf[k] = key})]
  IN  [n \in DOMAIN prog |-> of[keyOf[n]]]

Canonicalized(mergeSelfRecursive) ==
  LET to == Canonical(mergeSelfRecursive)
      rename(n, s) == Rename(s, to)
  IN  Rewrite(rename)

---------------------------------------------------------------------------
(* merge_branches: a case that only goes to a state with a case for the    *)
(* same value takes over the branch found there.                           *)

RECURSIVE TakeOver(_, _, _)
TakeOver(s, mode, val) ==
  LET found == IF Bare(s) /\ IsGotos(s) /\ s.br.goto # None
               THEN {c \in RootCases(StmtOf(s.br.goto)) : c[1] = mode /\ c[2] = val /\ IsGotos(c[3])}
               ELSE {}
      b == (CHOOSE c \in found : TRUE)[3]
  IN  IF found = {} THEN s
      ELSE TakeOver([s EXCEPT !.tr = b.tr, !.nb = b.nb, !.br.goto = b.br.goto,
                              !.br.pushes = @ \o b.br.pushes], mode, val)

RECURSIVE MergeBranches(_)
MergeBranches(s) ==
  IF ~ IsMatch(s) THEN s
  ELSE [s EXCEPT !.br.cases = [i \in DOMAIN @ |->
          [@[i] EXCEPT !.st = IF IsDefault(s.br.cases[i]) THEN MergeBranches(@)
                              ELSE IF Len(s.br.cases[i].vals) = 1
                              THEN TakeOver(@, s.br.mode, s.br.cases[i].vals[1])
                              ELSE @]]]

---------------------------------------------------------------------------
(* combine_state_branches: cases with the same statement become one, the   *)
(* default takes in cases that do the same, and a match that has only a    *)
(* default left gives way to it.                                           *)

Grouped(cases) ==
  LET same(i)  == SelectSeq(cases, LAMBDA m : m.st = cases[i].st)
      first    == {i \in DOMAIN cases : \A j \in 1..(i - 1) : cases[j].st # cases[i].st}
      group(i) == IF \E m \in ToSet(same(i)) : IsDefault(m) THEN Default(cases[i].st)
                  ELSE Case(FlattenSeq([j \in DOMAIN same(i) |-> same(i)[j].vals]), cases[i].st)
  IN  [k \in 1..Cardinality(first) |->
         group(CHOOSE i \in first : Cardinality({j \in first : j <= i}) = k)]

\* merge_statements.
Absorb(from, to) ==
  [tr |-> IF from.tr = None THEN to.tr ELSE from.tr, nb |-> to.nb \o from.nb,
   pop |-> from.pop, br |-> from.br]

RECURSIVE Combine(_)
Combine(s) ==
  IF ~ IsMatch(s) THEN s
  ELSE LET cases == [i \in DOMAIN Grouped(s.br.cases) |->
                       [Grouped(s.br.cases)[i] EXCEPT !.st = Combine(@)]]
       IN  IF Len(cases) = 1 /\ IsDefault(cases[1]) /\ cases[1].st.tr = None
           THEN Absorb(cases[1].st, s)
           ELSE [s EXCEPT !.br.cases = cases]

---------------------------------------------------------------------------
(* inline_states: a case that goes to a state without a match takes over   *)
(* what that state does.                                                   *)

Trivial(n) == ~ IsMatch(StmtOf(n))

\* Pops of the state taken over annihilate pushes of the case, from the last.
Annihilate(s, pops, t) ==
  LET pushes == s.br.pushes
      count  == IF t.pop = 0 THEN 0 ELSE pops + t.pop
      left   == IF count >= Len(pushes) THEN <<>> ELSE SubSeq(pushes, 1, Len(pushes) - count)
  IN  [pushes |-> IF t.pop = 0 THEN pushes ELSE left,
       pops   |-> IF t.pop = 0 THEN pops
                  ELSE IF count > Len(pushes) THEN count - Len(pushes) ELSE 0]

RECURSIVE InlineCase(_, _)
InlineCase(s, pops) ==
  LET stop == [s EXCEPT !.pop = pops]
      t    == StmtOf(s.br.goto)
      ends == t.br.k \in {"pass", "fail", "accept"}
      a    == Annihilate(s, pops, t)
      into == [s EXCEPT !.tr = IF @ = None THEN t.tr ELSE @, !.nb = @ \o t.nb]
  IN  IF ~ IsGotos(s) \/ s.br.goto = None THEN stop
      ELSE IF ~ Trivial(s.br.goto) \/ (ends /\ s.br.pushes # <<>>)
              \/ (s.tr # None /\ t.tr # None)
           THEN stop
      ELSE IF ends
           THEN [into EXCEPT !.br = t.br, !.pop = a.pops]
      ELSE IF IsGotos(t)
           THEN InlineCase([into EXCEPT !.br.goto = t.br.goto,
                                        !.br.pushes = a.pushes \o t.br.pushes], a.pops)
      ELSE IF a.pushes # <<>>
           THEN InlineCase([into EXCEPT !.br.goto = Last(a.pushes),
                                        !.br.pushes = Front(a.pushes)], a.pops)
      ELSE [into EXCEPT !.br = NoBr, !.pop = a.pops]

InlineStates(n, s) ==
  IF ~ IsMatch(s) THEN s
  ELSE [s EXCEPT !.br.cases = [i \in DOMAIN @ |-> [@[i] EXCEPT !.st = InlineCase(@, @.pop)]]]

---------------------------------------------------------------------------
(* inline_scanners: a match on tokens of one character each reads the      *)
(* input itself, literals before classes.                                  *)

SingleCharacter(t) == TokSym[t].kind \in {"byte", "codepoint", "class"}

\* Groups, outermost first, with the modes that read without a scanner.
Modes == <<[kind |-> "byte", mode |-> "_BYTE_SCANLESS_"],
           [kind |-> "codepoint", mode |-> "_CODEPOINT_SCANLESS_"],
           [kind |-> "class", mode |-> "_CLASS_SCANLESS_"]>>

\* One case for each token: the statement of the case it stood in.
Singles(s, kind) ==
  LET pairs == FlattenSeq([i \in DOMAIN s.br.cases |->
                 [j \in DOMAIN s.br.cases[i].vals |->
                    [tok |-> s.br.cases[i].vals[j], st |-> s.br.cases[i].st]]])
      mine  == SelectSeq(pairs, LAMBDA p : TokSym[p.tok].kind = kind)
  IN  [i \in DOMAIN mine |-> Case(<<TokSym[mine[i].tok].val>>, mine[i].st)]

RECURSIVE Chain(_, _)
Chain(s, modes) ==
  LET cases == Singles(s, Head(modes).kind)
      used  == SelectSeq(Tail(modes), LAMBDA q : Singles(s, q.kind) # <<>>)
      dflt  == SelectSeq(s.br.cases, IsDefault)
      rest_ == IF used # <<>> THEN <<Default(Just(Chain(s, used)))>>
               ELSE IF dflt # <<>> THEN <<Head(dflt)>> ELSE <<>>
  IN  Match(Head(modes).mode, None, cases \o rest_)

InlineScanner(n, s) ==
  LET used == SelectSeq(Modes, LAMBDA q : Singles(s, q.kind) # <<>>)
  IN  IF prog[n].toks # {} /\ (\A t \in prog[n].toks : SingleCharacter(t))
         /\ IsMatch(s) /\ s.br.mode = "_TOKEN_"
      THEN [s EXCEPT !.br = Chain(s, used)]
      ELSE s

---------------------------------------------------------------------------
(* create_byte_sequences: a run of matches of one value each becomes one   *)
(* match of the sequence of the values.  (A run that ends in a fork keeps  *)
(* the code's loop from ending; scanners have none.)                       *)

ByteModes == {"_BYTE_", "_CODEPOINT_"}

\* States that match one case and nothing else.
Link(n) == IsMatch(StmtOf(n)) /\ StmtOf(n).br.mode \in ByteModes
           /\ Len(StmtOf(n).br.cases) = 1 /\ ~ IsDefault(StmtOf(n).br.cases[1])

RECURSIVE Follows(_, _, _)
Follows(vs, s, tr) ==
  LET g == s.br.goto
      next == StmtOf(g).br.cases[1]
      more == [vals |-> vs \o next.vals, st |-> next.st]
  IN  IF IsGotos(s) /\ g # None /\ s.br.pushes = <<>> /\ Link(g) /\ next.st.tr = tr
      THEN IF next.st.nb # <<>> THEN more ELSE Follows(more.vals, more.st, tr)
      ELSE [vals |-> vs, st |-> s]

ByteSequences(n, s) ==
  LET ints == {i \in DOMAIN s.br.cases : ~ IsDefault(s.br.cases[i])}
      i    == CHOOSE i \in ints : TRUE
      m    == s.br.cases[i]
      seq  == Follows(m.vals, m.st, m.st.tr)
  IN  IF IsMatch(s) /\ s.br.mode \in ByteModes /\ Cardinality(ints) = 1
         /\ Len(s.br.cases) <= 2 /\ Len(seq.vals) > Len(m.vals)
      THEN [s EXCEPT !.br.mode = "_BYTE_SEQUENCE_",
                     !.br.cases[i] = Case(seq.vals, [m.st EXCEPT !.br = seq.st.br, !.nb = seq.st.nb])]
      ELSE s

---------------------------------------------------------------------------
(* remove_redundant_defaults: a default that only goes to a state whose    *)
(* cases are all here too goes away.                                       *)

Redundant(n, s) == /\ Bare(s) /\ IsGotos(s) /\ s.br.goto # None /\ s.br.pushes = <<>>
                   /\ RootCases(StmtOf(s.br.goto)) \subseteq RootCases(StmtOf(n))

RECURSIVE WithoutRedundant(_, _)
WithoutRedundant(n, s) ==
  IF ~ IsMatch(s) THEN s
  ELSE LET kept == SelectSeq(s.br.cases, LAMBDA m : ~ (IsDefault(m) /\ Redundant(n, m.st)))
       IN  [s EXCEPT !.br.cases = [i \in DOMAIN kept |->
              IF IsDefault(kept[i]) THEN Default(WithoutRedundant(n, kept[i].st)) ELSE kept[i]]]

---------------------------------------------------------------------------
(* The sequence of passes.                                                 *)

Pass_(name, selfrec) == [pass |-> name, selfrec |-> selfrec]
Plain(name) == Pass_(name, FALSE)
Optional(on, name) == IF on THEN <<Plain(name)>> ELSE <<>>

\* The last rounds of canonicalization, repeated while they change something;
\* the loop around them runs twice.
Rounds == <<Pass_("rounds", FALSE), Pass_("rounds", TRUE),
            Pass_("rounds", FALSE), Pass_("rounds", TRUE)>>

\* Without optimisation (sweep) only the unreferenced states go.
Pipeline(c) ==
  IF ~ c.optimize THEN <<Plain("collect")>> ELSE
  <<Plain("collect"), Plain("canonicalize"), Plain("merge"), Plain("combine"),
    Plain("canonicalize"), Plain("inline")>>
  \o Optional(c.scanners, "scanners")
  \o Optional(c.sequences, "sequences")
  \o <<Plain("merge"), Plain("defaults"), Plain("canonicalize"), Plain("combine")>>
  \o Rounds \o <<Plain("collect")>>

Refs == [n \in DOMAIN prog |-> RefsOf(StmtOf(n))]
GC == INSTANCE GarbageCollect
        WITH Entries <- {Entry}, refs <- Refs

Running(pass) == ~ collecting /\ at # <<>> /\ Head(at).pass = pass

\* garbage_collect begins on the states a pass returns.
Collect(p) ==
  /\ prog' = p
  /\ collecting' = TRUE
  /\ queue' = {Entry} \cap DOMAIN p
  /\ rest' = DOMAIN p \ {Entry}
  /\ out' = {}

NoCollection == UNCHANGED <<rest, queue, out, collecting>>

CollectOnly == Running("collect") /\ Collect(prog) /\ at' = Tail(at)

Canonicalize ==
  /\ Running("canonicalize")
  /\ at' = Tail(at)
  /\ \E p \in {Canonicalized(FALSE)} :
       IF p # prog THEN Collect(p) ELSE prog' = prog /\ NoCollection

\* Mutant: a round is repeated when it changed nothing, too.
RoundForever ==
  /\ Running("rounds") /\ at' = at
  /\ \E p \in {Canonicalized(Head(at).selfrec)} :
       IF p # prog THEN Collect(p) ELSE prog' = prog /\ NoCollection

\* A round is repeated when it changed something, and otherwise the next begins.
Round ==
  /\ Running("rounds")
  /\ \E p \in {Canonicalized(Head(at).selfrec)} :
       IF p # prog THEN Collect(p) /\ at' = at
       ELSE prog' = prog /\ NoCollection /\ at' = Tail(at)

Merge ==
  /\ Running("merge")
  /\ \E p \in {Rewrite(LAMBDA n, s : MergeBranches(s))} : prog' = p
  /\ at' = Tail(at) /\ NoCollection

CombineBranches ==
  /\ Running("combine")
  /\ \E p \in {Rewrite(LAMBDA n, s : Combine(s))} : prog' = p
  /\ at' = Tail(at) /\ NoCollection

Inline ==
  /\ Running("inline")
  /\ \E p \in {Rewrite(InlineStates)} : Collect(p)
  /\ at' = Tail(at)

Scanners ==
  /\ Running("scanners")
  /\ \E p \in {Rewrite(InlineScanner)} : Collect(p)
  /\ at' = Tail(at)

Sequences ==
  /\ Running("sequences")
  /\ \E p \in {Rewrite(ByteSequences)} : Collect(p)
  /\ at' = Tail(at)

Defaults ==
  /\ Running("defaults")
  /\ \E p \in {Rewrite(WithoutRedundant)} : Collect(p)
  /\ at' = Tail(at)

\* The loop of garbage_collect, and its result.  Any order of the queue gives
\* the same result (theorem CollectorExact): one is enough here.
FollowState ==
  /\ collecting
  /\ UNCHANGED <<prog, at, collecting>>
  /\ queue # {} /\ GC!Follow(CHOOSE n \in queue : TRUE)

Collected ==
  /\ collecting /\ queue = {}
  /\ prog' = [n \in out |-> prog[n]]
  /\ collecting' = FALSE
  /\ rest' = {} /\ out' = {}
  /\ UNCHANGED <<queue, at>>

InitWith(p, c) ==
  /\ config = c /\ orig = p /\ prog = p /\ at = Pipeline(c)
  /\ rest = {} /\ queue = {} /\ out = {} /\ collecting = FALSE

Next ==
  /\ \/ CollectOnly \/ Canonicalize \/ Round \/ Merge \/ CombineBranches \/ Inline
     \/ Scanners \/ Sequences \/ Defaults \/ FollowState \/ Collected
  /\ UNCHANGED <<config, orig>>

---------------------------------------------------------------------------
(* Properties.                                                             *)

Between == ~ collecting

\* Between two passes each name a state mentions has a state: the renaming of
\* canonicalize_states expects one ("State name should exist"), and the bytecode
\* would go to address 0 without a word (build_bytecode.rs, unwrap_or_default).
NamesResolve ==
  Between => \A n \in DOMAIN prog : Mentioned(StmtOf(n)) \subseteq DOMAIN prog

\* The actions a consumer sees, without the token ids that a match without a
\* scanner does not assign.
RECURSIVE Seen(_)
Seen(acts) ==
  [i \in DOMAIN acts |->
     IF acts[i].a \in {"shift", "skip"} /\ config.scanners THEN [acts[i] EXCEPT !.tok = 0]
     ELSE IF acts[i].a = "fork"
     THEN [acts[i] EXCEPT !.paths = [j \in DOMAIN @ |-> Seen(@[j])]]
     ELSE acts[i]]

\* No pass changes what the parser does with a text: the same shifts, skips,
\* reductions and forks in the same order, and the same end.
PreservedOn(texts, fuel) ==
  Between => \A t \in texts : Seen(Parse(prog, Entry, t, fuel)) = Seen(Parse(orig, Entry, t, fuel))

\* The rounds of canonicalization come to an end.
OptimizeEnds == <>(at = <<>> /\ Between)
=============================================================================
