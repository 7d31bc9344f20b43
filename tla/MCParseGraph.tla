----------------------------- MODULE MCParseGraph -----------------------------
EXTENDS MCGrammars, ParseGraph

MCTokSym == [t \in MCTokens |-> [kind |-> "byte", val |-> CodeOf(t), prec |-> 4]]
MCClassOf == [code \in 0 .. 127 |-> IF code = 32 THEN 6 ELSE 3]

Config(calls, forks) == [calls |-> calls, forks |-> forks]

\* All of the grammars with one worker, and two small ones with two, in every order.
MCBuilds ==
  {[roots |-> [nt \in {P, E, T, F, K, H} |-> Config(nt \in {E, T}, nt = F)], workers |-> {1}],
   [roots |-> [nt \in {X} |-> Config(FALSE, FALSE)], workers |-> {1, 2}],
   [roots |-> [nt \in {Y} |-> Config(TRUE, FALSE)], workers |-> {1, 2}]}

---------------------------------------------------------------------------
(* The program made of the graphs, with an entry for each root.            *)

D  == INSTANCE Derivations WITH Rules <- Grammar
IR == INSTANCE IR WITH ClassOf <- MCClassOf
BI == INSTANCE BuildIR WITH Graph <- graphs, TokSym <- MCTokSym, ClassOf <- MCClassOf

Starts == DOMAIN build.roots
EntryOf(s) == "entry_" \o ToString(s)

Program ==
  LET states  == {BI!StatesOf(n) : n \in DOMAIN graphs}
      entries == {BI!EntryStates(EntryOf(s), "exit_" \o ToString(s), RootName(nodes[RootOf(s)])) : s \in Starts}
  IN  [name \in UNION {DOMAIN f : f \in states \cup entries} |->
         (CHOOSE f \in states \cup entries : name \in DOMAIN f)[name]]

Words(s) ==
  CASE s = P -> {<<a, b, c>>, <<a, b, d>>, <<a, b, e>>, <<a, space, b, space, d>>}
    [] s = E -> {<<b>>, <<b, a, b>>, <<c, b, d>>, <<b, a, c, b, a, b, d>>, <<c, c, b, d, a, b, d, a, b>>}
    [] s = K -> {<<c, a, d>>, <<c, a, e>>, <<d, a, c>>, <<d, a, d>>}
    [] s = H -> {<<c, e, e, a, e, c, e, b, e, b>>, <<e, a, e>>, <<c, e>>, <<c, e, b, e, a, e>>}
    [] s = T -> {<<b>>, <<c, b, d>>, <<c, b, a, c, b, d, d>>}
    [] s \in {X, Y} -> {<<e>>, <<e, e>>, <<e, space, e, e>>}
    [] OTHER -> {<<e, c>>, <<e, d>>, <<e, e, e, c>>, <<e, e, e, d>>}

Letters(s) == CASE s = P -> {a, b, c, d, e} [] s \in {E, T} -> {a, b, c, d} [] s = K -> {a, c, d, e}
                   [] s = H -> {a, b, c, e} [] s \in {X, Y} -> {c, e} [] OTHER -> {c, d, e}
MaxText == 4
Texts(s) == UNION {[1 .. n -> Letters(s)] : n \in 0 .. MaxText}

Fuel == 500
Parse(p, s, text) == IR!Parse(p, EntryOf(s), [i \in DOMAIN text |-> CodeOf(text[i])], Fuel)

\* A parse, or a path of its fork, that reads all of the text.
RECURSIVE Accepts(_, _)
Accepts(acts, pos) ==
  \/ D!AcceptedAt(acts, pos)
  \/ acts # <<>> /\ acts[Len(acts)].a = "fork" /\ \E i \in DOMAIN acts[Len(acts)].paths : Accepts(acts[Len(acts)].paths[i], pos)

\* The flow rules find a parser for each root (the grammars have no conflict that
\* peeks or a fork do not decide), and the program made of the graphs is one: its
\* reductions derive what it reads of a text, and it accepts the words of the
\* language.
GraphsParse ==
  /\ err = {}
  /\ graphs # <<>> =>
       \E p \in {Program} : \A s \in Starts :
         /\ \A word \in Words(s) : Accepts(Parse(p, s, word), Len(word))
         /\ \A text \in Texts(s) : D!Derives(<<>>, Parse(p, s, text), {s})
=============================================================================
