------------------------------- MODULE MCBuildIR -------------------------------
EXTENDS MCNodes, BuildIRConcurrent

D == INSTANCE Derivations WITH Rules <- MCRules
I == INSTANCE IR WITH ClassOf <- MCClassOf

\* The program made of the result.
Program ==
  LET of(n) == (CHOOSE p \in states : p[1] = n)[2]
      entries == [s \in Starts |-> B!EntryStates(EntryOf[s], "exit_" \o s, s)]
      extras == [n \in MCExtra |-> (CHOOSE e \in {entries[s] : s \in Starts} : n \in DOMAIN e)[n]]
  IN  [n \in {p[1] : p \in states} |-> IF of(n) = N THEN extras[n] ELSE MCStates[of(n)][n]]

\* The start symbols of the derivations, and some texts of each language.
Roots == [s \in Starts |-> CASE s = "A" -> {1} [] s = "L" -> {3} [] s = "K" -> {4}
                             [] s = "M" -> {11} [] s = "C" -> {5} [] s = "F" -> {9, 10, 14}
                             [] OTHER -> {12, 13}]
Sentences == [s \in Starts |->
  CASE s = "A" -> {<<a, b>>, <<a, a, b>>, <<sp, a, sp, b>>}
    [] s = "L" -> {<<b>>, <<b, a, a>>, <<b, sp, a>>}
    [] s = "K" -> {<<a, b>>, <<b, a, a>>, <<a>>, <<a, b, b>>}
    [] s = "M" -> {<<a, b, b>>, <<sp, a, b, sp, b>>}
    [] s = "C" -> {<<a, a, b>>, <<a, a, a>>, <<a, a, sp, b>>}
    [] OTHER -> {}]
Texts == UNION {[1..n -> {a, b, sp}] : n \in 0..4}

\* The program that the threads put together parses its grammar: the reductions of
\* a text that is accepted are a derivation of what was read of it, and the
\* sentences of the grammar are accepted.
ProgramParses ==
  main = "done" =>
    \E p \in {Program} : \A s \in Starts :
      /\ \A t \in Texts : D!Derives(<<>>, I!Parse(p, EntryOf[s], t, 200), Roots[s])
      /\ \A t \in Sentences[s] : D!AcceptedAt(I!Parse(p, EntryOf[s], t, 200), Len(t))
=============================================================================
