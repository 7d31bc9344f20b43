----------------------------- MODULE MCForkParser -----------------------------
(***************************************************************************)
(* Grammars for TLC, and the SLR(1) automata that parse them.  A state is  *)
(* a set of items <<rule, dot>>; the last rule of a grammar is its goal.   *)
(***************************************************************************)
EXTENDS ForkForest

R(lhs, rhs) == [lhs |-> lhs, rhs |-> rhs]

MCRule ==
  [list   |-> <<R("L", <<"L", "x">>), R("L", <<"x">>), R("Goal", <<"L">>)>>,
   sum    |-> <<R("E", <<"E", "+", "E">>), R("E", <<"n">>), R("Goal", <<"E">>)>>,
   else   |-> <<R("S", <<"if", "S">>), R("S", <<"if", "S", "else", "S">>), R("S", <<"s">>),
                R("Goal", <<"S">>)>>,
   repo   |-> <<R("F", <<"E", "test">>), R("E", <<"A", "!">>), R("E", <<"B">>),
                R("B", <<"id", "()", "!">>), R("A", <<"id", "()">>), R("Goal", <<"F">>)>>,
   layout |-> <<R("S", <<"P", "sp", "c">>), R("P", <<"a", "b">>), R("Goal", <<"S">>)>>]

MCIgnored ==
  [g \in DOMAIN MCRule |-> IF g \in {"list", "repo", "layout"} THEN {"sp"} ELSE {}]

Symbols(g) ==
  UNION {{MCRule[g][r].lhs} \cup ToSet(MCRule[g][r].rhs) : r \in DOMAIN MCRule[g]}

Tokens(g) == (Symbols(g) \ NonTerms(MCRule[g])) \cup MCIgnored[g] \cup {END}

RuleOf(g, item) == MCRule[g][item[1]]

Complete(g, item) == item[2] = Len(RuleOf(g, item).rhs)

\* The symbol after the dot.
Expected(g, item) == RuleOf(g, item).rhs[item[2] + 1]

RECURSIVE Closure(_, _)
Closure(g, items) ==
  LET more == {<<r, 0>> : r \in {r \in DOMAIN MCRule[g] :
                 \E i \in items : ~ Complete(g, i) /\ Expected(g, i) = MCRule[g][r].lhs}}
  IN IF more \subseteq items THEN items ELSE Closure(g, items \cup more)

Advance(g, q, x) ==
  Closure(g, {<<i[1], i[2] + 1>> : i \in {i \in q : ~ Complete(g, i) /\ Expected(g, i) = x}})

StartState(g) == Closure(g, {<<Len(MCRule[g]), 0>>})

RECURSIVE Reach(_, _)
Reach(g, states) ==
  LET more == {Advance(g, q, x) : q \in states, x \in Symbols(g)} \ {{}}
  IN IF more \subseteq states THEN states ELSE Reach(g, states \cup more)

\* What X may begin with, and the non-terminals that may end with X.
RECURSIVE First(_, _)
First(g, X) ==
  LET more == {MCRule[g][r].rhs[1] : r \in {r \in DOMAIN MCRule[g] : MCRule[g][r].lhs \in X}}
  IN IF more \subseteq X THEN X ELSE First(g, X \cup more)

RECURSIVE Heads(_, _)
Heads(g, X) ==
  LET more == {MCRule[g][r].lhs : r \in {r \in DOMAIN MCRule[g] : Last(MCRule[g][r].rhs) \in X}}
  IN IF more \subseteq X THEN X ELSE Heads(g, X \cup more)

Follow(g, x) ==
  (IF "Goal" \in Heads(g, {x}) THEN {END} ELSE {}) \cup
  UNION {UNION {First(g, {MCRule[g][r].rhs[k + 1]}) :
                  k \in {k \in 1 .. Len(MCRule[g][r].rhs) - 1 : MCRule[g][r].rhs[k] \in Heads(g, {x})}} :
           r \in DOMAIN MCRule[g]}

RECURSIVE Listed(_)
Listed(S) ==
  IF S = {} THEN <<>> ELSE LET x == CHOOSE x \in S : TRUE IN <<x>> \o Listed(S \ {x})

\* An uncontested reduce state neither looks ahead nor skips.
Uncontested(g, q) == Cardinality(q) = 1 /\ \A i \in q : Complete(g, i)

ActionsOf(g, q, t) ==
  LET shifts == {[act |-> "shift", state |-> Advance(g, q, t)] :
                   i \in {i \in q : ~ Complete(g, i) /\ Expected(g, i) = t}}
      accepts == {[act |-> "accept"] : i \in {i \in q : /\ Complete(g, i) /\ i[1] = Len(MCRule[g])
                                                       /\ (Uncontested(g, q) \/ t = END)}}
      reduces == {[act |-> "reduce", rule |-> i[1]] :
                    i \in {i \in q : /\ Complete(g, i) /\ i[1] # Len(MCRule[g])
                                     /\ (Uncontested(g, q) \/ t \in Follow(g, RuleOf(g, i).lhs))}}
      skips == {[act |-> "skip"] : i \in {t} \cap MCIgnored[g]}
  IN IF shifts \cup accepts \cup reduces # {}
     THEN Listed(shifts) \o Listed(accepts) \o Listed(reduces)
     ELSE Listed(skips)

States == [g \in DOMAIN MCRule |-> Reach(g, {StartState(g)})]

MCStart ==
  [g \in DOMAIN MCRule |-> [state |-> StartState(g), goal |-> MCRule[g][Len(MCRule[g])].rhs[1]]]

\* Ids are given in the order of the grammar, its entry first.
MCZero == [g \in DOMAIN MCRule |-> MCStart[g].goal]

MCTable ==
  [g \in DOMAIN MCRule |-> [q \in States[g] |-> [t \in Tokens(g) |-> ActionsOf(g, q, t)]]]

MCItems == [g \in DOMAIN MCRule |-> [q \in States[g] |-> q]]

MCTarget ==
  [g \in DOMAIN MCRule |-> [q \in States[g] |-> [x \in NonTerms(MCRule[g]) |-> Advance(g, q, x)]]]

------------------------------------------------------------------------------
In(g, inputs) == [grammar : {g}, input : inputs]

\* Every input of up to k tokens.
Upto(g, k) == In(g, UNION {[1 .. n -> Tokens(g) \ {END}] : n \in 0 .. k})

Parses ==
  Upto("list", 3) \cup Upto("sum", 3) \cup Upto("else", 4)
    \cup In("sum", {<<"n", "+", "n", "+", "n">>, <<"n", "+", "n", "+", "n", "+", "n">>,
                    <<"n", "+", "n", "+", "n", "+", "n", "+">>})
    \cup In("repo", {<<"id", "sp", "()", "sp", "!", "sp", "test">>, <<"id", "()", "!", "test">>,
                     <<"id", "sp", "()", "test">>, <<"id", "()", "!", "sp", "test", "test">>,
                     <<"sp", "sp", "id", "()", "sp", "!", "test">>})

Layouts == In("layout", {<<"a", "sp", "b", "sp", "c">>})
==============================================================================
