------------------------------ MODULE ForkForest ------------------------------
(***************************************************************************)
(* What the contexts of the fork parser stand for: the trees of a shared   *)
(* packed parse forest, compared with the derivations of the grammar.      *)
(***************************************************************************)
EXTENDS ForkNodes

\* A tree is [id, of]; skipped tokens are not part of it.
Leaf(t) == [id |-> t, of |-> <<>>]

\* The symbols of a node that count, and the trees they can be read as.
RECURSIVE Trees(_), Forests(_)
Trees(n) ==
  CASE n.type = "alts" -> UNION {Trees(n.parts[i]) : i \in DOMAIN n.parts}
    [] n.type = "nonterm" -> {[id |-> n.id, of |-> f] : f \in Forests(SelectSeq(n.parts, Counted))}
    [] OTHER -> {Leaf(n.id)}
Forests(nodes) ==
  IF nodes = <<>> THEN {<<>>}
  ELSE {<<t>> \o f : t \in Trees(Head(nodes)), f \in Forests(Tail(nodes))}

\* The tokens a node covers, skipped ones too, one sequence per reading.
RECURSIVE Yields(_), YieldsOf(_)
Yields(n) ==
  CASE n.type = "alts" -> UNION {Yields(n.parts[i]) : i \in DOMAIN n.parts}
    [] n.type = "nonterm" -> YieldsOf(n.parts)
    [] OTHER -> {<<n.id>>}
YieldsOf(nodes) ==
  IF nodes = <<>> THEN {<<>>}
  ELSE {y \o z : y \in Yields(Head(nodes)), z \in YieldsOf(Tail(nodes))}

\* Reference: the derivations of a symbol from a sequence of tokens.
NonTerms(rules) == {rules[r].lhs : r \in DOMAIN rules}

RECURSIVE Derivations(_, _, _), DerivationsOf(_, _, _)
Derivations(rules, x, tokens) ==
  IF x \notin NonTerms(rules) THEN IF tokens = <<x>> THEN {Leaf(x)} ELSE {}
  ELSE UNION {{[id |-> x, of |-> f] : f \in DerivationsOf(rules, rules[r].rhs, tokens)} :
                r \in {r \in DOMAIN rules : rules[r].lhs = x}}
DerivationsOf(rules, symbols, tokens) ==
  IF Len(symbols) > Len(tokens) THEN {}
  ELSE IF symbols = <<>> THEN IF tokens = <<>> THEN {<<>>} ELSE {}
  ELSE IF Len(symbols) = 1 THEN {<<t>> : t \in Derivations(rules, symbols[1], tokens)}
  ELSE UNION {{<<t>> \o f : t \in Derivations(rules, Head(symbols), SubSeq(tokens, 1, k)),
                            f \in DerivationsOf(rules, Tail(symbols),
                                                SubSeq(tokens, k + 1, Len(tokens)))} :
                k \in 1 .. Len(tokens) - 1}

CONSTANT Ignored   \* grammar -> the tokens its IGNORE clause names

------------------------------------------------------------------------------
(* Every reading of a context covers the input up to where the context      *)
(* stands, each token once and in order, also after nodes were shared and   *)
(* contexts merged.                                                         *)
ContextsTile ==
  \A c \in Pursued : YieldsOf(c.symbols) = {SubSeq(Input, 1, c.ptr)}

Significant(tokens) == SelectSeq(tokens, LAMBDA t : t \notin Ignored[task.grammar])

\* The parses of the contexts that accepted after k tokens.
Found(k) ==
  UNION {Forests(SelectSeq(c.symbols, Counted)) : c \in {c \in ToSet(completed) : c.ptr = k}}

Derived(k) ==
  {<<t>> : t \in Derivations(Rules, Start[task.grammar].goal, Significant(SubSeq(Input, 1, k)))}

(* When the parse ends the completed contexts hold every derivation of the  *)
(* input and nothing else: merging loses none and invents none.  The same   *)
(* is true of a shorter prefix on which a context accepted.                 *)
ForestExact ==
  phase = "done" =>
    \A k \in 0 .. Len(Input) : Found(k) = Derived(k) \/ (k < Len(Input) /\ Found(k) = {})
==============================================================================
