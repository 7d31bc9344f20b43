------------------------------ MODULE MCGrammars ------------------------------
(***************************************************************************)
(* Grammars for the flow rules, in one set of rules.                       *)
(*   P > A b c | B b d | G   A > a   B > a   G > a b e                     *)
(*       two tokens decide between two reductions and a shift;             *)
(*   E > E a T | T   T > b | c E d                                         *)
(*       left recursion, and nonterminals that are called;                 *)
(*   F > X c | Y d   X > X e | e   Y > e Y | e                             *)
(*       no number of tokens decides, so the parser forks;                 *)
(*   K > c A d | c B e | d A c | d B d                                     *)
(*       the same items with other tokens to follow;                       *)
(*   H > L   L > L M | L c N | M | c N   M > I a e                         *)
(*   N > O   O > O Q | Q   Q > I b | I   I > e                             *)
(*       other_symbols_requiring_peek_hybrid of test_parsing.rs, with its  *)
(*       lists and its optional symbol written out.                        *)
(* A parser skips spaces.                                                  *)
(***************************************************************************)
EXTENDS Integers, Sequences

P == 1 A == 2 B == 3 G == 4 E == 5 T == 6 F == 7 X == 8 Y == 9 K == 10
H == 11 L == 12 M == 13 N == 14 O == 15 Q == 16 I == 17
a == 1 b == 2 c == 3 d == 4 e == 5 space == 6
MCTokens == a .. space
CodeOf(t) == IF t = space THEN 32 ELSE 96 + t

\* A rule of a body of tokens and, negative, of nonterminals, as Derivations has them.
Rule(nt, body) == [nt |-> nt, body |-> body]
Grammar ==
  << Rule(P, <<-A, b, c>>), Rule(P, <<-B, b, d>>), Rule(P, <<-G>>),
     Rule(A, <<a>>), Rule(B, <<a>>), Rule(G, <<a, b, e>>),
     Rule(E, <<-E, a, -T>>), Rule(E, <<-T>>), Rule(T, <<b>>), Rule(T, <<c, -E, d>>),
     Rule(F, <<-X, c>>), Rule(F, <<-Y, d>>),
     Rule(X, <<-X, e>>), Rule(X, <<e>>), Rule(Y, <<e, -Y>>), Rule(Y, <<e>>),
     Rule(K, <<c, -A, d>>), Rule(K, <<c, -B, e>>), Rule(K, <<d, -A, c>>), Rule(K, <<d, -B, d>>),
     Rule(H, <<-L>>), Rule(L, <<-L, -M>>), Rule(L, <<-L, c, -N>>), Rule(L, <<-M>>), Rule(L, <<c, -N>>),
     Rule(M, <<-I, a, e>>), Rule(N, <<-O>>), Rule(O, <<-O, -Q>>), Rule(O, <<-Q>>),
     Rule(Q, <<-I, b>>), Rule(Q, <<-I>>), Rule(I, <<e>>) >>

MCTokenNT == [t \in MCTokens |-> 100 + t]

ParserRule(r) ==
  [nt |-> r.nt, skip |-> {space},
   body |-> [i \in DOMAIN r.body |->
               IF r.body[i] > 0 THEN [kind |-> "token", val |-> r.body[i], sp |-> 0, tp |-> 1]
               ELSE [kind |-> "nonterm", val |-> 0 - r.body[i], sp |-> 0, tp |-> 0]]]
ScannerRule(t) ==
  [nt |-> MCTokenNT[t], skip |-> {}, body |-> << [kind |-> "byte", val |-> CodeOf(t), sp |-> 0, tp |-> 0] >>]

\* (TLC works AllRules out once.)
AllRules == [i \in DOMAIN Grammar |-> ParserRule(Grammar[i])] \o [t \in MCTokens |-> ScannerRule(t)]
MCRules == AllRules
=============================================================================
