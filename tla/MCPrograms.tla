------------------------------ MODULE MCPrograms ------------------------------
(***************************************************************************)
(* Parse graphs of small grammars, in the form graph_build gives them, and *)
(* the programs build_ir makes of them.  Tokens: 1 is 'a', 2 is 'b', 3 is  *)
(* "ab", 4 is a space that is skipped and 5 is an identifier of one or     *)
(* more letters.                                                           *)
(***************************************************************************)
EXTENDS Integers, Sequences, FiniteSets, TLC

a == 97   b == 98   sp == 32
MCClassOf == (a :> 3) @@ (b :> 3) @@ (sp :> 6)
Letter == 3

MCTokSym == <<[kind |-> "byte", val |-> a, prec |-> 2], [kind |-> "byte", val |-> b, prec |-> 2],
              [kind |-> "string", val |-> 0, prec |-> 2], [kind |-> "class", val |-> 6, prec |-> 0],
              [kind |-> "string", val |-> 0, prec |-> 1]>>

\* Rules as [nt, rule, n]; nonterminals are numbers.
Rule(nt, rule, n) == [op |-> "reduce", nt |-> nt, rule |-> rule, n |-> n]

Sym(kind, val) == [kind |-> kind, val |-> val]
Dflt     == Sym("default", 0)
Tok(t)   == Sym("token", t)
Byte(c)  == Sym("byte", c)
Class(c) == Sym("class", c)
NonT(k)  == Sym("nonterm", k)

Node(ty, sym, succ) ==
  [ty |-> ty, sym |-> sym, succ |-> succ, tok |-> 0, red |-> Rule(0, 0, 0), pops |-> 0,
   call |-> "none", root |-> "none", scanner |-> "none", skip |-> <<>>, toks |-> {},
   gotos |-> FALSE, scan |-> FALSE]
Reads(n, scanner, toks) ==
  [n EXCEPT !.scanner = scanner, !.toks = toks,
            !.skip = IF 4 \in toks THEN <<4>> ELSE <<>>]
Root(n, name)  == [n EXCEPT !.root = name]
Call(n, callee) == [n EXCEPT !.call = callee]
Reduces(nt, rule, n, pops) == [Node("Reduce", Dflt, <<>>) EXCEPT !.red = Rule(nt, rule, n), !.pops = pops]
Chars(ty, sym, succ) == [Node(ty, sym, succ) EXCEPT !.scan = TRUE]
Assigns(ty, tok, succ) == [Chars(ty, Dflt, succ) EXCEPT !.tok = tok]

---------------------------------------------------------------------------
(* Scanners: 'a' or a space; 'b' or a space; 'a', 'b' or a space; "ab" or  *)
(* a space; "ab" or an identifier.                                         *)
Letters(name, toks, succ) == Root(Chars("Start", Dflt, succ), name)
ScannerNodes ==
  [ sc1  |-> Letters("scan_a_",  {1, 4}, <<"sa", "ss">>),
    sc2  |-> Letters("scan_b_",  {2, 4}, <<"sb", "ss">>),
    sc3  |-> Letters("scan_ab_", {1, 2, 4}, <<"sd", "sb", "ss">>),
    sd   |-> Chars("Shift", Byte(a), <<"td">>),
    td   |-> Assigns("AssignToken", 1, <<>>),
    sa   |-> Chars("Shift", Byte(a), <<"ta">>),
    sb   |-> Chars("Shift", Byte(b), <<"tb">>),
    ss   |-> Chars("Shift", Class(6), <<"ts">>),
    ta   |-> Assigns("AssignToken", 1, <<>>),
    tb   |-> Assigns("AssignToken", 2, <<>>),
    ts   |-> Assigns("AssignToken", 4, <<>>),
    scl  |-> Letters("scan_l", {3, 4}, <<"la", "ss">>),
    la   |-> Chars("Shift", Byte(a), <<"lb">>),
    lb   |-> Chars("Shift", Byte(b), <<"tl">>),
    tl   |-> Assigns("AssignToken", 3, <<>>),
    sck  |-> Letters("scan_k", {3, 5}, <<"ka", "ki">>),
    ka   |-> Chars("Shift", Byte(a), <<"kaf">>),
    kaf  |-> Assigns("AssignAndFollow", 5, <<"kb", "ki">>),
    kb   |-> Chars("Shift", Byte(b), <<"kbf">>),
    kbf  |-> Assigns("AssignAndFollow", 3, <<"ki">>),
    ki   |-> Chars("Shift", Class(Letter), <<"kif">>),
    kif  |-> Assigns("AssignAndFollow", 5, <<"ki">>) ]

(* <> A > B 'b'   <> B > 'a' | 'a' 'a', by recursive descent.              *)
CallNodes ==
  [ a0 |-> Root(Reads(Node("Start", Dflt, <<"a1">>), "scan_a_", {1, 4}), "A"),
    a1 |-> Call(Reads(Node("InternalCall", Tok(1), <<"a2">>), "scan_b_", {2, 4}), "b0"),
    a2 |-> Node("Shift", Tok(2), <<"ar">>),
    ar |-> Reduces(1, 1, 2, 0),
    b0 |-> Root(Reads(Node("Start", Dflt, <<"b1">>), "scan_a_", {1, 4}), "B"),
    b1 |-> Reads(Node("Shift", Tok(1), <<"b2", "br">>), "scan_ab_", {1, 2, 4}),
    b2 |-> Node("Shift", Tok(1), <<"bs">>),
    br |-> Reduces(2, 2, 1, 0),
    bs |-> Reduces(2, 3, 2, 0) ]

(* <> L > L 'a' | 'b', by recursive ascent.                                *)
AscentNodes ==
  [ l0 |-> [Root(Reads(Node("Start", Dflt, <<"l1", "lg">>), "scan_b_", {2, 4}), "L") EXCEPT !.gotos = TRUE],
    l1 |-> Node("Shift", Tok(2), <<"lr">>),
    lr |-> Reduces(3, 4, 1, 0),
    lg |-> Reads(Node("NonTerminalShiftLoop", NonT(3), <<"l3", "lo">>), "scan_a_", {1, 4}),
    l3 |-> Node("Shift", Tok(1), <<"ls">>),
    ls |-> Reduces(3, 5, 2, 0),
    lo |-> Node("NonTermCompleteOOS", Dflt, <<>>) ]

(* <> K > "ab" | id                                                        *)
KeywordNodes ==
  [ k0 |-> Root(Reads(Node("Start", Dflt, <<"k1", "k2">>), "scan_k", {3, 5}), "K"),
    k1 |-> Node("Shift", Tok(3), <<"kr">>),
    k2 |-> Node("Shift", Tok(5), <<"ks">>),
    kr |-> Reduces(4, 6, 1, 0),
    ks |-> Reduces(4, 7, 1, 0) ]

(* <> M > "ab" 'b'                                                         *)
LiteralNodes ==
  [ m0 |-> Root(Reads(Node("Start", Dflt, <<"m1">>), "scan_l", {3, 4}), "M"),
    m1 |-> Reads(Node("Shift", Tok(3), <<"m2">>), "scan_b_", {2, 4}),
    m2 |-> Node("Shift", Tok(2), <<"mr">>),
    mr |-> Reduces(11, 15, 2, 0) ]

(* <> C > 'a' S   <> S > P 'b' | Q 'a'   <> P > 'a'   <> Q > 'a', where S *)
(* looks at two tokens before it calls P or Q.                             *)
PeekNodes ==
  [ c0 |-> Root(Reads(Node("Start", Dflt, <<"c1">>), "scan_a_", {1, 4}), "C"),
    c1 |-> Reads(Node("Shift", Tok(1), <<"c2">>), "scan_a_", {1, 4}),
    c2 |-> Call(Node("InternalCall", Tok(1), <<"cr">>), "s0"),
    cr |-> Reduces(5, 8, 2, 0),
    s0 |-> Root(Reads(Node("Start", Dflt, <<"s1">>), "scan_a_", {1, 4}), "S"),
    s1 |-> Reads(Node("Peek", Tok(1), <<"s2", "s3">>), "scan_ab_", {1, 2, 4}),
    s2 |-> Reads(Node("PeekEndComplete", Tok(2), <<"s4">>), "scan_a_", {1, 4}),
    s3 |-> Reads(Node("PeekEndComplete", Tok(1), <<"s5">>), "scan_a_", {1, 4}),
    s4 |-> Call(Reads(Node("InternalCall", Tok(1), <<"s6">>), "scan_b_", {2, 4}), "p0"),
    s5 |-> Call(Reads(Node("InternalCall", Tok(1), <<"s7">>), "scan_a_", {1, 4}), "q0"),
    s6 |-> Node("Shift", Tok(2), <<"s8">>),
    s7 |-> Node("Shift", Tok(1), <<"s9">>),
    s8 |-> Reduces(6, 9, 2, 0),
    s9 |-> Reduces(6, 10, 2, 0),
    p0 |-> Root(Reads(Node("Start", Dflt, <<"p1">>), "scan_a_", {1, 4}), "P"),
    p1 |-> Node("Shift", Tok(1), <<"pr">>),
    pr |-> Reduces(7, 11, 1, 0),
    q0 |-> Root(Reads(Node("Start", Dflt, <<"q1">>), "scan_a_", {1, 4}), "Q"),
    q1 |-> Node("Shift", Tok(1), <<"qr">>),
    qr |-> Reduces(8, 12, 1, 0) ]

(* Rules that nothing tells apart, and so a fork: after the shift of the   *)
(* 'a', and after the call of B.                                           *)
(* <> F > G | H | J   <> G > 'a'   <> H > 'a'   <> J > 'a'                 *)
ForkNodes ==
  [ f0 |-> Root(Reads(Node("Start", Dflt, <<"f1">>), "scan_a_", {1, 4}), "F"),
    f1 |-> Node("Shift", Tok(1), <<"fi">>),
    fi |-> Node("ForkInitiator", Dflt, <<"f2", "f3", "f4">>),
    f2 |-> Node("ForkedState", Dflt, <<"fr">>),
    f3 |-> Node("ForkedState", Dflt, <<"fs">>),
    f4 |-> Node("ForkedState", Dflt, <<"ft">>),
    fr |-> Reduces(9, 13, 1, 0),
    fs |-> Reduces(10, 14, 1, 0),
    ft |-> Reduces(14, 18, 1, 0) ]

(* <> X > Y | Z   <> Y > B   <> Z > B                                      *)
LateForkNodes ==
  [ x0 |-> Root(Reads(Node("Start", Dflt, <<"x1">>), "scan_a_", {1, 4}), "X"),
    x1 |-> Call(Node("InternalCall", Tok(1), <<"xi">>), "b0"),
    xi |-> Node("ForkInitiator", Dflt, <<"x2", "x3">>),
    x2 |-> Node("ForkedState", Dflt, <<"xr">>),
    x3 |-> Node("ForkedState", Dflt, <<"xs">>),
    xr |-> Reduces(12, 16, 1, 0),
    xs |-> Reduces(13, 17, 1, 0) ]

\* The ascent parser of B, given up for the one above.
GivenUpNodes ==
  [ g0 |-> Root(Reads(Node("Start", Dflt, <<"g1">>), "scan_b_", {2, 4}), "B"),
    g1 |-> Node("Shift", Tok(2), <<"ar">>) ]

MCGraph == ScannerNodes @@ CallNodes @@ AscentNodes @@ KeywordNodes @@ LiteralNodes @@ PeekNodes
           @@ ForkNodes @@ LateForkNodes @@ GivenUpNodes

---------------------------------------------------------------------------
(* The rules by number; a nonterminal n of a body is -n.                   *)
R(nt, body) == [nt |-> nt, body |-> body]
MCRules == <<R(1, <<-2, 2>>), R(2, <<1>>), R(2, <<1, 1>>), R(3, <<2>>), R(3, <<-3, 1>>),
             R(4, <<3>>), R(4, <<5>>), R(5, <<1, -6>>), R(6, <<-7, 2>>), R(6, <<-8, 1>>),
             R(7, <<1>>), R(8, <<1>>), R(9, <<1>>), R(10, <<1>>), R(11, <<3, 2>>),
             R(12, <<-2>>), R(13, <<-2>>), R(14, <<1>>)>>
=============================================================================
