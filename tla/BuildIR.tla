------------------------------- MODULE BuildIR --------------------------------
(***************************************************************************)
(* The translation of the nodes of the parse graphs into parse states      *)
(* (build_ir.rs).  Each node gives up to three states: its own, the state  *)
(* its own jumps to after a reduction or an assignment ("_then"), and the  *)
(* state that reads the nonterminal a shift left behind (its goto).        *)
(***************************************************************************)
EXTENDS IR, FiniteSetsExt, TLC

CONSTANTS
  Graph,      \* node -> [ty, sym, tok, red, pops, call, succ, root, scanner,
              \*          skip, toks, gotos, scan]
  TokSym      \* token -> [kind, val, prec]

(* The fields of a node: its type, the symbol [kind, val] of the edge to   *)
(* it, the token it assigns, the rule it reduces [nt, rule, n] and how     *)
(* many completions that pops, the node of the nonterminal it calls, its   *)
(* successors, the name it has as a root, the scanner of its matches with  *)
(* the tokens that skips and those it knows, whether nonterminals are read *)
(* after it, and whether it belongs to a scanner.                          *)
Succs(n) == ToSet(Graph[n].succ)
Ty(n)    == Graph[n].ty

\* create_ir_state_name; a root is known by the name of its nonterminal or of
\* its scanner.
HashName(n) == (IF Graph[n].scan THEN "s_" ELSE "p_") \o n
OwnName(n)  == IF Graph[n].root # None THEN Graph[n].root ELSE HashName(n)
GotoName(n) == "g_" \o n
ThenName(n) == OwnName(n) \o "_then"

---------------------------------------------------------------------------
(* build_body: what a state does when it takes the edge to a successor.    *)

\* The goto pushed before the jump, by successor: the shifted remainder of an
\* LL item, or else the goto of the node itself.
GotoOf(n, s) ==
  LET ll == {g \in Succs(n) : Ty(g) = "LLShiftFrom" /\ Graph[g].tok = s}
  IN  IF \E g \in Succs(n) : Ty(g) = "LLShiftFrom"
      THEN [i \in 1..Cardinality(ll) |-> OwnName(CHOOSE g \in ll : TRUE)]
      ELSE IF Graph[n].gotos THEN <<GotoName(n)>> ELSE <<>>

\* Mutant: a finished peek goes on from where it looked to.
MovesFromPeek(n, s) ==
  CASE Ty(s) \in {"Shift", "KernelShift"} -> IF Graph[n].scan THEN "shift char" ELSE "shift tok"
    [] Ty(s) = "Peek" -> "peek tok"
    [] OTHER -> None

Moves(n, s) ==
  CASE Ty(s) \in {"Shift", "KernelShift"} -> IF Graph[n].scan THEN "shift char" ELSE "shift tok"
    [] Ty(s) = "PeekEndComplete" -> "reset tok"
    [] Ty(s) = "Peek" -> "peek tok"
    [] OTHER -> None

\* The names a state uses of itself stand for the state they are written in.
Body(n, me, s) ==
  LET name   == IF s = n THEN me ELSE OwnName(s)
      pushes == IF Ty(s) \in {"KernelCall", "KernelShift"} THEN <<>> ELSE GotoOf(n, s)
  IN  CASE Ty(s) = "NonTermCompleteOOS" -> Stmt(None, <<>>, 1, NoBr)
        [] Ty(s) \in {"ScannerCompleteOOS", "AssignToken", "CompleteToken"} -> Just(Pass)
        [] Ty(s) = "Reduce" -> Stmt(None, <<Graph[s].red>>, Graph[s].pops, NoBr)
        [] Ty(s) \in {"KernelCall", "InternalCall"} ->
             Stmt(None, <<>>, 0, Gotos(Append(pushes, name), OwnName(Graph[s].call)))
        [] OTHER -> Stmt(Moves(n, s), <<>>, 0, Gotos(pushes, name))

---------------------------------------------------------------------------
(* add_match_expr: a match for each class of symbols, each in the default  *)
(* of the one before.                                                      *)

Classes == <<[kind |-> "eof", mode |-> "_EOF_"], [kind |-> "byte", mode |-> "_BYTE_"],
             [kind |-> "codepoint", mode |-> "_CODEPOINT_"],
             [kind |-> "class", mode |-> "_CLASS_"], [kind |-> "token", mode |-> "_TOKEN_"],
             [kind |-> "default", mode |-> ""]>>

AnyChar == 2147483647   \* the value of the symbol that stands for any character (u32::MAX)

OfClass(n, kind) ==
  SelectSeq(Graph[n].succ, LAMBDA s :
    Graph[s].sym.kind = kind
    /\ Ty(s) \notin {"LLShiftFrom", "NonTerminalComplete", "NonTerminalShiftLoop"})

\* One case for each value; of two successors with one value the later is taken.
CasesOf(n, me, succs) ==
  LET val(i) == Graph[succs[i]].sym.val
      last   == {i \in DOMAIN succs : \A j \in DOMAIN succs : j > i => val(j) # val(i)}
      case(i) == IF val(i) = AnyChar THEN Default(Body(n, me, succs[i]))
                 ELSE Case(<<val(i)>>, Body(n, me, succs[i]))
  IN  [k \in 1..Cardinality(last) |->
         case(CHOOSE i \in last : Cardinality({j \in last : val(j) <= val(i)}) = k)]

SkipCase(n, succs) ==
  IF Graph[n].skip = <<>> THEN <<>>
  ELSE <<Case(Graph[n].skip,
              Stmt(IF \E s \in ToSet(succs) : Ty(s) \in {"PeekEndComplete", "Peek"}
                   THEN "peek-skip tok" ELSE "shift-skip tok", <<>>, 0, NoBr))>>

MatchExpr(n, me, classes) ==
  LET from[i \in DOMAIN classes] ==
        LET c     == classes[i]
            succs == OfClass(n, c.kind)
        IN  IF c.kind = "default" THEN Body(n, me, succs[1])
            ELSE Just(Match(c.mode, IF c.kind = "token" THEN Graph[n].scanner ELSE None,
                   CasesOf(n, me, succs)
                   \o (IF c.kind = "token" THEN SkipCase(n, succs) ELSE <<>>)
                   \o (IF i = Len(classes) THEN <<>> ELSE <<Default(from[i + 1])>>)))
  IN  IF classes = <<>> THEN Just(NoBr) ELSE from[1]

\* add_tok_expr: the token of the most specific symbol completed here.
AssignedToken(n) ==
  LET toks == {Graph[s].tok : s \in {s \in Succs(n) : Ty(s) \in {"AssignToken", "AssignAndFollow"}}}
  IN  {t \in toks : \A u \in toks : TokSym[u].prec <= TokSym[t].prec}

\* The state that follows the edges of n, written under the name me.
BaseState(n, me) ==
  LET body == MatchExpr(n, me, SelectSeq(Classes, LAMBDA c : OfClass(n, c.kind) # <<>>))
  IN  [body EXCEPT !.nb = [i \in 1..Cardinality(AssignedToken(n)) |->
                             SetTok(CHOOSE t \in AssignedToken(n) : TRUE)] \o @]

HasBase(n) == \E s \in Succs(n) : Ty(s) \notin {"NonTerminalComplete", "NonTerminalShiftLoop"}

---------------------------------------------------------------------------
(* convert_state_to_ir and process_precursor.                              *)

State(s, root, toks) == [st |-> s, root |-> root, toks |-> toks]

Fused == {"CompleteToken", "AssignAndFollow", "AssignToken", "Reduce"}

\* What a node does before it follows its edges.
Prologue(n) ==
  CASE Ty(n) \in {"AssignAndFollow", "AssignToken"} -> Stmt(None, <<SetTok(Graph[n].tok)>>, 0, NoBr)
    [] Ty(n) = "CompleteToken" -> Just(Pass)
    [] Ty(n) = "Reduce" -> Stmt(None, <<Graph[n].red>>, Graph[n].pops, NoBr)

OwnStates(n) ==
  LET base(me) == State(BaseState(n, me), FALSE, Graph[n].toks)
  IN  IF Ty(n) = "ForkInitiator"
      THEN HashName(n) :> State(Just(Fork([i \in DOMAIN Graph[n].succ |-> OwnName(Graph[n].succ[i])])),
                               FALSE, {})
      ELSE IF Ty(n) \in Fused
      THEN (IF HasBase(n) THEN ThenName(n) :> base(ThenName(n)) ELSE <<>>)
           @@ (OwnName(n) :> State([Prologue(n) EXCEPT !.br = IF HasBase(n) THEN Goto(ThenName(n)) ELSE @],
                                   Graph[n].root # None, {}))
      ELSE IF HasBase(n) THEN OwnName(n) :> base(OwnName(n)) ELSE <<>>

\* A graph node that is no leaf and gives no state stops the compilation.
EmptyState(n) ==
  /\ OwnStates(n) = <<>>
  /\ Ty(n) \notin {"NonTerminalComplete", "NonTermCompleteOOS", "ScannerCompleteOOS"}

\* convert_nonterm_shift_state_to_ir.
GotoState(n) ==
  LET edges == SelectSeq(Graph[n].succ, LAMBDA s : Ty(s) \in {"NonTerminalComplete", "NonTerminalShiftLoop"})
      case(s) == Case(<<Graph[s].sym.val>>,
                      IF Ty(s) = "NonTerminalComplete" THEN Just(Pass)
                      ELSE Just(Gotos(<<GotoName(n)>>, OwnName(s))))
  IN  State(Just(Match("_NONTERMINAL_", None, [i \in DOMAIN edges |-> case(edges[i])])), FALSE, {})

StatesOf(n) == (IF Graph[n].gotos THEN GotoName(n) :> GotoState(n) ELSE <<>>) @@ OwnStates(n)

\* build_entry_ir.
EntryStates(entry, exit, nonterm) ==
  (entry :> State(Just(Gotos(<<exit>>, nonterm)), FALSE, {}))
  @@ (exit :> State(Just(Accept), FALSE, {}))
=============================================================================
