------------------------------ MODULE Derivations ------------------------------
(***************************************************************************)
(* What the actions of a parse should be: a derivation of its text, from   *)
(* the rules of the grammar, built from the left and from below.  Tokens   *)
(* are positive numbers and a nonterminal n is -n.                         *)
(***************************************************************************)
EXTENDS Integers, Sequences, SequencesExt

CONSTANT Rules   \* rule -> [nt, body]

NoRule == 0   \* what a reduction of symbols gives that are not the body of its rule

\* The symbols of the derivation after one more action.
Reduced(stack, act) ==
  CASE act.a = "shift" -> Append(stack, act.tok)
    [] act.a = "reduce" ->
         LET n == Len(stack) - act.n
             body == SubSeq(stack, n + 1, Len(stack))
         IN  IF act.n <= Len(stack) /\ Rules[act.rule] = [nt |-> act.nt, body |-> body]
             THEN Append(SubSeq(stack, 1, n), 0 - act.nt)
             ELSE Append(stack, NoRule)
    [] OTHER -> stack

RECURSIVE Derives(_, _, _)
Derives(stack, acts, starts) ==
  IF acts = <<>> THEN TRUE
  ELSE CASE Head(acts).a = "fork" -> \A p \in ToSet(Head(acts).paths) : Derives(stack, p, starts)
         [] Head(acts).a = "accept" -> \E nt \in starts : stack = <<0 - nt>>
         [] OTHER -> LET next == Reduced(stack, Head(acts))
                     IN  NoRule \notin ToSet(next) /\ Derives(next, Tail(acts), starts)

\* The whole text is read.
AcceptedAt(acts, pos) == acts # <<>> /\ Last(acts) = [a |-> "accept", at |-> pos]
=============================================================================
