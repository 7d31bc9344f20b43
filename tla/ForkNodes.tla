------------------------------- MODULE ForkNodes -------------------------------
(***************************************************************************)
(* The nodes that the contexts of the fork parser hold, and what a         *)
(* reduction makes of them.                                                *)
(***************************************************************************)
EXTENDS ForkParser

Rules == Rule[task.grammar]

\* Every context that is still pursued, with all it has read.
Whole(e) == [ptr |-> e.ctx.ptr,
             symbols |-> IF e.follow = NULL THEN e.ctx.symbols ELSE Append(e.ctx.symbols, e.follow)]

Seen(c) == [ptr |-> c.ptr, symbols |-> c.symbols]

Pursued ==
  {Seen(c) : c \in Queued \cup ToSet(completed)}
    \cup {Whole(e) : e \in ToSet(reduction_stage) \cup UNION {ToSet(g) : g \in groups}}
    \cup (IF phase \in {"step", "reduce", "fork"} THEN {Seen(rec_ctx)} ELSE {})

\* The nodes at a depth below the symbols of the contexts.
Level[k \in Nat] ==
  IF k = 0 THEN UNION {ToSet(c.symbols) : c \in Pursued}
  ELSE UNION {ToSet(n.parts) : n \in Level[k - 1]}

\* A node has a longer key than any of its parts.
Depth == Max({Len(n.key) : n \in Level[0]} \cup {0})

AllNodes == UNION {Level[k] : k \in 0 .. Depth}

\* The symbols of a node that count, skipped tokens left out.
CountedParts(n) == Picked(n.parts, {i \in DOMAIN n.parts : Counted(n.parts[i])})

(* reduce_symbols takes exactly the symbols of its rule, however many       *)
(* skipped tokens lie between them.                                         *)
NodesFollowRules ==
  \A n \in AllNodes :
    n.type = "nonterm" =>
      [i \in DOMAIN CountedParts(n) |-> CountedParts(n)[i].id] = Rules[n.rule].rhs

Shifts(g, t) ==
  \E s \in StatesOf(g) : t \in DOMAIN Table[g][s] /\ \E a \in ActionsOn(g, s, t) : a.act = "shift"

Skips(g, t) ==
  \E s \in StatesOf(g) : t \in DOMAIN Table[g][s] /\ \E a \in ActionsOn(g, s, t) : a.act = "skip"

\* No token is skipped in one state and shifted in another.
LayoutApart ==
  \A s \in StatesOf(task.grammar) : \A t \in DOMAIN Table[task.grammar][s] :
    ~ (Shifts(task.grammar, t) /\ Skips(task.grammar, t))
==============================================================================
