--------------------------- MODULE MCCompileStates ---------------------------
(***************************************************************************)
(* Bounds for TLC: two workers and a grammar of two roots.  B fails its    *)
(* peek and makes the entry point A fall back to LR.  Whether the peek of  *)
(* A succeeds depends on the order of its two branches: a2 leads nowhere   *)
(* new once a1 has been processed, so both outcomes of a run occur.        *)
(***************************************************************************)
EXTENDS CompileStates

MCWorker == 0 .. 1

MCNode == {"A", "a1", "a2", "x", "y", "B", "b", "A_lr", "B_lr"}

MCSuccessors ==
  [n \in MCNode |-> CASE n = "A"  -> {"a1", "a2"}
                      [] n = "a1" -> {"x", "y"}
                      [] n = "a2" -> {"x"}
                      [] n = "B"  -> {"b"}
                      [] OTHER    -> {}]

MCRoot ==
  [n \in MCNode |-> CASE n \in {"a1", "a2", "x", "y"} -> "A" [] n = "b" -> "B" [] OTHER -> n]

MCNonTerm == {"NA", "NB"}

MCPredecessors == [x \in MCNonTerm |-> IF x = "NB" THEN {"NA"} ELSE {}]

MCNonTermOf == [n \in {"A", "B", "A_lr", "B_lr"} |-> IF n \in {"B", "B_lr"} THEN "NB" ELSE "NA"]

MCNormalRoot == [x \in MCNonTerm |-> IF x = "NA" THEN "A" ELSE "B"]

MCFallbackRoot == [x \in MCNonTerm |-> IF x = "NA" THEN "A_lr" ELSE "B_lr"]

MCScanners == [n \in MCNode |-> {}]

MCStartQueue == <<"A", "B">>
==============================================================================
