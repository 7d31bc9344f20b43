---------------------------- MODULE MCBuildStates ----------------------------
(***************************************************************************)
(* A grammar for TLC: E calls A and A calls B.  Both peeks of B end in the *)
(* same state, so the second to be processed leads nowhere new and B is    *)
(* poisoned; A falls back to LR, and there its own peek fails as well, so  *)
(* E falls back in turn.  A scanner is shared by graphs of three roots.    *)
(***************************************************************************)
EXTENDS BuildStates, TLC

MCNode == {"E", "e", "A", "a", "B", "b1", "b2", "bend", "scan", "A_lr", "peek_lr", "B_lr",
           "E_lr"}

Edges ==
  [E |-> {"e"}, A |-> {"a"}, B |-> {"b1", "b2"}, b1 |-> {"bend"}, b2 |-> {"bend"},
   A_lr |-> {"peek_lr"}, E_lr |-> {"e"}]

MCSuccessors == [n \in MCNode |-> IF n \in DOMAIN Edges THEN Edges[n] ELSE {}]

MCRoot ==
  [n \in MCNode |-> CASE n \in {"E", "e"} -> "E"
                      [] n \in {"A", "a"} -> "A"
                      [] n \in {"B", "b1", "b2", "bend"} -> "B"
                      [] n = "scan" -> "scan"
                      [] n \in {"A_lr", "peek_lr"} -> "A_lr"
                      [] n \in {"B_lr", "E_lr"} -> n]

MCLeaf == {"e"}

MCPeek == {"b1", "b2", "peek_lr"}

MCNonTerm == {"NE", "NA", "NB"}

MCPredecessors == [x \in MCNonTerm |-> CASE x = "NE" -> {}
                                         [] x = "NA" -> {"NE"}
                                         [] x = "NB" -> {"NA"}]

MCNonTermOf ==
  [n \in {"E", "A", "B", "A_lr", "B_lr", "E_lr"} |->
     CASE n \in {"E", "E_lr"} -> "NE" [] n \in {"A", "A_lr"} -> "NA" [] n \in {"B", "B_lr"} -> "NB"]

MCNormalRoot == [x \in MCNonTerm |-> CASE x = "NE" -> "E" [] x = "NA" -> "A" [] x = "NB" -> "B"]

MCFallbackRoot ==
  [x \in MCNonTerm |-> CASE x = "NE" -> "E_lr" [] x = "NA" -> "A_lr" [] x = "NB" -> "B_lr"]

MCScanners ==
  [n \in MCNode |-> IF n \in {"a", "bend", "E_lr"} THEN {"scan"} ELSE {}]

MCStartQueue == <<"E", "A", "B">>

Symmetry == Permutations(Worker)
==============================================================================
