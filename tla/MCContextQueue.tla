---------------------------- MODULE MCContextQueue ----------------------------
(***************************************************************************)
(* Bounds for TLC: four contexts and three priorities grow the array from  *)
(* one sled to four, mix both kinds of push in one generation, and let     *)
(* items be pushed again after they are popped.                            *)
(***************************************************************************)
EXTENDS ContextQueue, TLC

MCPriorities == 1 .. 3

Symmetry == Permutations(Items)
==============================================================================
