---------------------------- MODULE AbstractQueue ----------------------------
(***************************************************************************)
(* What ContextQueue promises its callers (the fork and error-recovery     *)
(* parsers): two sequences of entries.  Items enter the push sequence,     *)
(* either at its end or, by priority, before the first entry of strictly   *)
(* lower priority; they leave from the front of the pop sequence; and the  *)
(* two sequences are exchanged to begin the next generation.               *)
(*                                                                         *)
(* ContextQueue implements this module with linked lists that share one    *)
(* array and one free list.                                                *)
(***************************************************************************)
EXTENDS Integers, Sequences, SequencesExt

CONSTANTS
  Items,        \* the contexts a caller may queue; a queued item is owned by the queue
  Priorities,   \* the priorities contexts are queued with
  NULL          \* Option::None

VARIABLES
  popQ,         \* entries of the pop buffer, front first
  pushQ,        \* entries of the push buffer, front first
  result,       \* what the last pop_front returned
  alive         \* FALSE once the queue is dropped

absVars == <<popQ, pushQ, result, alive>>

Entry == [item : Items, priority : Priorities]

Owned == {popQ[i].item : i \in DOMAIN popQ} \cup {pushQ[i].item : i \in DOMAIN pushQ}

AbsInit ==
  /\ popQ = <<>>
  /\ pushQ = <<>>
  /\ result = NULL
  /\ alive = TRUE

\* The entry goes to the end, whatever its priority.
AbsPushBack(p, x) ==
  /\ alive
  /\ x \notin Owned
  /\ pushQ' = Append(pushQ, [item |-> x, priority |-> p])
  /\ UNCHANGED <<popQ, result, alive>>

\* The entry goes before position k, the first of strictly lower priority.
AbsPushWithPriority(p, x) ==
  /\ alive
  /\ x \notin Owned
  /\ \E k \in 1 .. Len(pushQ) + 1 :
       /\ \A j \in 1 .. k - 1 : pushQ[j].priority >= p
       /\ k <= Len(pushQ) => pushQ[k].priority < p
       /\ pushQ' = InsertAt(pushQ, k, [item |-> x, priority |-> p])
  /\ UNCHANGED <<popQ, result, alive>>

AbsPopFront ==
  /\ alive
  /\ \/ popQ = <<>> /\ result' = NULL /\ UNCHANGED popQ
     \/ popQ # <<>> /\ result' = Head(popQ).item /\ popQ' = Tail(popQ)
  /\ UNCHANGED <<pushQ, alive>>

AbsSwapBuffers ==
  /\ alive
  /\ popQ' = pushQ
  /\ pushQ' = popQ
  /\ UNCHANGED <<result, alive>>

\* Dropping the queue drops every entry it still owns.
AbsDrop ==
  /\ alive
  /\ alive' = FALSE
  /\ popQ' = <<>>
  /\ pushQ' = <<>>
  /\ UNCHANGED result

AbsNext ==
  \/ \E p \in Priorities, x \in Items : AbsPushBack(p, x) \/ AbsPushWithPriority(p, x)
  \/ AbsPopFront
  \/ AbsSwapBuffers
  \/ AbsDrop

AbsSpec == AbsInit /\ [][AbsNext]_absVars
==============================================================================
