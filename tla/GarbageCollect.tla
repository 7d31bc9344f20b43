---------------------------- MODULE GarbageCollect ----------------------------
(***************************************************************************)
(* garbage_collect (optimize.rs): keeps the parse states an entry state    *)
(* leads to.  Each pass of the optimiser ends with it, and `sweep` is      *)
(* nothing else.  States are taken out of the map when they are first      *)
(* referred to, wait in a queue until their own references are followed,   *)
(* and are then handed out.  The queue is a set here: it is served at both *)
(* ends, and the order in which it is served decides only the order of the *)
(* result.                                                                 *)
(***************************************************************************)
EXTENDS Naturals, FiniteSets

CONSTANTS Names,     \* names of parse states
          Entries    \* the entry states of the exported nonterminals

VARIABLES refs,      \* the names each state of the map refers to
          rest,      \* the map: states nobody has referred to so far
          queue,     \* states whose references are still to be followed
          out        \* states handed out

gcVars == <<refs, rest, queue, out>>

\* A state may refer to a name without a state.
GraphType == \E S \in SUBSET Names : refs \in [S -> SUBSET Names]

Init == /\ GraphType
        /\ queue = Entries \cap DOMAIN refs
        /\ rest = DOMAIN refs \ Entries
        /\ out = {}

\* One turn of the loop: traverse_statement moves the states that the first of
\* the queue refers to, and are still in the map, to the queue.
Follow(n) ==
  /\ n \in queue
  /\ queue' = (queue \ {n}) \cup (refs[n] \cap rest)
  /\ rest' = rest \ refs[n]
  /\ out' = out \cup {n}
  /\ UNCHANGED refs

Next == \E n \in Names : Follow(n)
Spec == Init /\ [][Next]_gcVars /\ WF_gcVars(Next)

---------------------------------------------------------------------------
Closed(S) == \A n \in S : refs[n] \cap DOMAIN refs \subseteq S

\* The states the entries lead to: those of every closed set with the entries.
Reachable ==
  {n \in DOMAIN refs : \A S \in SUBSET DOMAIN refs :
                         (Entries \cap DOMAIN refs \subseteq S /\ Closed(S)) => n \in S}

\* Every state is in one place only: none is handed out twice, and none is lost
\* between the map, the queue and the result.
OnePlace == /\ rest \cap queue = {} /\ rest \cap out = {} /\ queue \cap out = {}
            /\ rest \cup queue \cup out = DOMAIN refs

\* The states handed out are those the entries lead to, no fewer when the queue
\* is empty and at no time more: no pass drops a state a parser can enter, and
\* none keeps a state that no parser enters.
CollectedIsReachable ==
  /\ out \cup queue \subseteq Reachable
  /\ queue = {} => out = Reachable
=============================================================================
