------------------------- MODULE GarbageCollectProofs -------------------------
(***************************************************************************)
(* The collector keeps exactly the reachable states, for every graph of    *)
(* states and every order in which the queue is served.                    *)
(***************************************************************************)
EXTENDS GarbageCollect, TLAPS

\* What is inductive: the places partition the map, and the entries and
\* whatever a state handed out refers to have left the map.
Followed == /\ Entries \cap DOMAIN refs \subseteq queue \cup out
            /\ \A n \in out : refs[n] \cap DOMAIN refs \subseteq queue \cup out

GInv == /\ GraphType
        /\ OnePlace
        /\ Followed
        /\ out \cup queue \subseteq Reachable

LEMMA ReachableClosed == Closed(Reachable)
<1> SUFFICES ASSUME NEW n \in Reachable, NEW m \in refs[n] \cap DOMAIN refs
             PROVE  m \in Reachable
    BY DEF Closed
<1>1. ASSUME NEW S \in SUBSET DOMAIN refs,
             Entries \cap DOMAIN refs \subseteq S, Closed(S)
      PROVE  m \in S
  <2>1. n \in S
    BY <1>1 DEF Reachable
  <2> QED
    BY <1>1, <2>1 DEF Closed
<1> QED
  BY <1>1 DEF Reachable

LEMMA EntriesReachable == Entries \cap DOMAIN refs \subseteq Reachable
BY DEF Reachable

LEMMA InitInv == Init => GInv
<1> SUFFICES ASSUME Init PROVE GInv
    OBVIOUS
<1>1. OnePlace /\ Followed
  BY DEF Init, OnePlace, Followed
<1>2. out \cup queue \subseteq Reachable
  BY EntriesReachable DEF Init
<1> QED
  BY <1>1, <1>2 DEF Init, GInv

LEMMA FollowInv == ASSUME GInv, NEW n \in Names, Follow(n) PROVE GInv'
<1>1. n \in Reachable /\ n \in DOMAIN refs
  BY DEF GInv, Follow, OnePlace
<1>2. Reachable' = Reachable
  BY DEF Follow, Reachable, Closed
<1>3. (out \cup queue)' \subseteq out \cup queue \cup (refs[n] \cap DOMAIN refs)
  BY DEF GInv, Follow, OnePlace
<1>4. (out \cup queue)' \subseteq Reachable'
  BY <1>1, <1>2, <1>3, ReachableClosed DEF GInv, Closed
<1>5. OnePlace'
  <2>1. refs' = refs
    BY DEF Follow
  <2>2. rest' \cap queue' = {} /\ rest' \cap out' = {} /\ queue' \cap out' = {}
    BY DEF GInv, Follow, OnePlace
  <2>3. (rest \cup queue \cup out)' = DOMAIN refs
    BY <1>1 DEF GInv, Follow, OnePlace
  <2> QED
    BY <2>1, <2>2, <2>3 DEF OnePlace
<1>6. Followed'
  <2>1. refs' = refs /\ queue \cup out \subseteq queue' \cup out'
    BY DEF Follow
  <2>2. Entries \cap DOMAIN refs' \subseteq queue' \cup out'
    BY <2>1 DEF GInv, Followed
  <2>3. refs[n] \cap DOMAIN refs \subseteq queue' \cup out'
    BY <2>1 DEF GInv, Follow, OnePlace
  <2>4. ASSUME NEW k \in out' PROVE refs'[k] \cap DOMAIN refs' \subseteq queue' \cup out'
    <3>1. k \in out \/ k = n
      BY DEF Follow
    <3> QED
      BY <2>1, <2>3, <3>1 DEF GInv, Followed
  <2> QED
    BY <2>2, <2>4 DEF Followed
<1>7. GraphType'
  BY DEF GInv, GraphType, Follow
<1> QED
  BY <1>4, <1>5, <1>6, <1>7 DEF GInv

LEMMA GInvHolds == Spec => []GInv
<1>1. GInv /\ [Next]_gcVars => GInv'
  <2> SUFFICES ASSUME GInv, [Next]_gcVars PROVE GInv'
      OBVIOUS
  <2>1. CASE Next
    BY <2>1, FollowInv DEF Next
  <2>2. CASE UNCHANGED gcVars
    BY <2>2 DEF gcVars, GInv, GraphType, OnePlace, Followed, Reachable, Closed
  <2> QED
    BY <2>1, <2>2
<1> QED
  BY InitInv, <1>1, PTL DEF Spec

\* An empty queue means that what was handed out is closed under references and
\* holds the entries, so that it holds every reachable state.
LEMMA GInvImplies == GInv => OnePlace /\ CollectedIsReachable
<1> SUFFICES ASSUME GInv PROVE CollectedIsReachable
    BY DEF GInv
<1>1. ASSUME queue = {} PROVE Reachable \subseteq out
  <2>1. out \in SUBSET DOMAIN refs /\ Closed(out) /\ Entries \cap DOMAIN refs \subseteq out
    BY <1>1 DEF GInv, OnePlace, Followed, Closed
  <2> QED
    BY <2>1 DEF Reachable
<1> QED
  BY <1>1 DEF GInv, CollectedIsReachable

\* No state is handed out twice or lost (optimize.rs: states leave the map when
\* they are first referred to).
THEOREM CollectorOnePlace == Spec => []OnePlace
BY GInvHolds, GInvImplies, PTL

\* The result of garbage_collect is the set of the states the exported entries
\* lead to (optimize.rs, garbage_collect and traverse_statement).
THEOREM CollectorExact == Spec => []CollectedIsReachable
BY GInvHolds, GInvImplies, PTL
=============================================================================
