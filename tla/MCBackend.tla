------------------------------- MODULE MCBackend -------------------------------
EXTENDS MCOptimize, Backend

\* The order of the map is that of the hashes of the names: any.  Two are enough
\* for each state to come before and after its neighbours.
RECURSIVE Listed(_)
Listed(S) == IF S = {} THEN <<>> ELSE LET x == CHOOSE x \in S : TRUE IN <<x>> \o Listed(S \ {x})
MCOrders(S) == {Listed(S), Reverse(Listed(S))}

Rotated(s, k) == SubSeq(s, k + 1, Len(s)) \o SubSeq(s, 1, k)
MCRotations(S) == {Rotated(s, k) : s \in MCOrders(S), k \in 0..(Cardinality(S) - 1)}

BackendSpec == (\E p \in Programs, c \in Configs : BackendInit(p, c))
               /\ [][BackendNext]_allVars /\ WF_vars(Next)
ForkBackendSpec == BackendInit(ForkProgram, Config(FALSE, FALSE, FALSE))
                   /\ [][BackendNext]_allVars /\ WF_vars(Next)

\* No pass changes what the parser does with a text (Preserved); the states stay as
\* they are once the layout has begun.
PassesPreserve == code = <<>> => Preserved
Faithful == FaithfulOn(Texts, Fuel)
=============================================================================
