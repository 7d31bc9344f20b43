------------------------------- MODULE MCNodes -------------------------------
\* The nodes of MCPrograms by index, as build_ir_concurrent goes through them.
EXTENDS MCPrograms

B == INSTANCE BuildIR WITH Graph <- MCGraph, ClassOf <- MCClassOf, TokSym <- MCTokSym

\* The nodes in some order.  (TLC evaluates a constant once only when no operator
\* with an operator as parameter has a part in it.)
NodeAt ==
  LET seq[S \in SUBSET DOMAIN MCGraph] ==
        IF S = {} THEN <<>> ELSE LET n == CHOOSE n \in S : TRUE IN Append(seq[S \ {n}], n)
  IN  seq[DOMAIN MCGraph]
MCN == Cardinality(DOMAIN MCGraph)
MCIndex == 0 .. MCN - 1
IndexOf(S) == {i \in MCIndex : NodeAt[i + 1] \in S}

MCStates == [i \in MCIndex |-> B!StatesOf(NodeAt[i + 1])] @@ <<>>
MCNames == [i \in MCIndex |-> DOMAIN MCStates[i]] @@ <<>>
MCFlags == [i \in MCIndex |->
              {f \in {"gotos", "calls", "peeks", "forks"} :
                 LET n == MCGraph[NodeAt[i + 1]]
                 IN  CASE f = "gotos" -> n.gotos
                       [] f = "calls" -> n.call # "none"
                       [] f = "peeks" -> n.ty = "Peek"
                       [] OTHER -> n.ty = "ForkInitiator"}] @@ <<>>
MCFlag == {"gotos", "calls", "peeks", "forks"}
MCInvalid == IndexOf(DOMAIN GivenUpNodes)
MCScannerNode == IndexOf({n \in DOMAIN MCGraph : MCGraph[n].scan})
\* No node is a leaf without a state; the state of one may not be read back.
MCFaults == {IndexOf({n \in DOMAIN MCGraph : B!EmptyState(n)}), IndexOf({"ar"})}

Starts == {"A", "L", "K", "M", "C", "F", "X"}
EntryOf == [s \in Starts |-> "entry_" \o s]
MCExtra == UNION {{EntryOf[s], "exit_" \o s} : s \in Starts}
MCName == UNION {MCNames[i] : i \in MCIndex} \cup MCExtra
=============================================================================
