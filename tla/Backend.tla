-------------------------------- MODULE Backend --------------------------------
(***************************************************************************)
(* The back end as a whole: the optimiser makes its passes over the        *)
(* states, the states that are left are laid out as bytes, and the         *)
(* interpreter runs the bytes.                                             *)
(***************************************************************************)
EXTENDS Optimize, Kernel

CONSTANT Orders(_)   \* the orders a set of states may come in

allVars == <<config, orig, prog, at, rest, queue, out, collecting, layout>>

BackendInit(p, c) == InitWith(p, c) /\ LayoutInit

Optimized == at = <<>> /\ Between

\* compile_bytecode takes the states over; every name they mention gets a proxy.
OpenLayout ==
  /\ Optimized
  /\ \E order \in Orders(DOMAIN prog),
        names \in {CHOOSE o \in Orders(UNION {Mentioned(StmtOf(n)) : n \in DOMAIN prog}) : TRUE} :
       Open(order, names)

Layout == (OpenLayout \/ BuildState(prog) \/ Remap) /\ UNCHANGED vars

BackendNext == (Next /\ UNCHANGED layout) \/ Layout

---------------------------------------------------------------------------
\* remap_goto_addresses: "Converts Goto location bookmarks to bytecode addresses."
\* The walk reaches every bookmark and takes nothing else for one.
Linked == Optimized => LinkedAs(prog)

\* The interpreter does with the bytes what the states said before the optimiser
\* had them: the same shifts, skips, reductions and forks in the same order, and
\* the same end.
FaithfulOn(texts, fuel) ==
  (Laid /\ ~ broken) => \A t \in texts :
    Seen(Interpret(Boot(address[Entry]), code, t, 4 * fuel)) = Seen(Parse(orig, Entry, t, fuel))
=============================================================================
