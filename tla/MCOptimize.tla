------------------------------- MODULE MCOptimize -------------------------------
EXTENDS Optimize, MCPrograms

B == INSTANCE BuildIR WITH Graph <- MCGraph, ClassOf <- MCClassOf, TokSym <- MCTokSym

Program(nodes, nonterm) ==
  LET parts == {B!StatesOf(n) : n \in DOMAIN nodes \cup DOMAIN ScannerNodes}
  IN  B!EntryStates("entry", "exit", nonterm)
      @@ [name \in UNION {DOMAIN p : p \in parts} |->
            (CHOOSE p \in parts : name \in DOMAIN p)[name]]

CallProgram    == Program(CallNodes, "A")
AscentProgram  == Program(AscentNodes, "L")
KeywordProgram == Program(KeywordNodes, "K")
PeekProgram    == Program(PeekNodes, "C")
ForkProgram    == Program(ForkNodes, "F")
LateForkProgram == Program(CallNodes @@ LateForkNodes, "X")

LiteralProgram == Program(LiteralNodes, "M")

Programs == {CallProgram, AscentProgram, KeywordProgram, PeekProgram, LateForkProgram, LiteralProgram}
MCNames == UNION {DOMAIN p : p \in Programs \cup {ForkProgram}}

\* No optimisation, the default of ParserConfig, and both options the other way.
Config(o, s, q) == [optimize |-> o, scanners |-> s, sequences |-> q]
Default_ == Config(TRUE, TRUE, FALSE)
Configs == {Config(FALSE, FALSE, FALSE), Default_, Config(TRUE, FALSE, TRUE)}

Texts == UNION {[1..n -> {a, b, sp}] : n \in 0..4}
Fuel == 200

Spec     == (\E p \in Programs, c \in Configs : InitWith(p, c)) /\ [][Next]_vars /\ WF_vars(Next)
ForkSpec == InitWith(ForkProgram, Default_) /\ [][Next]_vars /\ WF_vars(Next)
Preserved == PreservedOn(Texts, Fuel)
=============================================================================
