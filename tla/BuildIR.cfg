SPECIFICATION Spec
CONSTANTS
  N <- MCN
  T = 4
  Name <- MCName
  Flag <- MCFlag
  Names <- MCNames
  Flags <- MCFlags
  Invalid <- MCInvalid
  ScannerNode <- MCScannerNode
  Faults <- MCFaults
  Extra <- MCExtra
INVARIANTS
  SoleOwner
  ResultIsSequential
  ProgramParses
CHECK_DEADLOCK FALSE
