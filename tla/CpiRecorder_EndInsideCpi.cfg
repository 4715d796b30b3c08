SPECIFICATION Spec
CONSTANTS
  PC <- MCPC
  KnownRanges <- MCKnownRanges
  UnknownName = "unknown_at_pc"
  Nil = Nil
  Location <- MCLocation
  ProgramAt <- MCProgramAt
  SbfFile <- MCSbfFile
  FnAt <- MCFnAt
  FnAtPc <- MCFnAtPc
  Tabled <- MCTabled
  MaxFrames = 4
\* The recording ends.
CHECK_DEADLOCK FALSE
PROPERTY
  EndInsideCpiBalances
