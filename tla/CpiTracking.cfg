SPECIFICATION Spec
CONSTANTS
  PC <- MCPC
  KnownRanges <- MCKnownRanges
  UnknownName = "unknown_at_pc"
  Programs <- MCPrograms
  Code <- MCCode
  MaxInvokeDepth = 4
INVARIANTS
  TypeOK
  TopCoversPc
  ContextsDisjoint
  MirrorsInvocations
