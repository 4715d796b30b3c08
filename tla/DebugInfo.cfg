SPECIFICATION Spec
CONSTANTS
  Programs <- MCPrograms
  ELF <- MCELF
  Nil = Nil
  Align = 2
\* The model is loaded.
CHECK_DEADLOCK FALSE
INVARIANTS
  PositionIsAttributed
  LocalsInScope
  FrameVariablesResolve
