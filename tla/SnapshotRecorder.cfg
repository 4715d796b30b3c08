SPECIFICATION ProgramSpec
CONSTANTS
  Nil = Nil
  Location <- MCLocation
  FnAt <- MCFnAt
  FnAtPc <- MCFnAtPc
  Tabled = {"lib.rs"}
  MaxFrames = 4
  ThirdParty = {"alloc.rs"}
  Errs = {"Err(1)", "Err(2)"}
  OkValue = "Ok"
  Propagates = "?"
  NoneValue = "None"
  ReturnAt <- MCReturnAt
  Body <- MCBody
  CallsTo <- MCCallsTo
\* The recording ends.
CHECK_DEADLOCK FALSE
INVARIANTS
  TypeOK
  TraceMirrorsFrames
  EnvsAligned
  FramesMirrorCalls
  PositionIsCurrent
