SPECIFICATION Spec
CONSTANTS
  Text <- MCText
  Entry = 0
  Cells = {c}
  Values = {Zero}
  Zero = Zero
  MaxSnapshots = 14
  MaxCallDepth = 3
  Nil = Nil
  Location <- MCLocation
  Tabled = {"lib.rs"}
  FnAtPc <- MCFnAtPc
  Capacity = 4
\* The tracer is finished.
CHECK_DEADLOCK FALSE
INVARIANTS
  TypeOK
  TracerFollowsCalls
  TracerShowsPosition
  AcceptedRowsWereExecuted
