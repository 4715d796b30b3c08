SPECIFICATION Spec
CONSTANTS
  Text <- MCText
  Entry = 0
  Cells = {heap}
  Values = {0, 1}
  Zero = 0
  MaxSnapshots = 20
  MaxCallDepth = 3
  Nil = Nil
  FunctionAt <- MCFunctionAtPartly
  Scopes <- MCScopes
  PositionAt <- MCPositionAt
  Addressable <- MCAddressable
\* The recording ends.
CHECK_DEADLOCK FALSE
INVARIANT
  RunningFunctionIsInnermost
