SPECIFICATION Spec
CONSTANTS
  Nil = Nil
  Elf <- MCElf
  Cwd <- MCCwd
  CrateDirs <- MCCrateDirs
  Disk <- MCDisk
  RustFiles <- MCRustFiles
  DepInfo <- MCDepInfo
  Locations <- MCLocations
  Anchors <- MCAnchors
  Programs <- MCPrograms
  AccountFile <- MCAccountFile
  UnknownProgram <- MCUnknownProgram
  Indices <- MCIndices
  MaxLocations = 2
\* A run ends.
CHECK_DEADLOCK FALSE
INVARIANTS
  TypeOK
  ColumnsSurvive
  StepsOpenable
  InputErrorsKeepTrace
PROPERTIES
  ImplementsTraceOutput
