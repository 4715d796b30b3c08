SPECIFICATION Spec
CONSTANTS
  Regions <- MCRegions
  Rodata <- MCRodata
  HeapStart = 64
  HeapLen = 32
  Addrs <- MCAddrs
  Sizes <- MCSizes
  StoreAddrs <- MCStoreAddrs
  Registers <- MCRegisters
  AllocSizes <- MCAllocSizes
  MaxInstructions = 3
\* The replay ends.
CHECK_DEADLOCK FALSE
INVARIANTS
  TypeOK
  ReplayIsExact
  JournalAligned
  RodataKept
  BlocksApart
  BlocksInHeap
