CONSTANTS
  BufferSize = 4
  Sizes = {1, 3, 6}
  MaxObjects = 2
  MaxConnections = 2
SPECIFICATION FairSpec
INVARIANTS TypeOK InStep
PROPERTY AllDecoded
CHECK_DEADLOCK FALSE
