CONSTANTS
  BufferSize = 4
  Sizes = {1, 3}
  MaxObjects = 2
  MaxConnections = 2
SPECIFICATION Spec
INVARIANT ReadsOwnConnection
CHECK_DEADLOCK FALSE
