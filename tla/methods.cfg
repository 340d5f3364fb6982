CONSTANTS
  Calls = {c1, c2, c3}
  NoCall = NoCall
  Threads = {main}
  Main = main
  IoThread = io
  NoThread = NoThread
  Commands <- AllMethods
  Faults <- Sloppy
  MaxRecords = 1
  MaxSeq = 2
SPECIFICATION Spec
INVARIANTS DataComplete PairInv
CHECK_DEADLOCK FALSE
