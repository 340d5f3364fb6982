CONSTANTS
  Calls = {c1, c2}
  NoCall = NoCall
  Threads = {main}
  Main = main
  IoThread = io
  NoThread = NoThread
  Commands = {"members"}
  Faults = {"lateAnswer"}
  MaxRecords = 1
  MaxSeq = 1
SPECIFICATION Spec
INVARIANT NoDangling
CHECK_DEADLOCK FALSE
