CONSTANTS
  Calls = {c1, c2}
  NoCall = NoCall
  Threads = {main}
  Main = main
  IoThread = io
  NoThread = NoThread
  Commands = {"stream"}
  Faults = {"earlyRecord"}
  MaxRecords = 1
  MaxSeq = 1
SPECIFICATION Spec
INVARIANT RecordFindsListener
CHECK_DEADLOCK FALSE
