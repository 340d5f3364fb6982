CONSTANTS
  Calls = {c1, c2, c3}
  NoCall = NoCall
  Threads = {main, t2}
  Main = main
  IoThread = io
  NoThread = NoThread
  Commands = {"members", "stream", "query", "stop"}
  Faults <- Prompt
  MaxRecords = 1
  MaxSeq = 2
SPECIFICATION Spec
INVARIANTS NoDangling AnswerFindsCaller RecordFindsListener ListenerInv StopInv RecordInv
PROPERTY DeletedNotInUse
CHECK_DEADLOCK FALSE
