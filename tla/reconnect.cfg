CONSTANTS
  Calls = {c1, c2, c3, c4}
  NoCall = NoCall
  Threads = {main, t2}
  Main = main
  IoThread = io
  NoThread = NoThread
  Commands = {"members", "stream", "stop"}
  Faults <- Flaky
  MaxRecords = 1
  MaxSeq = 2
SPECIFICATION Spec
INVARIANTS TypeOK MapInv RegisteredAlive ReplyMatches ListenerHearsOwn AnswerFindsCaller TransitInv NumberInv
PROPERTY LeaksOnlyReused
CHECK_DEADLOCK FALSE
