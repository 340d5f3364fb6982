CONSTANTS
  Calls = {c1, c2, c3}
  NoCall = NoCall
  Threads = {main, t2}
  Main = main
  IoThread = io
  NoThread = NoThread
  Commands = {"stream", "stop"}
  Faults <- Hostile
  MaxRecords = 1
  MaxSeq = 2
SPECIFICATION Spec
INVARIANTS ReplyMatches MapInv
PROPERTY CallsAreMailboxes
CHECK_DEADLOCK FALSE
