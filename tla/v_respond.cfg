CONSTANTS
  Calls = {c1, c2, c3}
  NoCall = NoCall
  Threads = {main}
  Main = main
  IoThread = io
  NoThread = NoThread
  Commands = {"stream", "respond"}
  Faults = {"reentrant"}
  MaxRecords = 1
  MaxSeq = 2
SPECIFICATION FairSpec
PROPERTY AnsweredCallSucceeds
CHECK_DEADLOCK FALSE
