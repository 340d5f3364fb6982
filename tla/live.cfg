CONSTANTS
  Calls = {c1, c2, c3}
  NoCall = NoCall
  Threads = {main, t2}
  Main = main
  IoThread = io
  NoThread = NoThread
  Commands = {"members", "query"}
  Faults <- Ended
  MaxRecords = 1
  MaxSeq = 2
SPECIFICATION FairSpec
PROPERTIES CallsReturn CloseReturns AnsweredUnlessBlocked RecordIsHeard FinishedQueryIsFreed
CHECK_DEADLOCK FALSE
