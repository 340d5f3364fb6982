CONSTANT MaxWakeups = 2
SPECIFICATION FairSpec
INVARIANTS ChannelInv NotifyBeforeDestroy FieldsNotRaced
PROPERTIES ImplementsMailbox CallReturns
CHECK_DEADLOCK FALSE
