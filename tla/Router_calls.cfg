SPECIFICATION FairSpec
CONSTANTS
  owner = owner
  user = user
  Worker = worker
  None = None
  Threads <- MCThreads
  Owner = owner
  RecvTimeouts <- BothTimeouts
  MaxParts = 2
  MaxIn = 2
  MaxCalls = 2
  MaxBinds = 2
INVARIANTS
  TypeOK
  ThreadKept
  HandedOver
PROPERTIES
  StopReturns
  MessagesHandled
CHECK_DEADLOCK FALSE
