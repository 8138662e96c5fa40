SPECIFICATION FairSpec
CONSTANTS
  owner = owner
  user = user
  Worker = worker
  None = None
  Threads <- MCThreads
  Owner = owner
  RecvTimeouts <- Finite
  SendTimeout = "finite"
  SndHwm = 1
  MaxIn = 2
  MaxCalls = 4
  MaxConnects = 2
INVARIANTS
  TypeOK
  LifetimesKept
  MessagesConserved
PROPERTIES
  MessagesHandled
  DisconnectReturns
CHECK_DEADLOCK FALSE
