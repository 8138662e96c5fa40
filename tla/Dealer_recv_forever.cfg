SPECIFICATION FairSpec
CONSTANTS
  owner = owner
  user = user
  Worker = worker
  None = None
  Threads <- MCThreads
  Owner = owner
  RecvTimeouts <- Infinite
  SendTimeout = "finite"
  SndHwm = 1
  MaxIn = 1
  MaxCalls = 1
  MaxConnects = 1
PROPERTIES
  RecvWakes
CHECK_DEADLOCK FALSE
