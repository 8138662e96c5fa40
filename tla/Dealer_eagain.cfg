SPECIFICATION Spec
CONSTANTS
  owner = owner
  user = user
  Worker = worker
  None = None
  Threads <- MCThreads
  Owner = owner
  RecvTimeouts <- Finite
  SendTimeout = "finite"
  SndHwm = 1
  MaxIn = 0
  MaxCalls = 2
  MaxConnects = 1
INVARIANTS
  SendOkMeansQueued
CHECK_DEADLOCK FALSE
