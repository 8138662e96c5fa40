SPECIFICATION Spec
CONSTANTS
  owner = owner
  user = user
  Worker = worker
  None = None
  Threads <- MCThreads
  Owner = owner
  RecvTimeouts <- BothTimeouts
  MaxParts = 1
  MaxIn = 2
  MaxCalls = 1
  MaxBinds = 1
INVARIANTS
  WholeBesideThread
CHECK_DEADLOCK FALSE
