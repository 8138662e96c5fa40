SPECIFICATION Spec
CONSTANTS
  owner = owner
  user = user
  Worker = worker
  None = None
  Threads <- MCThreads
  Owner = owner
  RecvTimeouts <- BothTimeouts
  MaxParts = 1
  MaxIn = 1
  MaxCalls = 0
  MaxBinds = 1
INVARIANTS
  QuietOnTerm
CHECK_DEADLOCK FALSE
