SPECIFICATION Spec
CONSTANTS
  Empty = Empty
  None = None
  n1 = n1
  d1 = d1
  d2 = d2
  c1 = c1
  Names <- MCNames
  Ids <- MCIds
  Requesters <- OneClient
  Calls <- AllCalls
  MaxRequests = 2
  MaxMessages = 1
  MaxLives = 1
  MaxStarts = 1
INVARIANTS
  TypeOK
  LifetimesKept
  AnnouncedAgrees
PROPERTIES
  ImplementsSwitchboard
SYMMETRY MCSymmetry
CHECK_DEADLOCK FALSE
