SPECIFICATION FairSpec
CONSTANTS
  Empty = Empty
  None = None
  n1 = n1
  d1 = d1
  d2 = d2
  c1 = c1
  Names <- MCNames
  Ids <- OneId
  Requesters <- OneClient
  Calls <- OwnRegister
  MaxRequests = 1
  MaxMessages = 2
  MaxLives = 2
  MaxStarts = 2
INVARIANTS
  RoutingAccounted
  DeliveredInOrder
PROPERTIES
  RequestsAnswered
  MessagesHandled
  StopReturns
CHECK_DEADLOCK FALSE
