SPECIFICATION FairSpec
CONSTANTS
  Topics <- MCTopics
  Payloads <- MCPayloads
  Hwm = 1
  MaxSubs = 2
  MaxPubs = 2
  MaxOpens = 2
INVARIANTS
  TypeOK
  SocketKept
  Dispatched
PROPERTIES
  ImplementsTopicFeed
  DisconnectReturns
  Delivery
CHECK_DEADLOCK FALSE
