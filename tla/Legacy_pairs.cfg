SPECIFICATION FairSpec
CONSTANTS
  background = background
  caller = caller
  c = c
  t = t
  None = None
  Pollers <- BackgroundAndCaller
  Background = background
  Clients <- OneClient
  Testers <- OneTester
  MaxGens = 2
  MaxConns = 2
  MaxTickets = 2
  Topics <- MCTopics
  Payloads <- MCPayloads
  TesterTopic <- MCTesterTopic
  TesterCount = 3
  MaxSubs = 2
  MaxPubs = 2
  MaxBinds = 1
  MaxOpens = 2
  Hwm = 1
INVARIANTS
  TypeOK
  Unwedged
  NoStaleReply
  FiltersFollow
PROPERTIES
  SubscribersServed
  CallsReturn
CHECK_DEADLOCK FALSE
