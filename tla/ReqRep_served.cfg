SPECIFICATION FairSpec
CONSTANTS
  background = background
  caller = caller
  c1 = c1
  c2 = c2
  None = None
  Pollers <- BackgroundAndCaller
  Background = background
  Clients <- TwoClients
  MaxGens = 2
  MaxConns = 2
  MaxTickets = 2
INVARIANTS
  TypeOK
  SocketsHeld
  NeverWedged
  NoStaleReply
PROPERTIES
  StopReturns
CHECK_DEADLOCK FALSE
