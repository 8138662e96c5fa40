SPECIFICATION FairSpec
CONSTANTS
  Chars <- MCChars
  Testers <- OneTester
  Targets <- MCTargets
  Calls <- MCCalls
  Posts <- MCPosts
  KeyOrders <- MCKeyOrders
  StressCount = 2
  Hwm = 1
  MaxCalls = 1
  MaxPosts = 3
  MaxWaiting = 1
  MaxSent = 2
INVARIANTS
  RepliesRight
  ReceiptsConserved
PROPERTIES
  RoutesByBook
  StressEnds
CHECK_DEADLOCK FALSE
