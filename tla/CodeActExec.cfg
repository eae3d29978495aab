SPECIFICATION FairSpec
CONSTANTS
  c1 = c1
  c2 = c2
  Calls <- MCCalls
  MaxCancels = 2
INVARIANTS
  LeavesNothing
PROPERTIES
  ExecuteEnds
  ConnectionIsClosed
CHECK_DEADLOCK FALSE
