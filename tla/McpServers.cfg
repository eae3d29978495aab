CONSTANTS
  SafeId <- MCSafeId
  Servers <- MCServers
  MaxSpec = 2
  Listings <- MCListings
  Workspace <- MCWorkspace
  MaxConns = 3
  MaxEdits = 1
  MaxFaults = 1
SPECIFICATION Spec
INVARIANTS
  NoSessionIsForgotten
  ToolsAreThoseServed
  CallsReachTheTool
CHECK_DEADLOCK FALSE
