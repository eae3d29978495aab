SPECIFICATION FilesSpec
CONSTANTS
  Paths <- MCPaths
  Scenarios <- MCScenarios
  MaxFaults = 1
INVARIANTS
  AppliedAsMeant
  NothingVanishes
  LostOnlyAfterCancel
CHECK_DEADLOCK FALSE
