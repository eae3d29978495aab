CONSTANTS
  Names <- MCNames
  Versions = {1, 2, 3}
  Qualname <- MCQualname
  NoName = "none"
  MaxMade = 3
  MaxChanges = 2
  MaxFailures = 1
SPECIFICATION InstancesSpec
INVARIANTS
  NothingLeaks
  RegistryServesTheListed
PROPERTIES
  RefreshReconciles
CHECK_DEADLOCK FALSE
