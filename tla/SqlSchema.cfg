CONSTANTS
  NTables = 1
  MaxVersion = 2
  Base <- MCBase
  Origins <- MCOrigins
  Registered <- MCRegistered
  Clients = {k1, k2}
  Agent = agent
  MaxConns = 3
  MaxStarts = 2
  NoConn = NoConn
  NoTx = NoTx
SPECIFICATION Spec
INVARIANTS
  ReadyMeansComplete
  SavedIsDurable
  CallsSucceed
SYMMETRY MCSymmetry
CHECK_DEADLOCK FALSE
