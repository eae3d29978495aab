SPECIFICATION Spec
CONSTANTS
  message = message
  manage = manage
  owner = owner
  Procs <- MCProcs
  Calls <- MCCalls
  Exts = {"tasks", "notes"}
  Part = "tasks"
  Order <- MCOrder
  Managers = {"tools", "tasks"}
  MaxCalls <- MCMaxCalls
  MaxLoads = 2
INVARIANTS
  OneComponentPerKey
  StartedOnce
  NothingListedIsUp
  UndisturbedOperationRefreshes
CHECK_DEADLOCK FALSE
