SPECIFICATION Spec
CONSTANTS
  Modules <- MCModules
  Decls <- MCDecls
  Events <- MCEvents
  Arguments <- MCArguments
  MaxFires = 2
  Ctx = Ctx
  Default = Default
  TypeError = TypeError
  Refused = Refused
  x = x
  y = y
INVARIANTS
  IndexIsRight
  ToolGetsWhatWasPassed
PROPERTIES
  ActiveCodeRuns
