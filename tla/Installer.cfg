SPECIFICATION Spec
CONSTANTS
  None = None
  b1 = b1
  b2 = b2
  bx = bx
  t1 = t1
  m1 = m1
  mx = mx
  home = home
  other = other
  Workspaces = {home, other}
  DefaultWorkspace = home
  RawProviders <- MCProviders
  Bases = {bx}
  Tokens = {t1}
  Models = {mx}
  Runtimes = {p1, p2}
  MaxInstalls = 2
INVARIANTS SelectionIsInEffect PasswordIsShown OneProgramPerWorkspace
SYMMETRY Alike
CHECK_DEADLOCK FALSE
