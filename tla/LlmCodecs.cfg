SPECIFICATION Spec
CONSTANTS
  Protocols = {"chat_completions", "responses", "anthropic_messages"}
  Shapes <- MCShapes
  Tokens = 2
  MaxRounds = 2
INVARIANTS
  StreamMatchesWhole
  RequestKeepsDialog
CHECK_DEADLOCK FALSE
