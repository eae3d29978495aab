SPECIFICATION Spec
CONSTANTS
  r1 = r1
  r2 = r2
  Runs = {r1, r2}
  chat = chat
  mail = mail
  Origins = {chat, mail}
  Home <- MCHome
  NoOrigin = NoOrigin
  Chains = {}
  Empty = Empty
  Responses <- MCResponses
  FollowUps = {TRUE}
  Continues <- MCContinues
  Saves <- MCSaves
  MaxInputs = 1
  MaxCancels = 1
INVARIANTS
  OutputsFormOnePath
  ModelSeesWhatUserSaw
  CallsAreAnswered
  HistoryIsWhatWasShown
  HistoryShowsEverything
PROPERTIES
  AfterRunRuns
CHECK_DEADLOCK FALSE
