\* Everything may be lost but the answer to a fix; a stall may name nothing.
SPECIFICATION Spec
CONSTANTS
  chart = chart
  values = values
  app = app
  job = job
  Paths <- MCPaths
  AllowedPaths <- MCAllowed
  Objects <- MCObjects
  MaxFixAttempts = 2
  MaxPushes = 1
  LostAnswers <- MCMergeLost
  Blind <- MCBlind
  Cancellable = TRUE
INVARIANTS
  HealthyWasObserved
  StallGetsSecondWindow
PROPERTIES
  NothingUnexplained
  RevertIsComplete
  RevertSparesOthers
  AttemptEnds
