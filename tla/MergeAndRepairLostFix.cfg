SPECIFICATION Spec
CONSTANTS
  chart = chart
  values = values
  app = app
  job = job
  Paths <- MCPaths
  AllowedPaths <- MCAllowed
  Objects <- MCObjects
  MaxFixAttempts = 2
  MaxPushes = 0
  LostAnswers <- MCFixLost
  Blind <- MCNone
  Cancellable = FALSE
PROPERTY RevertIsComplete
