SPECIFICATION AttendedSpec
CONSTANTS
  MaxFixAttempts = 0
  MaxMoves = 0
  AnswersGetLost = FALSE
  Secrets <- MCOverlapping
  Sessions <- MCOverlap
  Lines <- MCLines
  MaxAnswer = 2
  MaxTyped = 2
  MaxFaults = 1
  OldNames <- MCOldNames
  NewNames <- MCNewNames
  Proposals <- MCProposals
INVARIANT
  ConfiguredValueIsNeverShown
