\* Two pushes by others and a budget of two diffs, whose answers may be lost;
\* answers of two bytes, so that a line can be too long.
SPECIFICATION AttendedSpec
CONSTANTS
  MaxFixAttempts = 2
  MaxMoves = 2
  AnswersGetLost = TRUE
  Secrets <- MCSecrets
  Sessions <- MCSessions
  Lines <- MCLines
  MaxAnswer = 2
  MaxTyped = 2
  MaxFaults = 1
  OldNames <- MCOldNames
  NewNames <- MCNewNames
  Proposals <- MCProposals
INVARIANTS
  MergesWhatWasRead
  NoHoldIsMerged
  EveryAttemptIsOnRecord
  TurnIsShownAsSaid
  PromptStandsLast
  AnswersAreWhole
  NoChangeIsLost
  FixIsNotAGuess
  FixStaysInBounds
PROPERTIES
  DiffsLandWhereProposed
  GateDecides
  StreamReturns
  RefusedForAReason
