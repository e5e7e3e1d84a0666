SPECIFICATION Spec
CONSTANTS
  Jobs <- MCJobs
  Replies <- MCReplies
  MaxRequests = 2
  MaxTurns = 2
INVARIANTS
  FencedUnderOneIdentifier
  ForgeryIsChargedToItsRequest
  ConclusionIsAsSent
PROPERTY
  RequestEnds
