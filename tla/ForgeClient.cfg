\* Four pull requests on pages of two; three PUTs of a merge, three GETs of a read.
SPECIFICATION Spec
CONSTANTS
  Existing = 4
  MaxOpened = 2
  Unwanted = {2}
  PageSize = 2
  MaxPages = 3
  MaxObjects = 5
  LinkFaults = {1, 3}
  MergeabilityAttempts = 3
  MaxAttempts = 3
  Delays <- MCDelays
  Directed = {2, 5}
  MaxRetryAfter = 4
  OutlivingWindow = 3
  Late = TRUE
INVARIANT
  ListingIsPaidFor
PROPERTIES
  NoReplay
  KeepsPromise
