\* Three listed pull requests; anything may fail, one write to a store included.
SPECIFICATION Spec
CONSTANTS
  chart = chart
  release = release
  otherRelease = otherRelease
  values = values
  MaxListed = 3
  Listings <- MCListings
  Outcomes <- MCOutcomes
  Faulty = TRUE
  StoreFaults = 1
INVARIANTS
  NoUpdateIsLost
  StreamIsTheRecord
  FileHasNoHole
  HistoryMissesOnlyFaults
