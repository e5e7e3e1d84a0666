\* Histories of up to four releases, of which three are listed.
SPECIFICATION Spec
CONSTANTS
  Releases <- MCReleases
  Updates <- MCUpdates
  Attributions <- MCAttributions
  MaxReleases = 4
  PageBudget = 3
INVARIANTS
  UnheldIsInformed
  SilenceIsEarned
