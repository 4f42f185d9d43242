SPECIFICATION Spec
CONSTANTS
  Procs = {p1, p2}
  ScannerModes = {TRUE, FALSE}
  MaxPuts = 2
  MaxLinks = 3
  MaxCalls = 3
  MaxFailures = 1
CHECK_DEADLOCK FALSE
INVARIANTS AttestedWasCleared UrlsWereCleared
PROPERTIES MovesAllowed PinnedStays JobsGetThePinnedVersion
