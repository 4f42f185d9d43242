SPECIFICATION Spec
CONSTANTS
  Procs = {p1, p2}
  ScannerModes = {TRUE}
  MaxPuts = 1
  MaxLinks = 0
  MaxCalls = 3
  MaxFailures = 0
CHECK_DEADLOCK FALSE
PROPERTIES DetectedIsRejected
