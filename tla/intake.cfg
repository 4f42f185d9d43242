SPECIFICATION FairSpec
CONSTANTS
  None = None
  Jobs = {j1, j2}
  Refused = {j2}
  MaxAttempts = 2
  ClaimsPerRun = 1
  MaxFailures = 1
  MaxStored = 2
PROPERTIES KeepsPromise Settles LateAcceptanceArrives
