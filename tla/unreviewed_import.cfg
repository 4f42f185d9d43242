SPECIFICATION Spec
CONSTANTS
  Requests = {r1, r2}
  MaxSubmits = 2
  None = None
CHECK_DEADLOCK FALSE
INVARIANTS OnlyReviewedIsImported
