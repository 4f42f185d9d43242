SPECIFICATION Spec
CONSTANTS
  m1 = m1
  m2 = m2
  r1 = r1
  r2 = r2
  Procs = {p1, p2, p3}
  Models = {m1, m2}
  Requests = {r1, r2}
  ModelOf <- MCModelOf
  Evidence = {1, 2}
  Bodies <- MCBodies
  None = None
  MaxSubmits = 1
  MaxCalls = 4
SYMMETRY MCSymmetry
CHECK_DEADLOCK FALSE
INVARIANTS OnlyUnsortedSubmitsDeadlock
PROPERTIES KeepsPromise AcceptedIsUsable
