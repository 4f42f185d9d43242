SPECIFICATION Spec
CONSTANTS
  Procs = {p1, p2, p3}
  Grants = {g1}
  Authorisations = {1, 2}
  Scopes = {s1, s2}
  None = None
  MaxTxs = 2
  MaxCalls = 3
SYMMETRY Symmetry
CHECK_DEADLOCK FALSE
INVARIANTS WorkIsAuthorised NoDeadlock
