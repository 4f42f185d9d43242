SPECIFICATION MCSpec
CONSTANTS
  None = None
  m1 = m1
  i1 = i1
  v1 = v1
  v2 = v2
  m2 = m2
  e1 = e1
  e2 = e2
  Fields = {"status"}
  StatusField = "status"
  Contents = {"original"}
  EmptyContent = "empty"
  Evidence = {e1, e2}
  Conflicts <- NoConflicts
  Models = {m1, m2}
  Items = {i1, i2}
  RequirementOf <- MCRequirementOf
  ValueIds = {v1, v2, v3}
  MaxVersions = 3
  EventKinds = {"reuse", "recycle"}
  MaxSubmitted = 1
  Procs = {p1, p2}
  RankOf <- MCRankOf
  MaxTx = 2
CHECK_DEADLOCK FALSE
PROPERTIES ImplementsAggregate TransactionsEnd
