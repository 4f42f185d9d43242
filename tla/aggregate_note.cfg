SPECIFICATION Spec
CONSTANTS
  None = None
  Fields = {"status", "note"}
  StatusField = "status"
  Contents = {"original"}
  EmptyContent = "empty"
  Evidence = {e1, e2}
  Conflicts <- NoConflicts
  Models = {m1}
  Items = {i1}
  RequirementOf <- MCRequirementOf
  ValueIds = {v1, v2}
  MaxVersions = 1
  EventKinds = {}
  MaxSubmitted = 1
CHECK_DEADLOCK FALSE
PROPERTIES PublishedValidatedIsProven
