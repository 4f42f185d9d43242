SPECIFICATION Spec
CONSTANTS
  None = None
  Fields = {"status", "warranty"}
  StatusField = "status"
  Contents = {"original", "reused"}
  EmptyContent = "empty"
  Evidence = {e1}
  Conflicts <- MCConflicts
  Models = {m1}
  Items = {i1, i2}
  RequirementOf <- MCRequirementOf
  ValueIds = {v1, v2}
  MaxVersions = 2
  EventKinds = {"reuse", "recycle"}
  MaxSubmitted = 2
SYMMETRY MCSymmetry
CHECK_DEADLOCK FALSE
INVARIANTS VersionChain SnapshotIsLatest PublishedMirrorsData AtMostOneCurrent ReadyIsPublishable
PROPERTIES RecycledIsFrozen HistoryIsFixed LegalTransitions
