SPECIFICATION MCSpec
CONSTANTS
  None = None
  i1 = i1
  i2 = i2
  i3 = i3
  m1 = m1
  m2 = m2
  e1 = e1
  e2 = e2
  Items = {i1, i2, i3}
  Models = {m1, m2}
  ModelOf <- MCModelOf
  Calls = {c1}
  Groups = {x, y}
  Refused = {}
  Authorisations = {a1}
  Preparing = {a1}
  MaxBatch = 2
  MaxRequest = 3
  MaxVersions = 1
  Orgs = {x, y}
  Ids = {i1, i2, i3}
  Connections = {x, y}
  Production = TRUE
  Flaws = {role}
  Addresses = {x, y}
  Limit = 2
  SensitiveLimit = 1
  Window = 2
  MaxBuckets = 2
  MaxTime = 4
  Evidence = {e1, e2}
  MaxExported = 2
  MaxSize = 5
  MaxPublished = 3
  MaxArchived = 6
  Issued <- MCIssued
  Assemblers = {x, y}
  Destinations = {d1}
  Tables = {"Organisation", "User", "BatteryModel", "BatteryItem", "PassportValue", "EvidenceObject",
    "EvidenceLink", "PassportVersion", "PublicPassportSnapshot", "RegistrySubmission", "AuditEvent"}
SYMMETRY MCSymmetry
CONSTRAINT Bound
CHECK_DEADLOCK FALSE
INVARIANTS WholeOrNothing TenantsAreApart LimitsHold ExportsHold
PROPERTIES DraftsAreCurrent HistoryOutlives
