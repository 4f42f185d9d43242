SPECIFICATION MCSpec
CONSTANTS
  None = None
  people = {p1, p2, p3}
  enrolling = {p1}
  MaxCalls = 4
  Enough = 3
  Times = {0, 1}
  Horizon = 1
  MaxClock = 1
  MaxRecords = 2
  batteries = {m1, m2}
  f1 = f1
  f2 = f2
  items = {i1, i2}
  evidence = {e1}
  i1 = i1
  Contested <- MCContested
  MaxLoads = 3
  MaxSaves = 2
  AUTH_SESSION_SECONDS = 2
  AUTH_TRANSACTION_SECONDS = 2
  maxTokenAge = 2
  clockTolerance = 1
  Lifetimes = {1, 4}
  MaxAttempts = 2
  MaxTime = 4
  MaxOpen = 2
  Points = {f1, f2}
  Profiles <- MCProfiles
  supplierRequests = {r1, r2}
  MaxSubmits = 2
  Calls = {visitor}
  MAX_REQUEST_BYTES = 1
  MAX_RESPONSE_BYTES = 1
  Sizes = {0, 1, 2}
  MaxSessions = 2
  Pages = {visitor}
  Forms <- MCForms
  MaxText = 3
  Heading = 1
  AnswerSize = 1
  MaxMessage = 5
  MaxHour = 1
  MaxPosts = 3
  publicItems = {i1}
  Fields = {f1, f2}
  Status = f2
  Releases <- MCReleases
  visitors = {visitor}
  Organisations = {account}
  userRoles = {"operator_user", "operator_admin"}
  Malformed = malformed
  Audiences = {resource, other}
  ApiAudience = resource
  MaxVersions = 2
  clerk = clerk
  administrator = administrator
  officer = officer
  provider = provider
  Staff = {clerk, administrator, officer, provider}
  Accounts = {clerk, administrator, provider}
  Home <- MCHome
  Role <- MCRole
  Mandates <- MCMandates
CHECK_DEADLOCK FALSE
INVARIANTS OrganisationsHold PagesAreMeant NothingWithheldIsShown AccountsHold AcceptedIsSignedIn
PROPERTIES SessionsDoNotReturn
