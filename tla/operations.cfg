SPECIFICATION MCSpec
CONSTANTS
  None = None
  Bodies <- MCBodies
  MaxChunks = 2
  pnpm1 = pnpm1
  pnpm2 = pnpm2
  npm1 = npm1
  bare1 = bare1
  bare2 = bare2
  here = here
  moved = moved
  Runs = {pnpm1, pnpm2, npm1, bare1, bare2}
  Projects = {here}
  Kind <- MCKind
  ProjectOf <- MCProjectOf
  Roots = {here, moved}
  RootOf <- MCRootOf
  Unseen = {bare2}
  RequireShared = {pnpm2}
  PrepareOnly = {}
  Shared = Shared
  MaxRuns = 3
  Packages = {p1, p2}
  MaxPackages = 2
  Models = {m1, m2}
  Ids = {id1}
  Energies = {2, 3}
  MaxRecords = 2
  host1 = host1
  host2 = host2
  Hosts = {host1, host2}
  Templates <- MCTemplates
  Settings <- MCSettings
  MaxFaults = 1
CHECK_DEADLOCK FALSE
INVARIANTS InstallsAreAlone VerdictOnTheWhole ReportsAreTrue
PROPERTIES VerdictsStand Settles
