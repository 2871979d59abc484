CONSTANTS
  Tenants <- MCTenants
  Roles <- MCRoles
  PrincipalIds <- MCNamedIds
  DocIds <- MCDocIds
  ChunkIds <- MCChunkIds
  NoTenant = NoTenant
  None = None
  Scenarios <- MCScenarios
  Variants <- MCVariants
  Truths <- MCTruths
SPECIFICATION FairSpec
CHECK_DEADLOCK FALSE
INVARIANTS
  TypeOK
  ReportIsComplete
  ZeroMeansEnforced
  PassSpeaksOfEveryResult
  PassTellsTheStatus
  FalsePositivesWithinSubjects
  InheritedStaysForbidden
  ValidatedPasses
PROPERTIES
  RefinesContract
  EventuallyExits
