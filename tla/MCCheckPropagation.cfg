CONSTANTS
  Tenants <- MCTenants
  Roles <- MCRoles
  PrincipalIds <- MCPrincipalIds
  DocIds <- MCDocIds
  ChunkIds <- MCChunkIds
  NoTenant = NoTenant
  None = None
  Scenarios <- MCScenarios
  Variants <- MCVariants
SPECIFICATION Spec
CHECK_DEADLOCK FALSE
INVARIANTS
  TypeOK
  AccountedOnce
  BoundIsMeet
  SilenceIsAgreement
  IndeterminateDisclosesNothing
  ExceedingIsReal
