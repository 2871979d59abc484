CONSTANTS
  Tenants <- MCTenants
  Roles <- MCRoles
  PrincipalIds <- MCPrincipalIds
  DocIds <- MCDocIds
  ChunkIds <- MCChunkIds
  NoTenant = NoTenant
  None = None
  Scenarios <- MCUsualScenarios
  Variants <- MCVariants
SPECIFICATION Spec
CHECK_DEADLOCK FALSE
INVARIANTS
  UnverifiableDisclosesNothing
