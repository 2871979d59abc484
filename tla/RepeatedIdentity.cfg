CONSTANTS
  Tenants <- MCTenants
  Roles <- MCRoles
  PrincipalIds <- MCNamedIds
  DocIds <- MCDocIds
  ChunkIds <- MCChunkIds
  NoTenant = NoTenant
  None = None
  Scenarios <- MCScenarios
  Variants <- MCVariants
  Truths <- MCTruths
SPECIFICATION Spec
CHECK_DEADLOCK FALSE
INVARIANTS
  ZeroComparesIdentities
