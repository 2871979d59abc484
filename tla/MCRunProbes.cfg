CONSTANTS
  Tenants <- MCTenants
  Roles <- MCRoles
  PrincipalIds <- MCNamedIds
  DocIds <- MCDocIds
  ChunkIds <- MCChunkIds
  NoTenant = NoTenant
  None = None
  Scenarios <- MCScenarios
  Variants <- MCVariants
  ScenarioFiles <- MCScenarioFiles
  VariantFiles <- MCVariantFiles
SPECIFICATION Spec
CHECK_DEADLOCK FALSE
INVARIANTS
  TypeOK
  OverRetrievalIsDisclosure
  UnderRetrievalIsStarvation
  EveryAnswerReported
  SimulatedVerdictTellsTheTags
  SimulatedDefectsHaveTheirCause
  
  ValidatorAgrees
  OpenEntriesServeNobody
