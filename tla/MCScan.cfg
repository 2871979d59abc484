CONSTANTS
  Tenants = {"acme", "globex", "None"}
  Roles <- MCRoles
  PrincipalIds = {"ana", "gil"}
  NoTenant = NoTenant
  DocIds = {"d1", "d2"}
  ChunkIds = {"c1", "c2"}
  None = None
  Owners = {"ga", "gn"}
  PointIds = {1, 2}
  Tags <- MCTags
  Worlds <- MCWorlds
  Targets <- MCTargets
  MaxTime = 1
  MaxChanges = 2
SPECIFICATION FairSpec
CHECK_DEADLOCK FALSE
INVARIANTS
  TypeOK
  CauseTellsHistory
  QuietScanIsExact
  JudgedByWhatIsStated
PROPERTIES
  EventuallyExits
