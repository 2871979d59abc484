CONSTANTS
  Tenants = {"acme", "globex"}
  NoTenant = NoTenant
  ChunkIds = {"c1", "c2", "c3"}
  Tables <- MCTables
  Limits <- MCLimits
  None = None
  MaxChanges = 2
  MaxRequests = 2
SPECIFICATION Spec
CHECK_DEADLOCK FALSE
INVARIANTS
  RefusesWhoBypasses
