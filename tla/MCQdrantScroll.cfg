CONSTANTS
  PointIds <- MCPointIds
  ChunkIds = {"c1", "c2", "c3", "c5"}
  Tags = {"acme", "globex"}
  Collections <- MCCollections
  Payloads <- MCPayloads
  ScrollPage = 2
  MaxWrites = 2
  None = None
SPECIFICATION FairSpec
CHECK_DEADLOCK FALSE
INVARIANTS
  TypeOK
  ScrollIsComplete
  ReadOnce
  InventoryIsTrue
  QuietReadIsExact
PROPERTIES
  EventuallyReturns
