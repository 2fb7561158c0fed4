SPECIFICATION SeedSpec
CONSTANTS
  Null = Null
  BatchSpan = 10
  PhaseSpan = 1000
  MaxHops = 3
  MinLength = 2
  Quarter = 1
  Hour = 4
  Day = 96
  MinCoinjoin = 3
  CollectionMin = 3
  HubMin = 4
  RapidMin = 3
  RecordCost = 100
  DiskCost = 200
  ParallelMin = 5
  ChunkCost = 2800
  ChunkSizes <- MCChunkSizes
  BatchCost = 300
  BatchSizes <- MCBatchSizes
  Scenarios <- MCScenarios
  Clients = {"c1", "c2"}
  MaxSeedDepth = 2
  SeedsOffered <- MCSeedsOffered
INVARIANTS
  FindingsAreDerived
  ReachIsReported
PROPERTY SeedsAreRepaired
CHECK_DEADLOCK FALSE
