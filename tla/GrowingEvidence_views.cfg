SPECIFICATION Spec
CONSTANTS
  Null = Null
  Window = 2
  Trailing = 4
  Tolerance = 1
  MixingInputs = 3
  MixingOutputs = 3
  MinSpends = 2
  MinCoherent = 1
  MinMismatch = 2
  Scale = 10000
  Decay = 8500
  MaxRiskHops = 2
  MaxSeeds = 2
  Weights = {5000, 10000}
  Geo <- MCGeo
  Unlikely <- MCUnlikely
  Histories <- MCHistories
  Refs <- MCRefs
INVARIANTS
  ViewsAgree
  NetworkIsDecided
  FundsCarryRisk
PROPERTIES
  CausalRows
  EntitiesOnlyMerge
  MoreSeedsMoreRisk
CHECK_DEADLOCK FALSE
