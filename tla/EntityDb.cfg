SPECIFICATION Spec
CONSTANTS
  Scenarios <- AllScenarios
  TimeOf <- MCTimeOf
  Transforms = {"b"}
  Components = {"a", "b"}
  ChunkMaxRows = 2
  ChunkMaxRowsIfUnsorted = 2
  MaxId = 15
  MaxRequests = 2
  MaxPurges = 3
INVARIANTS
    LineageAlive
    LatestAtComplete
    LoadedMeansPresent
PROPERTIES
    RefinesRowStore
    Loads
CHECK_DEADLOCK FALSE
