SPECIFICATION Spec
CONSTANTS
  Scenarios <- OnlyParts
  TimeOf <- MCTimeOf
  Transforms = {"b"}
  Components = {"a", "b"}
  ChunkMaxRows = 2
  ChunkMaxRowsIfUnsorted = 2
  MaxId = 15
  MaxRequests = 2
  MaxPurges = 3
INVARIANT StaticIsNewest
CHECK_DEADLOCK FALSE
