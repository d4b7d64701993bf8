CONSTANTS
  Partitions = {"p", "q"}
  Scenarios <- MCScenarios
  PipelineBuffer = 2
  ChannelSize = 1
  StallThreshold = 20
SPECIFICATION FairPipelineSpec
INVARIANTS BudgetAccounting SegmentLimitHolds SlotsReturned
PROPERTIES EndsOrStarves
CHECK_DEADLOCK FALSE
