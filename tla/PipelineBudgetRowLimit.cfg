CONSTANTS
  Partitions = {"p", "q"}
  Scenarios <- OnlyRowLimit
  PipelineBuffer = 2
  ChannelSize = 1
  StallThreshold = 20
SPECIFICATION FairPipelineSpec
CHECK_DEADLOCK FALSE
INVARIANT SlotsVacated
