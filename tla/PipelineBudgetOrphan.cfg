CONSTANTS
  Partitions = {"p", "q"}
  Scenarios <- OnlyOrphan
  PipelineBuffer = 2
  ChannelSize = 1
  StallThreshold = 20
SPECIFICATION FairPipelineSpec
CHECK_DEADLOCK FALSE
PROPERTY Terminates
