CONSTANTS
  Lines <- MCLines
  Strip <- MCStrip
  ShellStrip <- MCShellStrip
  MaxInput = 3
  Capacity = 2
  MayFail = FALSE
CHECK_DEADLOCK FALSE
SPECIFICATION FairPipelineSpec
PROPERTY PipelineEnds
