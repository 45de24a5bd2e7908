CONSTANTS
  Lines <- MCLines
  Strip <- MCStrip
  ShellStrip <- MCShellStrip
  MaxInput = 1
  Capacity = 2
  MayFail = FALSE
CHECK_DEADLOCK FALSE
SPECIFICATION PipelineSpec
INVARIANT DoneMeansShellResult
