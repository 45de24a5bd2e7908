CONSTANTS
  Children <- MCChildren
  Leftover <- MCLeftover
  Failing <- MCFailing
  None = None
  Absent = Absent
  Empty = Empty
  Lines <- MCLines
  Strip <- MCStrip
  ShellStrip <- MCShellStrip
  MaxInput = 4
  Capacity = 3
  MayFail = TRUE
CHECK_DEADLOCK FALSE
SPECIFICATION MCSpec
INVARIANTS PolledFileStays PrintsTheCombination DoneMeansResult EndOfInputIsSeen
PROPERTIES ToldProgramEnds FittingInputPasses
