CONSTANTS
  MaxNode = 4
  Entries = {"a", "b"}
  Names <- MCNames
  Inodes <- MCInodes
  Layouts <- MCLayouts
  Streams <- MCStreams
  Under <- MCUnder
  Flags <- MCFlags
  Links <- MCLinks
  MaxFds = 3
  MaxFailures = 1
  MaxCount = 3
  MaxLines = 255
  Cpus <- MCCpus
  MaxPaints = 3
SPECIFICATION MCSpec
CHECK_DEADLOCK FALSE
INVARIANTS EveryFileOnce ListsFolders
  OpenRowsAreTrue CountsOpenings DescribesOpenFiles TablesStaySmall
  HoldsTheLines FirstPaintIsTrue ShowsTheCache
