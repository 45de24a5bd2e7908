CONSTANTS
  Cpus <- MCCpus
  MaxPaints = 1
CHECK_DEADLOCK FALSE
SPECIFICATION WindowSpec
INVARIANT FindsDescribedCache
