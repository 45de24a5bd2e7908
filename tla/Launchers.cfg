CONSTANTS
  MaxCount = 3
  Pids <- MCPids
  Garbage = Garbage
  l1 = l1
  l2 = l2
  Launchers <- Two
  Count = 2
  QueueLimit = 3
  ForkMayFail = TRUE
  Interruptible <- Two
  MayFail = TRUE
  Mortal = {0, 1, 2}
  PROCESS_COUNT = 3
  Unset = Unset
CHECK_DEADLOCK FALSE
SPECIFICATION MCSpec
INVARIANTS ClosesWhatEnds StartsEachOnce AsksOnlyFilledSlots StaysInTheList
  BlocksOnlyAfterLoss PrintsInOrder StarvesOnlyAfterLoss
  PrintsFromEach
PROPERTIES EverythingRuns ImplementsPool NamesArrive ExchangeEnds CombinationEnds
