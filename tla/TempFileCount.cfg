CONSTANTS
  Children <- MCChildren
  Leftover <- NoLeftover
  Failing <- NoneFails
  None = None
  Absent = Absent
  Empty = Empty
CHECK_DEADLOCK FALSE
SPECIFICATION Spec
INVARIANT AllToldBeforeWait
