CONSTANTS
  late = late
  twice = twice
  nowhere = nowhere
  c1 = c1
  c2 = c2
  c3 = c3
  h1 = h1
  h2 = h2
  EmptyText = EmptyText
  Nothing = Nothing
  Eof = Eof
  Reset = Reset
  Names = {late, twice}
  N = 3
  HostedAt <- MCHostedAt
  Clients = {c1, c2}
  Shutters = {h1}
  ClientTexts <- SomeTexts
  Started <- NoServers
  Mortal <- Everyone
  QueueLimit = 1
SPECIFICATION Spec
CHECK_DEADLOCK FALSE
SYMMETRY CallerSymmetry
INVARIANTS GenuineAnswers MissMeansFailure NoLostRequest OnlyPredecessorCalls ShutdownGoesDown
