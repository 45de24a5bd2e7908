CONSTANTS
  late = late
  twice = twice
  nowhere = nowhere
  c1 = c1
  c2 = c2
  c3 = c3
  h1 = h1
  h2 = h2
  EmptyText = EmptyText
  Nothing = Nothing
  Eof = Eof
  Reset = Reset
  Names = {late, twice}
  N = 2
  HostedAt <- MCHostedTwo
  Clients = {c1}
  Shutters = {}
  ClientTexts <- RealNames
  Started <- AllServers
  Mortal = {c1}
  QueueLimit = 1
SPECIFICATION Spec
CHECK_DEADLOCK FALSE
INVARIANT StopsOnlyOnRequest
