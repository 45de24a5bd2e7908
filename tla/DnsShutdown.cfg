CONSTANTS
  late = late
  twice = twice
  nowhere = nowhere
  c1 = c1
  c2 = c2
  c3 = c3
  h1 = h1
  h2 = h2
  EmptyText = EmptyText
  Nothing = Nothing
  Eof = Eof
  Reset = Reset
  Names = {twice, nowhere}
  N = 3
  HostedAt <- MCHostedAt
  Clients = {c1, c2}
  Shutters = {h1, h2}
  ClientTexts <- RealNames
  Started <- AllServers
  Mortal <- NoOne
  QueueLimit = 1
SPECIFICATION FairSpec
CHECK_DEADLOCK FALSE
INVARIANT StopsOnlyOnRequest PrintsWhatItReceived
PROPERTIES ShutdownReachesAll ImplementsDirectory
