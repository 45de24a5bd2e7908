CONSTANTS
  late = late
  c1 = c1
  c2 = c2
  h1 = h1
  EmptyText = EmptyText
  Nothing = Nothing
  Eof = Eof
  Reset = Reset
  Names = {late}
  N = 2
  HostedAt <- MCHostedTwo
  Clients = {c1, c2}
  Shutters = {h1}
  ClientTexts <- SomeTexts
  Started <- NoServers
  Mortal <- Mortals
  QueueLimit = 1
  ForkMayFail = TRUE
SPECIFICATION StarterSpec
CHECK_DEADLOCK FALSE
INVARIANTS DoneMeansAllEnded
PROPERTIES EveryCallerEnds StartersEnd
