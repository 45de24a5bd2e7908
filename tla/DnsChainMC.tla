----------------------------- MODULE DnsChainMC -----------------------------
(* Instances of DnsChain for TLC: a name hosted at two servers, a name only *)
(* the last one hosts and a name nobody hosts, on chains of two and three.  *)
EXTENDS DnsChain, TLC

CONSTANTS late, twice, nowhere, c1, c2, c3, h1, h2

MCHostedAt  == [m \in Names |-> CASE m = late -> {3} [] m = twice -> {2, 3} [] OTHER -> {}]
MCHostedTwo == [m \in Names |-> CASE m = late -> {2} [] m = twice -> {1, 2} [] OTHER -> {}]
NoServers   == {}
AllServers  == Servers
NoOne       == {}
Everyone    == Peers
RealNames   == Names
SomeTexts   == {late, EmptyText}

CallerSymmetry == Permutations(Clients) \cup Permutations(Shutters)
=============================================================================
