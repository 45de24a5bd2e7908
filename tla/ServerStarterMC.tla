-------------------------- MODULE ServerStarterMC --------------------------
(* Two servers started by startAllServers, with the callers of DnsChainMC. *)
(* Servers and one of the clients may be killed.                           *)
EXTENDS ServerStarter

CONSTANTS late, c1, c2, h1

MCHostedTwo == [m \in Names |-> {2}]
NoServers   == {}
Mortals     == Servers \cup {c1}
SomeTexts   == {late, EmptyText}
=============================================================================
