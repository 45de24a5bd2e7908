---------------------------- MODULE DnsDirectory ----------------------------
(***************************************************************************)
(* What the emulated DNS of 8/ promises its clients, with no sockets and   *)
(* no chain of servers: a table says which servers host a name, and a      *)
(* client that asks for a name gets, once, the record of the first server  *)
(* that hosts it, or the empty record when nobody does.  The directory may *)
(* close, once and for good; only then may a client be turned away.        *)
(***************************************************************************)
EXTENDS Integers

CONSTANTS N,         \* number of servers, numbered in the order of dns.url
          Names,     \* server names, none of them empty
          EmptyText, \* the empty string
          HostedAt,  \* server.url: for each name, the servers that host it
          Clients,   \* client processes
          Nothing,   \* no answer yet
          Refused    \* what a client that was turned away has

Servers == 1..N

(* A ServerResponse: a name and the server it is at; a miss is all zeroes. *)
Found(m, s) == [name |-> m, at |-> s]
NotFound    == [name |-> EmptyText, at |-> 0]
Responses   == [name : Names \cup {EmptyText}, at : 0..N]

IsFirstHost(m, s) == s \in HostedAt[m] /\ \A t \in HostedAt[m] : s <= t

(* The answers the table allows for m: exactly one.                        *)
RightAnswers(m) ==
  IF HostedAt[m] \cap Servers = {}
    THEN {NotFound}
    ELSE {Found(m, s) : s \in {t \in Servers : IsFirstHost(m, t)}}

VARIABLES asked,   \* the name each client asks for
          answer,  \* what it was told
          closed   \* whether the directory has stopped answering
dirVars == <<asked, answer, closed>>

DirInit == /\ asked \in [Clients -> Names]
           /\ answer = [c \in Clients |-> Nothing]
           /\ closed = FALSE

Resolve(c) == /\ answer[c] = Nothing
              /\ \E r \in RightAnswers(asked[c]) : answer' = [answer EXCEPT ![c] = r]
              /\ UNCHANGED <<asked, closed>>

Refuse(c) == /\ answer[c] = Nothing
             /\ closed
             /\ answer' = [answer EXCEPT ![c] = Refused]
             /\ UNCHANGED <<asked, closed>>

Close == /\ ~closed
         /\ closed' = TRUE
         /\ UNCHANGED <<asked, answer>>

DirNext == Close \/ \E c \in Clients : Resolve(c) \/ Refuse(c)

DirSafe == DirInit /\ [][DirNext]_dirVars

DirSpec == DirSafe /\ \A c \in Clients : WF_dirVars(Resolve(c) \/ Refuse(c))
=============================================================================
