------------------------------ MODULE DnsChain ------------------------------
(***************************************************************************)
(* The emulated DNS of 8/: servers in the order of dns.url, each of them   *)
(* single threaded.  A client (startClient) asks the first server; a       *)
(* server that has no record for the name opens a connection to the next   *)
(* one, forwards the text and waits for the answer; shutdownAllServers     *)
(* sends the empty text, which every server passes on before it ends.      *)
(*                                                                         *)
(* A step is what a process does between two calls that can block or at    *)
(* which it can be caught half way: accept, recv, connect, send.  Every    *)
(* process has at most one outgoing connection at a time, so a connection  *)
(* is named by the process that opened it.                                 *)
(***************************************************************************)
EXTENDS Integers, Sequences

CONSTANTS N,           \* number of lines of dns.url, all different
          Names,       \* server names
          EmptyText,   \* the text whose first byte is '\0'
          HostedAt,    \* server.url: for each name, the servers that host it
          Clients,     \* processes running startClient
          Shutters,    \* processes running shutdownAllServers
          ClientTexts, \* the arguments clients may be given
          Started,     \* servers that already listen when the clients start
          Mortal,      \* processes that may be killed
          QueueLimit,  \* completed connections a listening socket holds
          Nothing, Eof, Reset  \* states of one direction of a connection

Servers  == 1..N
Peers    == Clients \cup Shutters \cup Servers
SHUTDOWN == EmptyText
Messages == Names \cup {SHUTDOWN}

Found(m, s) == [name |-> m, at |-> s]
NotFound    == [name |-> EmptyText, at |-> 0]
Responses   == [name : Messages, at : 0..N]

ASSUME ChainAssumption ==
  /\ N \in Nat \ {0}
  /\ EmptyText \notin Names
  /\ HostedAt \in [Names -> SUBSET Servers]
  /\ ClientTexts \subseteq Messages
  /\ Started \subseteq Servers
  /\ Mortal \subseteq Peers
  /\ QueueLimit \in Nat \ {0}

ASSUME DistinctAssumption ==
  /\ Clients \cap Shutters = {}
  /\ (Clients \cup Shutters) \cap Servers = {}
  /\ Nothing \notin Peers \cup Messages \cup Responses
  /\ Eof \notin Messages \cup Responses \cup {Nothing}
  /\ Reset \notin Messages \cup Responses \cup {Nothing, Eof}

VARIABLES
  pc,        \* where each process is
  buf,       \* the text each process holds: an argument, or the server's msg
  backlog,   \* per server, connections completed by the kernel, not accepted
  peer,      \* per server, the connection client_sock stands for
  toServer,  \* per connection, what its opener sent and nobody read yet
  toClient,  \* per connection, what its opener can read
  result     \* per client, the ServerResponse it printed
vars == <<pc, buf, backlog, peer, toServer, toClient, result>>

PcValues == {"boot", "accept", "recv", "dial", "send", "wait", "done", "failed"}

TypeOK ==
  /\ pc \in [Peers -> PcValues]
  /\ buf \in [Peers -> Messages]
  /\ backlog \in [Servers -> Seq(Peers)]
  /\ peer \in [Servers -> Peers \cup {Nothing}]
  /\ toServer \in [Peers -> Messages \cup {Nothing, Eof}]
  /\ toClient \in [Peers -> Responses \cup {Nothing, Eof, Reset}]
  /\ result \in [Clients -> Responses \cup {Nothing}]

-----------------------------------------------------------------------------
TargetLast(p) == IF p \in Servers THEN p + 1 ELSE N \* bug: last line of dns.url

Target(p)    == IF p \in Servers THEN p + 1 ELSE 1
Listening(s) == pc[s] \notin {"boot", "done", "failed"}
Queued(s)    == {backlog[s][k] : k \in 1..Len(backlog[s])}

Init ==
  /\ pc = [p \in Peers |-> IF p \notin Servers THEN "dial"
                           ELSE IF p \in Started THEN "accept" ELSE "boot"]
  /\ buf \in {b \in [Peers -> ClientTexts \cup {SHUTDOWN}] :
                /\ \A c \in Clients : b[c] \in ClientTexts
                /\ \A p \in Peers \ Clients : b[p] = SHUTDOWN}
  /\ backlog = [s \in Servers |-> <<>>]
  /\ peer = [s \in Servers |-> Nothing]
  /\ toServer = [p \in Peers |-> Nothing]
  /\ toClient = [p \in Peers |-> Nothing]
  /\ result = [c \in Clients |-> Nothing]

(* close(client_sock) or the kernel's close at exit: the opener reads the  *)
(* end of the stream, or an error if the server left bytes unread.         *)
HangUp(p) == IF toServer'[p] \in Messages THEN Reset ELSE Eof

(* The end of a server process.  Connections nobody accepted are reset;    *)
(* toServer' must be known when Exit is evaluated.                         *)
Exit(s, how) ==
  /\ pc' = [pc EXCEPT ![s] = how]
  /\ backlog' = [backlog EXCEPT ![s] = <<>>]
  /\ peer' = [peer EXCEPT ![s] = Nothing]
  /\ toClient' = [p \in Peers |-> IF p \in Queued(s) THEN Reset
                                  ELSE IF p = peer[s] THEN HangUp(p)
                                  ELSE toClient[p]]

(* errorCheck(): the process ends with EXIT_FAILURE.                       *)
Fail(p) ==
  \/ p \in Servers /\ Exit(p, "failed")
  \/ /\ p \notin Servers
     /\ pc' = [pc EXCEPT ![p] = "failed"]
     /\ UNCHANGED <<backlog, peer, toClient>>

(* msgSend(client_sock, r), close(client_sock), back to accept().          *)
Answer(s, r) ==
  /\ toClient' = [toClient EXCEPT ![peer[s]] = r]
  /\ peer' = [peer EXCEPT ![s] = Nothing]
  /\ pc' = [pc EXCEPT ![s] = "accept"]
  /\ UNCHANGED backlog

(* msgRecv(client_sock, msg).  At the end of the stream recv() returns 0,  *)
(* which is no error, and msg keeps whatever its storage held: any text.   *)
Reads(s, m) ==
  /\ pc[s] = "recv"
  /\ toServer[peer[s]] \in {m, Eof}
  /\ toServer' = [toServer EXCEPT ![peer[s]] = Nothing]
  /\ buf' = [buf EXCEPT ![s] = m]

HasAnyRecord(s, m) == m # SHUTDOWN /\ HostedAt[m] # {} \* bug: only strcmp(name)

(* findServerResp(SERV_FILE, msg, ip, port) finds a line.                  *)
HasRecord(s, m) == m # SHUTDOWN /\ s \in HostedAt[m]

(* Whether p means to recv() after it has sent.                            *)
WantsAnswer(p) == p \in Clients \/ buf[p] # SHUTDOWN

-----------------------------------------------------------------------------
(* Plausible bugs: variants of the actions below with one thing wrong.  No *)
(* behaviour of the specification uses them; they show what the properties *)
(* can tell apart.                                                         *)

PassOnHit(s, m) ==           \* isEmptyResponce not asked
  /\ Reads(s, m)
  /\ s # N
  /\ pc' = [pc EXCEPT ![s] = "dial"]
  /\ UNCHANGED <<backlog, peer, toClient, result>>

PassOnNames(s, m) ==         \* serverShutdown not called
  /\ Reads(s, m)
  /\ ~HasRecord(s, m)
  /\ s # N
  /\ \/ m = SHUTDOWN /\ Exit(s, "done")
     \/ /\ m # SHUTDOWN
        /\ pc' = [pc EXCEPT ![s] = "dial"]
        /\ UNCHANGED <<backlog, peer, toClient>>
  /\ UNCHANGED result

StopOnMiss(s, m) ==          \* the listen loop ends when nothing is found
  /\ Reads(s, m)
  /\ ~HasRecord(s, m)
  /\ s = N
  /\ Exit(s, "done")
  /\ UNCHANGED result

ReturnOwn(s) ==              \* the server's own serv_msg, not the one received
  /\ s \in Servers
  /\ pc[s] = "wait"
  /\ toClient[s] \in Responses \cup {Eof}
  /\ Answer(s, NotFound)
  /\ UNCHANGED <<buf, toServer, result>>

ReturnSilently(s) ==         \* neither msgSend nor close for a relayed answer
  /\ s \in Servers
  /\ pc[s] = "wait"
  /\ toClient[s] \in Responses \cup {Eof}
  /\ peer' = [peer EXCEPT ![s] = Nothing]
  /\ pc' = [pc EXCEPT ![s] = "accept"]
  /\ UNCHANGED <<buf, backlog, toServer, toClient, result>>

ReturnAfterClose(s) ==       \* close(client_sock) before msgSend
  /\ s \in Servers
  /\ pc[s] = "wait"
  /\ toClient[s] \in Responses \cup {Eof}
  /\ Answer(s, Eof)
  /\ UNCHANGED <<buf, toServer, result>>

ReturnStubborn(s) ==         \* recv() repeated while it returns 0
  /\ s \in Servers
  /\ pc[s] = "wait"
  /\ toClient[s] \in Responses
  /\ Answer(s, toClient[s])
  /\ UNCHANGED <<buf, toServer, result>>

SendShutdownOnly(p) ==       \* listen_loop stays true
  /\ pc[p] = "send"
  /\ ~WantsAnswer(p)
  /\ toClient[p] # Reset
  /\ toServer' = [toServer EXCEPT ![p] = SHUTDOWN]
  /\ pc' = [pc EXCEPT ![p] = IF p \in Servers THEN "accept" ELSE "done"]
  /\ peer' = [q \in Servers |-> IF q = p THEN Nothing ELSE peer[q]]
  /\ UNCHANGED <<buf, backlog, toClient, result>>

-----------------------------------------------------------------------------
(* Servers                                                                 *)

(* getServerSocket, getNextServerAddr and the first listen().              *)
Boot(s) ==
  /\ pc[s] = "boot"
  /\ pc' = [pc EXCEPT ![s] = "accept"]
  /\ UNCHANGED <<buf, backlog, peer, toServer, toClient, result>>

Accept(s) ==
  /\ pc[s] = "accept"
  /\ backlog[s] # <<>>
  /\ peer' = [peer EXCEPT ![s] = Head(backlog[s])]
  /\ backlog' = [backlog EXCEPT ![s] = Tail(backlog[s])]
  /\ pc' = [pc EXCEPT ![s] = "recv"]
  /\ UNCHANGED <<buf, toServer, toClient, result>>

AnswerOwn(s, m) ==
  /\ Reads(s, m)
  /\ HasRecord(s, m)
  /\ Answer(s, Found(m, s))
  /\ UNCHANGED result

AnswerMiss(s, m) ==
  /\ Reads(s, m)
  /\ m # SHUTDOWN /\ ~HasRecord(s, m)
  /\ s = N
  /\ Answer(s, NotFound)
  /\ UNCHANGED result

(* No record here, or a shutdown: either goes to the next server first.    *)
PassOn(s, m) ==
  /\ Reads(s, m)
  /\ ~HasRecord(s, m)
  /\ s # N
  /\ pc' = [pc EXCEPT ![s] = "dial"]
  /\ UNCHANGED <<backlog, peer, toClient, result>>

StopLast(s, m) ==
  /\ Reads(s, m)
  /\ m = SHUTDOWN
  /\ s = N
  /\ Exit(s, "done")
  /\ UNCHANGED result

(* The next server's answer.  When recv() returns 0 serv_msg is still the  *)
(* empty response of the failed search, and that is what is sent on.       *)
Return(s) ==
  /\ s \in Servers
  /\ pc[s] = "wait"
  /\ toClient[s] \in Responses \cup {Eof}
  /\ Answer(s, IF toClient[s] = Eof THEN NotFound ELSE toClient[s])
  /\ UNCHANGED <<buf, toServer, result>>

-----------------------------------------------------------------------------
(* Whoever opens a connection: clients, shutters, and servers that pass on *)

(* getClientSocket.  connect() waits while the queue is full.              *)
Dial(p) ==
  /\ pc[p] = "dial"
  /\ Listening(Target(p))
  /\ Len(backlog[Target(p)]) < QueueLimit
  /\ backlog' = [backlog EXCEPT ![Target(p)] = Append(@, p)]
  /\ toServer' = [toServer EXCEPT ![p] = Nothing]
  /\ toClient' = [toClient EXCEPT ![p] = Nothing]
  /\ pc' = [pc EXCEPT ![p] = "send"]
  /\ UNCHANGED <<buf, peer, result>>

DialRefused(p) ==
  /\ pc[p] = "dial"
  /\ ~Listening(Target(p))
  /\ UNCHANGED <<buf, toServer, result>>
  /\ Fail(p)

(* msgSend of a name; a client or a server then waits in recv().  Bytes    *)
(* sent to an end already closed come back as a reset, soon or late.       *)
SendName(p) ==
  /\ pc[p] = "send"
  /\ WantsAnswer(p)
  /\ toClient[p] # Reset
  /\ toServer' = [toServer EXCEPT ![p] = buf[p]]
  /\ \/ UNCHANGED toClient
     \/ toClient[p] = Eof /\ toClient' = [toClient EXCEPT ![p] = Reset]
  /\ pc' = [pc EXCEPT ![p] = "wait"]
  /\ UNCHANGED <<buf, backlog, peer, result>>

(* serverShutdown: send and close.  For a server it is the last thing it   *)
(* does before it closes its own sockets and returns.                      *)
SendShutdown(p) ==
  /\ pc[p] = "send"
  /\ ~WantsAnswer(p)
  /\ toClient[p] # Reset
  /\ toServer' = [toServer EXCEPT ![p] = SHUTDOWN]
  /\ \/ p \in Servers /\ Exit(p, "done")
     \/ /\ p \in Shutters
        /\ pc' = [pc EXCEPT ![p] = "done"]
        /\ UNCHANGED <<backlog, peer, toClient>>
  /\ UNCHANGED <<buf, result>>

(* A reset connection: send() or recv() returns -1.                        *)
ConnectionLost(p) ==
  /\ pc[p] \in {"send", "wait"}
  /\ toClient[p] = Reset
  /\ UNCHANGED <<buf, toServer, result>>
  /\ Fail(p)

(* The client's msgRecv and what it prints.  After recv() returned 0 that  *)
(* is a serv_msg nobody wrote: any response.                               *)
Collect(c) ==
  /\ c \in Clients
  /\ pc[c] = "wait"
  /\ toClient[c] \in Responses \cup {Eof}
  /\ \E r \in Responses : /\ toClient[c] \in {r, Eof}
                          /\ result' = [result EXCEPT ![c] = r]
  /\ pc' = [pc EXCEPT ![c] = "done"]
  /\ UNCHANGED <<buf, backlog, peer, toServer, toClient>>

(* A process is killed; the kernel closes its sockets.                     *)
Die(p) ==
  /\ p \in Mortal
  /\ pc[p] \notin {"boot", "done", "failed"}
  /\ toServer' = [toServer EXCEPT ![p] = IF pc[p] = "send" THEN Eof ELSE @]
  /\ Fail(p)
  /\ UNCHANGED <<buf, result>>

-----------------------------------------------------------------------------
ServerStep(s) ==
  \/ Boot(s)
  \/ Accept(s)
  \/ \E m \in Messages : \/ AnswerOwn(s, m)
                         \/ AnswerMiss(s, m)
                         \/ PassOn(s, m)
                         \/ StopLast(s, m)
  \/ Return(s)

OpenerStep(p) ==
  \/ Dial(p)
  \/ DialRefused(p)
  \/ SendName(p)
  \/ SendShutdown(p)
  \/ ConnectionLost(p)
  \/ Collect(p)

Step(p) == (p \in Servers /\ ServerStep(p)) \/ OpenerStep(p)

Next == \E p \in Peers : Step(p) \/ Die(p)

Spec == Init /\ [][Next]_vars

(* Every process that can run is run; nobody is obliged to be killed.      *)
Fairness == \A p \in Peers : WF_vars(Step(p))

FairSpec == Spec /\ Fairness

-----------------------------------------------------------------------------
Ended(p)    == pc[p] \in {"done", "failed"}
Heard(c)    == pc[c] = "done" /\ toClient[c] \in Responses
Stopping(s) == \/ pc[s] = "done"
               \/ pc[s] \in {"dial", "send"} /\ buf[s] = SHUTDOWN
IsFirstHost(m, s) == s \in HostedAt[m] /\ \A t \in HostedAt[m] : s <= t

(* A record a client was sent is the record of the name it asked for, at   *)
(* the first server of the chain that hosts it, whatever else was asked,   *)
(* killed, not started or shut down meanwhile (findServerResp, startServer *)
(* and the relaying of serv_msg).                                          *)
GenuineAnswers ==
  \A c \in Clients :
    Heard(c) /\ result[c] # NotFound =>
      \E s \in Servers : result[c] = Found(buf[c], s) /\ IsFirstHost(buf[c], s)

(* A client is told that a hosted name does not exist only if some server  *)
(* of the chain ended in error: the empty serv_msg sent on after recv()    *)
(* returned 0.  An orderly shutdown never turns a hit into a miss.         *)
MissMeansFailure ==
  \A c \in Clients :
    (Heard(c) /\ result[c] = NotFound /\ HostedAt[buf[c]] # {}) =>
      \E s \in Servers : pc[s] = "failed"

(* Whoever waits in recv() and has nothing to read is in the queue of the  *)
(* server it called or is the one being served: no request gets lost, so   *)
(* nobody waits for an answer no server knows it owes.                     *)
NoLostRequest ==
  \A p \in Peers :
    pc[p] = "wait" /\ toClient[p] = Nothing =>
      p \in Queued(Target(p)) \/ peer[Target(p)] = p

(* Inner servers only ever hear from the server before them, one           *)
(* connection at a time, so connect() between servers never waits for room.*)
OnlyPredecessorCalls ==
  \A s \in Servers \ {1} :
    /\ Queued(s) \cup {peer[s]} \subseteq {s - 1, Nothing}
    /\ Len(backlog[s]) + (IF peer[s] = Nothing THEN 0 ELSE 1) <= 1

(* A server that shuts down leaves no live server before it that could     *)
(* still call it: the shutdown travels down the chain (server.c:119-127).  *)
ShutdownGoesDown ==
  \A s \in Servers \ {1} : Stopping(s) => Ended(s - 1)

(* The servers stop only because somebody ran shutdownAllServers           *)
(* (server.c:97-98, 120-122).                                              *)
StopsOnlyOnRequest ==
  (\E s \in Servers : Stopping(s)) => \E p \in Shutters : pc[p] = "done"

(* A client that ran to its end prints an answer a server sent             *)
(* (client.c:18-26).                                                       *)
PrintsWhatItReceived == \A c \in Clients : pc[c] = "done" => Heard(c)

(* Every client and every shutdownAllServers comes to an end.              *)
EveryCallerEnds == <>(\A p \in Clients \cup Shutters : Ended(p))

(* Once a shutdown was delivered, every server process ends                *)
(* (shutdownAllServersMain.c:4-5, server.c:119-127).                       *)
ShutdownReachesAll ==
  (\E p \in Shutters : pc[p] = "done") ~> (\A s \in Servers : Ended(s))

(* As long as nobody is killed, every server was up and no client asks for *)
(* the empty name, the chain implements the directory, which closes when   *)
(* its first server ends: a client is refused only after that.             *)
Directory == INSTANCE DnsDirectory WITH
  asked   <- [c \in Clients |-> buf[c]],
  answer  <- [c \in Clients |-> IF pc[c] = "failed" THEN Reset ELSE result[c]],
  closed  <- Ended(1),
  Refused <- Reset
ImplementsDirectory == Directory!DirSpec
=============================================================================
