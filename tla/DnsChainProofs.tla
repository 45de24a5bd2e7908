--------------------------- MODULE DnsChainProofs ---------------------------
(***************************************************************************)
(* Theorems about DnsChain, for every number of servers, every table and   *)
(* any clients, with processes killed, started and shut down at any time:  *)
(* type correctness, and the safety invariants the runs check.             *)
(*                                                                         *)
(* None of the invariants is inductive alone.  The argument is that of     *)
(* ChainInv: a connection nobody has closed is in exactly one place, the   *)
(* queue or the hands of the server it was opened to, and its opener is    *)
(* still at the point of the exchange where the server thinks it is; so    *)
(* whatever a server answers, it answers to the text its peer holds.       *)
(*                                                                         *)
(* The last section is about ServerStarter, which puts startAllServers     *)
(* beside the chain.  Nothing before it uses what ServerStarter adds.      *)
(***************************************************************************)
EXTENDS ServerStarter, TLAPS

Busy == {"dial", "send", "wait"}

(* A connection a server has queued or accepted was opened to that server, *)
(* nobody wrote to it yet, and its opener did not go back to another one.  *)
ConnectionInv ==
  \A s \in Servers, p \in Peers :
    p \in Queued(s) \/ p = peer[s] =>
      /\ Target(p) = s
      /\ toClient[p] = Nothing
      /\ pc[p] \in {"send", "wait", "done", "failed"}
      /\ pc[p] = "done" => p \notin Clients

(* No connection is queued twice, or accepted and queued.                  *)
QueueInv ==
  \A s \in Servers :
    /\ peer[s] \notin Queued(s)
    /\ \A i, j \in 1..Len(backlog[s]) : backlog[s][i] = backlog[s][j] => i = j

(* A server holds a connection exactly while it serves, and passes on only *)
(* what it has no record for and what its peer asked.                      *)
ServerInv ==
  \A s \in Servers :
    /\ pc[s] \in Busy \cup {"recv"} <=> peer[s] # Nothing
    /\ pc[s] \in {"boot", "done", "failed"} => Queued(s) = {}
    /\ pc[s] = "wait" => buf[s] # SHUTDOWN
    /\ pc[s] \in Busy =>
         /\ s # N
         /\ ~HasRecord(s, buf[s])
         /\ pc[peer[s]] \in {"wait", "done", "failed"}
         /\ pc[peer[s]] = "wait" => buf[peer[s]] = buf[s]

(* What an opener has sent, by the point it has reached.                   *)
OpenerInv ==
  /\ \A p \in Peers :
       /\ pc[p] = "send" => toServer[p] = Nothing /\ toClient[p] \notin Responses
       /\ pc[p] = "wait" => toServer[p] \in {Nothing, buf[p]}
       /\ p \in Servers /\ toServer[p] = SHUTDOWN => Ended(p)
       /\ toServer[p] = Eof => Ended(p)
  /\ \A c \in Clients : pc[c] \in Busy \cup {"done", "failed"}
  /\ \A h \in Shutters : /\ pc[h] \in {"dial", "send", "done", "failed"}
                         /\ buf[h] = SHUTDOWN

(* r is the first record of m from server k on.                            *)
FirstFrom(k, m, r) ==
  \E s \in Servers : /\ r = Found(m, s)
                     /\ s >= k
                     /\ s \in HostedAt[m]
                     /\ \A t \in HostedAt[m] : t >= k => s <= t

(* An opener still in the exchange, or a client after it.                  *)
Asking(p) == pc[p] = "wait" \/ (p \in Clients /\ pc[p] = "done")

(* An answer is the first record from the server it was asked of on.       *)
AnswerInv ==
  /\ \A p \in Peers : Asking(p) /\ toClient[p] \in Responses =>
       /\ buf[p] \in Names
       /\ toClient[p] # NotFound => FirstFrom(Target(p), buf[p], toClient[p])
  /\ \A c \in Clients : pc[c] = "done" => toClient[c] # Nothing
  /\ \A c \in Clients : Heard(c) => result[c] = toClient[c]

SomeFailed == \E s \in Servers : pc[s] = "failed"

(* A miss for a name hosted further on comes from a failure, and a stream  *)
(* that ends under a query comes from the failure of the next server.      *)
MissInv ==
  /\ \A p \in Peers :
       Asking(p) /\ toClient[p] = NotFound /\ (\E t \in HostedAt[buf[p]] : t >= Target(p))
         => SomeFailed
  /\ \A s \in Servers :
       pc[s] \in {"send", "wait"} /\ buf[s] # SHUTDOWN /\ toClient[s] = Eof
         => SomeFailed

(* A connection nobody closed or answered is still where it can be served. *)
PendingInv ==
  \A p \in Peers :
    pc[p] \in {"send", "wait"} /\ toClient[p] = Nothing =>
      \E s \in Servers : s = Target(p) /\ (p \in Queued(s) \/ peer[s] = p)

ChainInv ==
  /\ TypeOK
  /\ ConnectionInv
  /\ QueueInv
  /\ ServerInv
  /\ OpenerInv
  /\ AnswerInv
  /\ MissInv
  /\ PendingInv
  /\ ShutdownGoesDown

-----------------------------------------------------------------------------
(* What the proofs use of the constants; Servers, Messages, Responses and  *)
(* Target stay unexpanded elsewhere.                                       *)

LEMMA Numbers ==
  /\ N \in Nat \ {0}
  /\ 1 \in Servers /\ N \in Servers
  /\ \A s \in Servers : /\ s \in Int /\ 1 <= s /\ s <= N
                        /\ s # N => s + 1 \in Servers
                        /\ s # 1 => s - 1 \in Servers
BY ChainAssumption DEF Servers

LEMMA Callers ==
  /\ Servers \subseteq Peers /\ Clients \subseteq Peers /\ Shutters \subseteq Peers
  /\ \A p \in Peers : p \in Servers \/ p \in Clients \/ p \in Shutters
  /\ \A c \in Clients : c \notin Shutters /\ c \notin Servers
  /\ \A h \in Shutters : h \notin Servers
BY DistinctAssumption DEF Peers

LEMMA Targets ==
  /\ \A s \in Servers : Target(s) = s + 1
  /\ \A p \in Peers : p \notin Servers => Target(p) = 1
  /\ \A p \in Peers, s \in Servers : s # 1 /\ Target(p) = s => p = s - 1
<1>1. \A p \in Peers : Target(p) = IF p \in Servers THEN p + 1 ELSE 1
  BY DEF Target
<1>2. \A s \in Servers : Target(s) = s + 1
  BY DEF Target
<1>3. ASSUME NEW p \in Peers, NEW s \in Servers, s # 1, Target(p) = s PROVE p = s - 1
  <2>1. p \in Servers /\ s = p + 1
    BY <1>1, <1>3
  <2> QED
    BY <2>1, Numbers
<1> QED
  BY <1>1, <1>2, <1>3

LEMMA Texts ==
  /\ SHUTDOWN \in Messages /\ Names \subseteq Messages /\ SHUTDOWN \notin Names
  /\ \A m \in Messages : m # SHUTDOWN => m \in Names
  /\ \A m \in Names : HostedAt[m] \subseteq Servers
BY ChainAssumption DEF SHUTDOWN, Messages

LEMMA Replies ==
  /\ NotFound \in Responses
  /\ \A m \in Messages, s \in Servers : /\ Found(m, s) \in Responses
                                        /\ Found(m, s) # NotFound
<1>1. \A s \in Servers : s \in 0..N /\ s # 0
  BY Numbers
<1> QED
  BY <1>1, Numbers DEF Messages, SHUTDOWN, Found, NotFound, Responses

LEMMA Tokens ==
  /\ Nothing \notin Peers /\ Nothing \notin Messages /\ Nothing \notin Responses
  /\ Eof \notin Messages /\ Eof \notin Responses /\ Eof # Nothing
  /\ Reset \notin Messages /\ Reset \notin Responses /\ Reset # Nothing /\ Reset # Eof
  /\ SHUTDOWN # Nothing /\ SHUTDOWN # Eof
<1>1. SHUTDOWN \in Messages
  BY DEF Messages
<1> QED
  BY <1>1, DistinctAssumption

(* The initial states have the types TypeOK gives.                         *)
LEMMA InitTyped == Init => TypeOK
BY ChainAssumption, Callers, Texts DEF Init, TypeOK, PcValues, Messages

(* Every step keeps the types.                                             *)
LEMMA StepTyped == TypeOK /\ [Next]_vars => TypeOK'
<1> SUFFICES ASSUME TypeOK, [Next]_vars PROVE TypeOK'
  OBVIOUS
<1> USE Callers, Texts, Replies DEF TypeOK, PcValues
<1>e. ASSUME NEW s \in Servers, NEW how \in {"done", "failed"}, Exit(s, how)
      PROVE  /\ pc' \in [Peers -> PcValues]
             /\ backlog' \in [Servers -> Seq(Peers)]
             /\ peer' \in [Servers -> Peers \cup {Nothing}]
             /\ toClient' \in [Peers -> Responses \cup {Nothing, Eof, Reset}]
  BY <1>e DEF Exit, HangUp
<1>f. ASSUME NEW p \in Peers, Fail(p)
      PROVE  /\ pc' \in [Peers -> PcValues]
             /\ backlog' \in [Servers -> Seq(Peers)]
             /\ peer' \in [Servers -> Peers \cup {Nothing}]
             /\ toClient' \in [Peers -> Responses \cup {Nothing, Eof, Reset}]
  BY <1>f, <1>e DEF Fail
<1>1. ASSUME NEW s \in Servers, Boot(s) PROVE TypeOK'
  BY <1>1 DEF Boot
<1>2. ASSUME NEW s \in Servers, Accept(s) PROVE TypeOK'
  BY <1>2 DEF Accept
<1>3. ASSUME NEW s \in Servers, NEW m \in Messages, AnswerOwn(s, m) PROVE TypeOK'
  BY <1>3 DEF AnswerOwn, Reads, Answer
<1>4. ASSUME NEW s \in Servers, NEW m \in Messages, AnswerMiss(s, m) PROVE TypeOK'
  BY <1>4 DEF AnswerMiss, Reads, Answer
<1>5. ASSUME NEW s \in Servers, NEW m \in Messages, PassOn(s, m) PROVE TypeOK'
  BY <1>5 DEF PassOn, Reads
<1>6. ASSUME NEW s \in Servers, NEW m \in Messages, StopLast(s, m) PROVE TypeOK'
  BY <1>6, <1>e DEF StopLast, Reads
<1>7. ASSUME NEW s \in Servers, Return(s) PROVE TypeOK'
  BY <1>7 DEF Return, Answer
<1>8. ASSUME NEW p \in Peers, Dial(p) PROVE TypeOK'
  <2>1. \A s \in Servers : backlog'[s] \in Seq(Peers)
    BY <1>8, \A s \in Servers : backlog[s] \in Seq(Peers) /\ Append(backlog[s], p) \in Seq(Peers)
    DEF Dial
  <2>2. backlog' \in [Servers -> Seq(Peers)]
    BY <1>8, <2>1 DEF Dial
  <2> QED
    BY <1>8, <2>2 DEF Dial
<1>9. ASSUME NEW p \in Peers, DialRefused(p) PROVE TypeOK'
  BY <1>9, <1>f DEF DialRefused
<1>10. ASSUME NEW p \in Peers, SendName(p) PROVE TypeOK'
  BY <1>10 DEF SendName
<1>11. ASSUME NEW p \in Peers, SendShutdown(p) PROVE TypeOK'
  BY <1>11, <1>e DEF SendShutdown
<1>12. ASSUME NEW p \in Peers, ConnectionLost(p) PROVE TypeOK'
  BY <1>12, <1>f DEF ConnectionLost
<1>13. ASSUME NEW c \in Clients, Collect(c) PROVE TypeOK'
  BY <1>13 DEF Collect
<1>14. ASSUME NEW p \in Peers, Die(p) PROVE TypeOK'
  BY <1>14, <1>f DEF Die
<1>15. CASE UNCHANGED vars
  BY <1>15 DEF vars
<1> QED
  BY <1>1, <1>2, <1>3, <1>4, <1>5, <1>6, <1>7, <1>8, <1>9, <1>10, <1>11,
     <1>12, <1>13, <1>14, <1>15
  DEF Next, Step, ServerStep, OpenerStep, Collect, Return

(* Every variable always has the type TypeOK gives it: in particular what  *)
(* a client prints is a ServerResponse.                                    *)
THEOREM TypeCorrect == Spec => []TypeOK
BY InitTyped, StepTyped, PTL DEF Spec

-----------------------------------------------------------------------------
(* What the steps do to the queues, with backlog[s] seen as the set        *)
(* Queued(s).                                                              *)

LEMMA SameQueues ==
  ASSUME UNCHANGED backlog
  PROVE  \A t \in Servers : Queued(t)' = Queued(t)
BY DEF Queued

LEMMA QueuedPeers ==
  ASSUME TypeOK
  PROVE  \A t \in Servers : Queued(t) \subseteq Peers
BY DEF TypeOK, Queued

LEMMA ExitQueues ==
  ASSUME TypeOK, NEW s \in Servers, NEW how, Exit(s, how)
  PROVE  /\ Queued(s)' = {}
         /\ \A t \in Servers \ {s} : Queued(t)' = Queued(t)
BY DEF Exit, Queued, TypeOK

LEMMA AcceptQueues ==
  ASSUME TypeOK, QueueInv, NEW s \in Servers, Accept(s)
  PROVE  /\ peer'[s] \in Queued(s)
         /\ Queued(s)' = Queued(s) \ {peer'[s]}
         /\ \A t \in Servers \ {s} : Queued(t)' = Queued(t)
         /\ \A i, j \in 1..Len(backlog'[s]) : backlog'[s][i] = backlog'[s][j] => i = j
<1> DEFINE q == backlog[s]
<1>1. q \in Seq(Peers) /\ q # <<>>
  BY DEF Accept, TypeOK
<1>2. /\ Len(q) \in Nat \ {0}
      /\ Head(q) = q[1]
      /\ Len(Tail(q)) = Len(q) - 1
      /\ \A k \in 1..Len(Tail(q)) : Tail(q)[k] = q[k + 1]
  BY <1>1
<1>3. backlog' = [backlog EXCEPT ![s] = Tail(q)] /\ peer'[s] = q[1]
  BY <1>2 DEF Accept, TypeOK
<1>4. backlog'[s] = Tail(q) /\ \A t \in Servers \ {s} : backlog'[t] = backlog[t]
  BY <1>3 DEF TypeOK
<1>5. \A i, j \in 1..Len(q) : q[i] = q[j] => i = j
  BY DEF QueueInv
<1>6. \A k \in 2..Len(q) : k - 1 \in 1..Len(Tail(q)) /\ q[k] = Tail(q)[k - 1]
  BY <1>2
<1>7. {Tail(q)[k] : k \in 1..Len(Tail(q))} = {q[k] : k \in 1..Len(q)} \ {q[1]}
  <2>1. \A x \in {Tail(q)[k] : k \in 1..Len(Tail(q))} : x \in {q[k] : k \in 1..Len(q)} /\ x # q[1]
    BY <1>2, <1>5
  <2>2. \A x \in {q[k] : k \in 1..Len(q)} \ {q[1]} : x \in {Tail(q)[k] : k \in 1..Len(Tail(q))}
    <3> SUFFICES ASSUME NEW k \in 1..Len(q), q[k] # q[1]
                 PROVE  q[k] \in {Tail(q)[i] : i \in 1..Len(Tail(q))}
      OBVIOUS
    <3>1. k \in 2..Len(q)
      BY <1>2
    <3> QED
      BY <3>1, <1>6
  <2> QED
    BY <2>1, <2>2
<1> HIDE DEF q
<1>8. Queued(s) = {q[k] : k \in 1..Len(q)} /\ Queued(s)' = {Tail(q)[k] : k \in 1..Len(Tail(q))}
  BY <1>4 DEF Queued, q
<1>9. q[1] \in Queued(s)
  BY <1>2, <1>8
<1>10. \A i, j \in 1..Len(Tail(q)) : Tail(q)[i] = Tail(q)[j] => i = j
  BY <1>2, <1>5
<1>11. \A t \in Servers \ {s} : Queued(t)' = Queued(t)
  BY <1>4 DEF Queued
<1>12. Queued(s)' = Queued(s) \ {peer'[s]}
  BY <1>3, <1>7, <1>8
<1>13. \A i, j \in 1..Len(backlog'[s]) : backlog'[s][i] = backlog'[s][j] => i = j
  BY <1>4, <1>10
<1> QED
  BY <1>3, <1>9, <1>11, <1>12, <1>13

LEMMA DialQueues ==
  ASSUME TypeOK, QueueInv, NEW p \in Peers, Dial(p), Target(p) \in Servers,
         p \notin Queued(Target(p))
  PROVE  /\ Queued(Target(p))' = Queued(Target(p)) \cup {p}
         /\ \A t \in Servers \ {Target(p)} : Queued(t)' = Queued(t)
         /\ \A i, j \in 1..Len(backlog'[Target(p)]) :
              backlog'[Target(p)][i] = backlog'[Target(p)][j] => i = j
<1> DEFINE s == Target(p)
           q == backlog[s]
<1>1. q \in Seq(Peers) /\ Len(q) \in Nat
  <2>1. backlog[Target(p)] \in Seq(Peers)
    BY DEF TypeOK
  <2> QED
    BY <2>1
<1>2. /\ Len(Append(q, p)) = Len(q) + 1
      /\ \A k \in 1..Len(q) : Append(q, p)[k] = q[k]
      /\ Append(q, p)[Len(q) + 1] = p
  BY <1>1
<1>3. backlog'[s] = Append(q, p) /\ \A t \in Servers \ {s} : backlog'[t] = backlog[t]
  BY DEF Dial, TypeOK
<1>4. \A i, j \in 1..Len(q) : q[i] = q[j] => i = j
  BY DEF QueueInv
<1>5. Queued(s) = {q[k] : k \in 1..Len(q)}
  BY DEF Queued
<1>6. Queued(s)' = {Append(q, p)[k] : k \in 1..Len(Append(q, p))}
  BY <1>3 DEF Queued
<1> HIDE DEF q
<1>7. Queued(s)' = Queued(s) \cup {p}
  BY <1>1, <1>2, <1>5, <1>6
<1>8. \A i, j \in 1..Len(Append(q, p)) : Append(q, p)[i] = Append(q, p)[j] => i = j
  BY <1>1, <1>2, <1>4, <1>5
<1>9. \A t \in Servers \ {s} : Queued(t)' = Queued(t)
  BY <1>3 DEF Queued
<1> QED
  BY <1>3, <1>7, <1>8, <1>9

-----------------------------------------------------------------------------
(* ChainInv is inductive: initially, and over each action.                 *)

LEMMA InitChain == Init => ChainInv
<1> SUFFICES ASSUME Init PROVE ChainInv
  OBVIOUS
<1>1. TypeOK
  BY InitTyped
<1>2. \A s \in Servers : Queued(s) = {} /\ peer[s] = Nothing /\ Len(backlog[s]) = 0
  BY DEF Init, Queued
<1>3. \A s \in Servers : pc[s] \in {"boot", "accept"}
  BY Callers DEF Init
<1>4. \A p \in Peers : /\ p \notin Servers => pc[p] = "dial"
                       /\ toServer[p] = Nothing /\ toClient[p] = Nothing
  BY DEF Init
<1>5. ConnectionInv /\ QueueInv
  BY <1>2, Tokens DEF ConnectionInv, QueueInv
<1>6. ServerInv
  BY <1>2, <1>3 DEF ServerInv, Busy
<1>7. ShutdownGoesDown
  BY <1>3 DEF ShutdownGoesDown, Stopping
<1>8. \A h \in Shutters : buf[h] = SHUTDOWN /\ h \notin Servers /\ h \in Peers
  BY Callers DEF Init
<1>9. \A p \in Peers : pc[p] \notin {"send", "wait", "done"}
  BY <1>3, <1>4
<1>10. OpenerInv
  <2>1. \A p \in Peers : toServer[p] # SHUTDOWN /\ toServer[p] # Eof
    BY <1>4, Tokens
  <2>2. \A p \in Clients \cup Shutters : pc[p] = "dial"
    BY <1>4, Callers
  <2> QED
    BY <1>8, <1>9, <2>1, <2>2 DEF OpenerInv, Busy
<1>11. AnswerInv /\ PendingInv
  BY <1>9, Callers DEF AnswerInv, PendingInv, Asking, Heard
<1>12. MissInv
  BY <1>9, Callers DEF MissInv, Asking
<1> QED
  BY <1>1, <1>5, <1>6, <1>7, <1>10, <1>11, <1>12 DEF ChainInv

(* TypeOK, value by value.                                                 *)
LEMMA Values ==
  ASSUME TypeOK
  PROVE  /\ \A p \in Peers :
              /\ pc[p] \in PcValues /\ buf[p] \in Messages
              /\ toServer[p] \in Messages \cup {Nothing, Eof}
              /\ toClient[p] \in Responses \cup {Nothing, Eof, Reset}
         /\ \A s \in Servers : /\ peer[s] \in Peers \cup {Nothing}
                               /\ Queued(s) \subseteq Peers
BY QueuedPeers DEF TypeOK

LEMMA BootKeeps ==
  ASSUME ChainInv, TypeOK', NEW s \in Servers, Boot(s)
  PROVE  ChainInv'
<1>0. /\ TypeOK /\ ConnectionInv /\ QueueInv /\ ServerInv /\ OpenerInv
      /\ AnswerInv /\ MissInv /\ PendingInv /\ ShutdownGoesDown
  BY DEF ChainInv
<1>1. \A t \in Servers : Queued(t)' = Queued(t)
  BY SameQueues DEF Boot
<1>2. /\ pc[s] = "boot"
      /\ \A p \in Peers : pc'[p] = IF p = s THEN "accept" ELSE pc[p]
      /\ UNCHANGED <<buf, backlog, peer, toServer, toClient, result>>
  BY <1>0 DEF Boot, TypeOK
<1>c. ConnectionInv'
  BY <1>0, <1>1, <1>2, Callers, Values DEF ConnectionInv
<1>q. QueueInv'
  BY <1>0, <1>1, <1>2, Callers, Values DEF QueueInv
<1>s. ServerInv'
  BY <1>0, <1>1, <1>2, Callers, Values DEF ServerInv, Busy, HasRecord
<1>o. OpenerInv'
  BY <1>0, <1>1, <1>2, Callers, Values DEF OpenerInv, Ended, Busy
<1>a. AnswerInv'
  BY <1>0, <1>1, <1>2, Callers, Values DEF AnswerInv, Asking, Heard
<1>m. MissInv'
  BY <1>0, <1>1, <1>2, Callers, Values DEF MissInv, Asking, SomeFailed
<1>p. PendingInv'
  BY <1>0, <1>1, <1>2, Callers, Values DEF PendingInv
<1>g. ShutdownGoesDown'
  BY <1>0, <1>1, <1>2, Callers, Values, Numbers DEF ShutdownGoesDown, Ended,
     Stopping
<1> QED
  BY <1>c, <1>q, <1>s, <1>o, <1>a, <1>m, <1>p, <1>g DEF ChainInv

LEMMA AcceptKeeps ==
  ASSUME ChainInv, TypeOK', NEW s \in Servers, Accept(s)
  PROVE  ChainInv'
<1>0. /\ TypeOK /\ ConnectionInv /\ QueueInv /\ ServerInv /\ OpenerInv
      /\ AnswerInv /\ MissInv /\ PendingInv /\ ShutdownGoesDown
  BY DEF ChainInv
<1>1. /\ peer'[s] \in Queued(s)
      /\ Queued(s)' = Queued(s) \ {peer'[s]}
      /\ \A t \in Servers \ {s} : Queued(t)' = Queued(t)
      /\ \A i, j \in 1..Len(backlog'[s]) : backlog'[s][i] = backlog'[s][j] => i = j
  BY <1>0, AcceptQueues
<1>2. /\ pc[s] = "accept"
      /\ \A p \in Peers : pc'[p] = IF p = s THEN "recv" ELSE pc[p]
      /\ \A t \in Servers \ {s} : peer'[t] = peer[t] /\ backlog'[t] = backlog[t]
      /\ UNCHANGED <<buf, toServer, toClient, result>>
  BY <1>0 DEF Accept, TypeOK
<1>3. /\ peer'[s] \in Peers /\ peer'[s] # Nothing /\ peer'[s] # s
      /\ peer[s] = Nothing
  BY <1>0, <1>1, <1>2, Values, Tokens DEF ConnectionInv, ServerInv, Busy
<1>c. ConnectionInv'
  BY <1>0, <1>1, <1>2, <1>3, Callers DEF ConnectionInv
<1>q. QueueInv'
  BY <1>0, <1>1, <1>2, <1>3, Callers DEF QueueInv
<1>s. ServerInv'
  BY <1>0, <1>1, <1>2, <1>3, Callers, Values DEF ServerInv, Busy, HasRecord
<1>o. OpenerInv'
  BY <1>0, <1>1, <1>2, <1>3, Callers DEF OpenerInv, Ended, Busy
<1>a. AnswerInv'
  BY <1>0, <1>1, <1>2, <1>3, Callers DEF AnswerInv, Asking, Heard
<1>m. MissInv'
  BY <1>0, <1>1, <1>2, <1>3, Callers DEF MissInv, Asking, SomeFailed
<1>p. PendingInv'
  BY <1>0, <1>1, <1>2, <1>3, Callers, Tokens DEF PendingInv
<1>g. ShutdownGoesDown'
  BY <1>0, <1>1, <1>2, <1>3, Callers, Numbers DEF ShutdownGoesDown, Ended,
     Stopping
<1> QED
  BY <1>c, <1>q, <1>s, <1>o, <1>a, <1>m, <1>p, <1>g DEF ChainInv

(* A server answers for itself: a record it holds, or a miss at the end of *)
(* the chain.                                                              *)
LEMMA FirstHandKeeps ==
  ASSUME ChainInv, TypeOK', NEW s \in Servers, NEW m \in Messages, NEW r \in Responses,
         Reads(s, m), Answer(s, r), UNCHANGED result, m # SHUTDOWN,
         \/ r = Found(m, s) /\ s \in HostedAt[m]
         \/ r = NotFound /\ s = N /\ s \notin HostedAt[m]
  PROVE  ChainInv'
<1>0. /\ TypeOK /\ ConnectionInv /\ QueueInv /\ ServerInv /\ OpenerInv
      /\ AnswerInv /\ MissInv /\ PendingInv /\ ShutdownGoesDown
  BY DEF ChainInv
<1>1. \A t \in Servers : Queued(t)' = Queued(t)
  BY SameQueues DEF Answer
<1>2. /\ pc[s] = "recv" /\ m \in Names
      /\ peer[s] \in Peers /\ toServer[peer[s]] \in {m, Eof}
  BY <1>0, Values, Texts DEF Reads, ServerInv
<1>3. /\ Target(peer[s]) = s /\ peer[s] # s
      /\ pc[peer[s]] \in {"wait", "done", "failed"}
      /\ pc[peer[s]] = "wait" => buf[peer[s]] = m
      /\ pc[peer[s]] = "done" => peer[s] \notin Clients
      /\ \A t \in Servers : peer[t] = peer[s] => t = s
  BY <1>0, <1>2, Tokens, Values DEF OpenerInv, ConnectionInv
<1>4. /\ \A p \in Peers :
           /\ pc'[p] = IF p = s THEN "accept" ELSE pc[p]
           /\ buf'[p] = IF p = s THEN m ELSE buf[p]
           /\ toServer'[p] = IF p = peer[s] THEN Nothing ELSE toServer[p]
           /\ toClient'[p] = IF p = peer[s] THEN r ELSE toClient[p]
      /\ \A t \in Servers : peer'[t] = IF t = s THEN Nothing ELSE peer[t]
      /\ UNCHANGED <<backlog, result>>
  BY <1>0, <1>2 DEF Reads, Answer, TypeOK
<1>5. r # NotFound => FirstFrom(s, m, r)
  <2>1. \A t \in HostedAt[m] : t >= s => s <= t
    BY <1>2, Numbers, Texts
  <2>2. s >= s
    BY Numbers
  <2>3. r # NotFound => r = Found(m, s) /\ s \in HostedAt[m]
    OBVIOUS
  <2> QED
    BY <2>1, <2>2, <2>3 DEF FirstFrom
<1>6. r = NotFound => \A t \in HostedAt[m] : ~(t >= s)
  <2>1. \A t \in HostedAt[m] : t \in Int /\ t <= N
    BY <1>2, Numbers, Texts
  <2>2. r = NotFound => s = N /\ N \notin HostedAt[m]
    BY Replies
  <2> QED
    BY <2>1, <2>2, Numbers
<1>c. ConnectionInv'
  BY <1>0, <1>1, <1>2, <1>3, <1>4, Callers, Tokens DEF ConnectionInv, QueueInv
<1>q. QueueInv'
  BY <1>0, <1>1, <1>2, <1>3, <1>4, Callers, Tokens, Values DEF QueueInv
<1>s. ServerInv'
  BY <1>0, <1>1, <1>2, <1>3, <1>4, Callers, Values DEF ServerInv, Busy,
     HasRecord, ConnectionInv
<1>o. OpenerInv'
  BY <1>0, <1>1, <1>2, <1>3, <1>4, Callers, Tokens DEF OpenerInv, Ended, Busy
<1>a. AnswerInv'
  BY <1>0, <1>1, <1>2, <1>3, <1>4, Callers, <1>5, Tokens DEF AnswerInv,
     Asking, Heard, ConnectionInv
<1>m. MissInv'
  BY <1>0, <1>1, <1>2, <1>3, <1>4, Callers, <1>6, Tokens DEF MissInv, Asking,
     SomeFailed, ConnectionInv
<1>p. PendingInv'
  BY <1>0, <1>1, <1>2, <1>3, <1>4, Callers, Tokens DEF PendingInv
<1>g. ShutdownGoesDown'
  BY <1>0, <1>1, <1>2, <1>3, <1>4, Callers, Numbers DEF ShutdownGoesDown,
     Ended, Stopping
<1> QED
  BY <1>c, <1>q, <1>s, <1>o, <1>a, <1>m, <1>p, <1>g DEF ChainInv

LEMMA PassOnKeeps ==
  ASSUME ChainInv, TypeOK', NEW s \in Servers, NEW m \in Messages, PassOn(s, m)
  PROVE  ChainInv'
<1>0. /\ TypeOK /\ ConnectionInv /\ QueueInv /\ ServerInv /\ OpenerInv
      /\ AnswerInv /\ MissInv /\ PendingInv /\ ShutdownGoesDown
  BY DEF ChainInv
<1>1. \A t \in Servers : Queued(t)' = Queued(t)
  BY SameQueues DEF PassOn
<1>2. /\ pc[s] = "recv" /\ s # N /\ ~HasRecord(s, m)
      /\ peer[s] \in Peers /\ toServer[peer[s]] \in {m, Eof}
  BY <1>0, Values DEF PassOn, Reads, ServerInv
<1>3. /\ Target(peer[s]) = s /\ peer[s] # s
      /\ pc[peer[s]] \in {"wait", "done", "failed"}
      /\ pc[peer[s]] = "wait" => buf[peer[s]] = m
  BY <1>0, <1>2, Tokens, Values DEF OpenerInv, ConnectionInv
<1>4. /\ \A p \in Peers :
           /\ pc'[p] = IF p = s THEN "dial" ELSE pc[p]
           /\ buf'[p] = IF p = s THEN m ELSE buf[p]
           /\ toServer'[p] = IF p = peer[s] THEN Nothing ELSE toServer[p]
      /\ UNCHANGED <<backlog, peer, toClient, result>>
  BY <1>0, <1>2 DEF PassOn, Reads, TypeOK
<1>5. m = SHUTDOWN /\ s # 1 => s - 1 = peer[s] /\ Ended(peer[s])
  BY <1>0, <1>2, <1>3, Targets, Numbers, Callers DEF OpenerInv
<1>c. ConnectionInv'
  BY <1>0, <1>1, <1>2, <1>3, <1>4, Callers DEF ConnectionInv
<1>q. QueueInv'
  BY <1>0, <1>1, <1>2, <1>3, <1>4, Callers DEF QueueInv
<1>s. ServerInv'
  BY <1>0, <1>1, <1>2, <1>3, <1>4, Callers, Values DEF ServerInv, Busy,
     HasRecord, ConnectionInv
<1>o. OpenerInv'
  BY <1>0, <1>1, <1>2, <1>3, <1>4, Callers, Tokens DEF OpenerInv, Ended, Busy
<1>a. AnswerInv'
  BY <1>0, <1>1, <1>2, <1>3, <1>4, Callers DEF AnswerInv, Asking, Heard
<1>m. MissInv'
  BY <1>0, <1>1, <1>2, <1>3, <1>4, Callers DEF MissInv, Asking, SomeFailed
<1>p. PendingInv'
  BY <1>0, <1>1, <1>2, <1>3, <1>4, Callers DEF PendingInv
<1>g. ShutdownGoesDown'
  BY <1>0, <1>1, <1>2, <1>3, <1>4, Callers, <1>5, Numbers DEF
     ShutdownGoesDown, Ended, Stopping
<1> QED
  BY <1>c, <1>q, <1>s, <1>o, <1>a, <1>m, <1>p, <1>g DEF ChainInv

(* A server relays the next server's answer.                               *)
LEMMA ReturnKeeps ==
  ASSUME ChainInv, TypeOK', NEW s \in Servers, Return(s)
  PROVE  ChainInv'
<1>0. /\ TypeOK /\ ConnectionInv /\ QueueInv /\ ServerInv /\ OpenerInv
      /\ AnswerInv /\ MissInv /\ PendingInv /\ ShutdownGoesDown
  BY DEF ChainInv
<1> DEFINE r == IF toClient[s] = Eof THEN NotFound ELSE toClient[s]
<1>1. \A t \in Servers : Queued(t)' = Queued(t)
  BY SameQueues DEF Return, Answer
<1>2. /\ pc[s] = "wait" /\ s # N /\ buf[s] \in Names /\ s \notin HostedAt[buf[s]]
      /\ toClient[s] \in Responses \cup {Eof} /\ toClient[s] # Nothing
      /\ peer[s] \in Peers
  BY <1>0, Values, Texts, Tokens, Callers DEF Return, ServerInv, Busy, HasRecord
<1>3. /\ Target(peer[s]) = s /\ peer[s] # s
      /\ pc[peer[s]] \in {"wait", "done", "failed"}
      /\ pc[peer[s]] = "wait" => buf[peer[s]] = buf[s]
      /\ pc[peer[s]] = "done" => peer[s] \notin Clients
      /\ \A t \in Servers : peer[t] = peer[s] => t = s
      /\ \A t \in Servers : s # peer[t] /\ s \notin Queued(t)
  BY <1>0, <1>2, Callers DEF ServerInv, ConnectionInv, Busy
<1>4. /\ \A p \in Peers :
           /\ pc'[p] = IF p = s THEN "accept" ELSE pc[p]
           /\ toClient'[p] = IF p = peer[s] THEN r ELSE toClient[p]
      /\ \A t \in Servers : peer'[t] = IF t = s THEN Nothing ELSE peer[t]
      /\ UNCHANGED <<buf, toServer, backlog, result>>
  BY <1>0, <1>2 DEF Return, Answer, TypeOK
<1>5. r \in Responses /\ r # Nothing
  BY <1>2, Replies, Tokens
<1>6. r # NotFound => FirstFrom(s, buf[s], r)
  <2> SUFFICES ASSUME r # NotFound PROVE FirstFrom(s, buf[s], r)
    OBVIOUS
  <2>1. r = toClient[s] /\ FirstFrom(s + 1, buf[s], r)
    BY <1>0, <1>2, Targets, Callers DEF AnswerInv, Asking
  <2>2. \A t \in HostedAt[buf[s]] : t >= s <=> t >= s + 1
    <3> SUFFICES ASSUME NEW t \in HostedAt[buf[s]] PROVE t >= s <=> t >= s + 1
      OBVIOUS
    <3>1. t \in Int /\ s \in Int /\ t # s
      BY <1>2, Numbers, Texts
    <3> QED
      BY <3>1
  <2>3. \A t \in Servers : t >= s + 1 => t >= s
    BY Numbers
  <2> QED
    BY <2>1, <2>2, <2>3 DEF FirstFrom
<1>7. r = NotFound /\ (\E t \in HostedAt[buf[s]] : t >= s) => SomeFailed
  <2>1. CASE toClient[s] = Eof
    BY <2>1, <1>0, <1>2, Texts DEF MissInv
  <2>2. CASE toClient[s] = NotFound
    <3>1. \A t \in HostedAt[buf[s]] : t >= s => t >= Target(s)
      BY <1>2, Numbers, Texts, Targets
    <3> QED
      BY <2>2, <3>1, <1>0, <1>2, Callers DEF MissInv, Asking
  <2> QED
    BY <2>1, <2>2
<1> HIDE DEF r
<1>c. ConnectionInv'
  BY <1>0, <1>1, <1>2, <1>3, <1>4, <1>5, Callers, Tokens DEF ConnectionInv,
     QueueInv
<1>q. QueueInv'
  BY <1>0, <1>1, <1>2, <1>3, <1>4, <1>5, Callers, Values, Tokens DEF QueueInv
<1>s. ServerInv'
  BY <1>0, <1>1, <1>2, <1>3, <1>4, <1>5, Callers, Values DEF ServerInv, Busy,
     HasRecord
<1>o. OpenerInv'
  BY <1>0, <1>1, <1>2, <1>3, <1>4, <1>5, Callers DEF OpenerInv, Ended, Busy
<1>a. AnswerInv'
  BY <1>0, <1>1, <1>2, <1>3, <1>4, <1>5, Callers, <1>6 DEF AnswerInv, Asking,
     Heard
<1>m. MissInv'
  BY <1>0, <1>1, <1>2, <1>3, <1>4, <1>5, Callers, <1>7, Tokens DEF MissInv,
     Asking, SomeFailed
<1>p. PendingInv'
  BY <1>0, <1>1, <1>2, <1>3, <1>4, <1>5, Callers DEF PendingInv
<1>g. ShutdownGoesDown'
  BY <1>0, <1>1, <1>2, <1>3, <1>4, <1>5, Callers, Numbers DEF
     ShutdownGoesDown, Ended, Stopping
<1> QED
  BY <1>c, <1>q, <1>s, <1>o, <1>a, <1>m, <1>p, <1>g DEF ChainInv

LEMMA DialKeeps ==
  ASSUME ChainInv, TypeOK', NEW p \in Peers, Dial(p)
  PROVE  ChainInv'
<1>0. /\ TypeOK /\ ConnectionInv /\ QueueInv /\ ServerInv /\ OpenerInv
      /\ AnswerInv /\ MissInv /\ PendingInv /\ ShutdownGoesDown
  BY DEF ChainInv
<1>1. /\ pc[p] = "dial" /\ Target(p) \in Servers /\ Listening(Target(p))
      /\ \A t \in Servers : p # peer[t] /\ p \notin Queued(t)
  <2>1. pc[p] = "dial" /\ Listening(Target(p))
    BY DEF Dial
  <2>2. p \in Servers => p # N
    BY <2>1, <1>0 DEF ServerInv, Busy
  <2>3. Target(p) \in Servers
    BY <2>2, Targets, Numbers
  <2> QED
    BY <2>1, <2>3, <1>0 DEF ConnectionInv
<1>2. /\ Queued(Target(p))' = Queued(Target(p)) \cup {p}
      /\ \A t \in Servers \ {Target(p)} : Queued(t)' = Queued(t)
      /\ \A i, j \in 1..Len(backlog'[Target(p)]) :
           backlog'[Target(p)][i] = backlog'[Target(p)][j] => i = j
  BY <1>0, <1>1, DialQueues
<1>3. /\ \A q \in Peers :
           /\ pc'[q] = IF q = p THEN "send" ELSE pc[q]
           /\ toServer'[q] = IF q = p THEN Nothing ELSE toServer[q]
           /\ toClient'[q] = IF q = p THEN Nothing ELSE toClient[q]
      /\ \A t \in Servers \ {Target(p)} : backlog'[t] = backlog[t]
      /\ UNCHANGED <<buf, peer, result>>
  BY <1>0, <1>1 DEF Dial, TypeOK
<1>c. ConnectionInv'
  BY <1>0, <1>1, <1>2, <1>3, Callers, Values DEF ConnectionInv
<1>q. QueueInv'
  BY <1>0, <1>1, <1>2, <1>3, Callers, Values DEF QueueInv
<1>s. ServerInv'
  BY <1>0, <1>1, <1>2, <1>3, Callers, Values DEF ServerInv, Busy, HasRecord,
     Listening
<1>o. OpenerInv'
  BY <1>0, <1>1, <1>2, <1>3, Callers, Tokens DEF OpenerInv, Ended, Busy
<1>a. AnswerInv'
  BY <1>0, <1>1, <1>2, <1>3, Callers, Tokens DEF AnswerInv, Asking, Heard
<1>m. MissInv'
  BY <1>0, <1>1, <1>2, <1>3, Callers, Tokens DEF MissInv, Asking, SomeFailed
<1>p. PendingInv'
  BY <1>0, <1>1, <1>2, <1>3, Callers DEF PendingInv
<1>g. ShutdownGoesDown'
  BY <1>0, <1>1, <1>2, <1>3, Callers, Numbers DEF ShutdownGoesDown, Ended,
     Stopping
<1> QED
  BY <1>c, <1>q, <1>s, <1>o, <1>a, <1>m, <1>p, <1>g DEF ChainInv

LEMMA SendNameKeeps ==
  ASSUME ChainInv, TypeOK', NEW p \in Peers, SendName(p)
  PROVE  ChainInv'
<1>0. /\ TypeOK /\ ConnectionInv /\ QueueInv /\ ServerInv /\ OpenerInv
      /\ AnswerInv /\ MissInv /\ PendingInv /\ ShutdownGoesDown
  BY DEF ChainInv
<1>1. \A t \in Servers : Queued(t)' = Queued(t)
  BY SameQueues DEF SendName
<1>2. /\ pc[p] = "send" /\ buf[p] \in Messages /\ p \notin Shutters
      /\ p \in Servers => buf[p] # SHUTDOWN
  BY <1>0, Values, Callers DEF SendName, WantsAnswer, OpenerInv
<1>3. /\ \A q \in Peers :
           /\ pc'[q] = IF q = p THEN "wait" ELSE pc[q]
           /\ toServer'[q] = IF q = p THEN buf[p] ELSE toServer[q]
           /\ \/ toClient'[q] = toClient[q]
              \/ q = p /\ toClient[q] = Eof /\ toClient'[q] = Reset
      /\ UNCHANGED <<buf, backlog, peer, result>>
  BY <1>0 DEF SendName, TypeOK
<1>c. ConnectionInv'
  BY <1>0, <1>1, <1>2, <1>3, Callers, Tokens DEF ConnectionInv
<1>q. QueueInv'
  BY <1>0, <1>1, <1>2, <1>3, Callers DEF QueueInv
<1>s. ServerInv'
  BY <1>0, <1>1, <1>2, <1>3, Callers, Values DEF ServerInv, Busy, HasRecord
<1>o. OpenerInv'
  BY <1>0, <1>1, <1>2, <1>3, Callers, Tokens DEF OpenerInv, Ended, Busy
<1>a. AnswerInv'
  BY <1>0, <1>1, <1>2, <1>3, Callers, Tokens DEF AnswerInv, Asking, Heard,
     OpenerInv
<1>m. MissInv'
  BY <1>0, <1>1, <1>2, <1>3, Callers, Tokens, Replies DEF MissInv, Asking,
     SomeFailed, OpenerInv
<1>p. PendingInv'
  BY <1>0, <1>1, <1>2, <1>3, Callers, Tokens DEF PendingInv
<1>g. ShutdownGoesDown'
  BY <1>0, <1>1, <1>2, <1>3, Callers, Numbers DEF ShutdownGoesDown, Ended,
     Stopping
<1> QED
  BY <1>c, <1>q, <1>s, <1>o, <1>a, <1>m, <1>p, <1>g DEF ChainInv

LEMMA CollectKeeps ==
  ASSUME ChainInv, TypeOK', NEW c \in Clients, Collect(c)
  PROVE  ChainInv'
<1>0. /\ TypeOK /\ ConnectionInv /\ QueueInv /\ ServerInv /\ OpenerInv
      /\ AnswerInv /\ MissInv /\ PendingInv /\ ShutdownGoesDown
  BY DEF ChainInv
<1>1. \A t \in Servers : Queued(t)' = Queued(t)
  BY SameQueues DEF Collect
<1>2. /\ pc[c] = "wait" /\ toClient[c] \in Responses \cup {Eof}
      /\ toClient[c] # Nothing
      /\ \A q \in Peers : pc'[q] = IF q = c THEN "done" ELSE pc[q]
      /\ \A d \in Clients \ {c} : result'[d] = result[d]
      /\ toClient[c] \in Responses => result'[c] = toClient[c]
      /\ UNCHANGED <<buf, backlog, peer, toServer, toClient>>
  BY <1>0, Tokens, Callers DEF Collect, TypeOK
<1>c. ConnectionInv'
  BY <1>0, <1>1, <1>2, Callers DEF ConnectionInv
<1>q. QueueInv'
  BY <1>0, <1>1, <1>2, Callers DEF QueueInv
<1>s. ServerInv'
  BY <1>0, <1>1, <1>2, Callers, Values DEF ServerInv, Busy, HasRecord,
     ConnectionInv
<1>o. OpenerInv'
  BY <1>0, <1>1, <1>2, Callers DEF OpenerInv, Ended, Busy
<1>a. AnswerInv'
  BY <1>0, <1>1, <1>2, Callers DEF AnswerInv, Asking, Heard
<1>m. MissInv'
  BY <1>0, <1>1, <1>2, Callers DEF MissInv, Asking, SomeFailed
<1>p. PendingInv'
  BY <1>0, <1>1, <1>2, Callers DEF PendingInv
<1>g. ShutdownGoesDown'
  BY <1>0, <1>1, <1>2, Callers, Numbers DEF ShutdownGoesDown, Ended, Stopping
<1> QED
  BY <1>c, <1>q, <1>s, <1>o, <1>a, <1>m, <1>p, <1>g DEF ChainInv

(* A server process ends, in good order only after the one before it.      *)
LEMMA ExitKeeps ==
  ASSUME ChainInv, TypeOK', NEW s \in Servers, NEW how \in {"done", "failed"}, Exit(s, how),
         ~Ended(s), how = "done" => s = 1 \/ Ended(s - 1), result' = result,
         \A p \in Peers \ {s} : /\ buf'[p] = buf[p]
                                /\ toServer'[p] \in {toServer[p], Nothing}
  PROVE  ChainInv'
<1>0. /\ TypeOK /\ ConnectionInv /\ QueueInv /\ ServerInv /\ OpenerInv
      /\ AnswerInv /\ MissInv /\ PendingInv /\ ShutdownGoesDown
  BY DEF ChainInv
<1>1. /\ Queued(s)' = {}
      /\ \A t \in Servers \ {s} : Queued(t)' = Queued(t)
  BY <1>0, ExitQueues
<1>2. /\ \A p \in Peers :
           /\ pc'[p] = IF p = s THEN how ELSE pc[p]
           /\ IF p \in Queued(s) \/ p = peer[s]
                THEN toClient'[p] \in {Reset, Eof}
                ELSE toClient'[p] = toClient[p]
      /\ \A t \in Servers : peer'[t] = IF t = s THEN Nothing ELSE peer[t]
      /\ backlog'[s] = <<>>
      /\ \A t \in Servers \ {s} : backlog'[t] = backlog[t]
  BY <1>0 DEF Exit, HangUp, TypeOK
<1>3. pc[s] \notin {"done", "failed"}
  BY DEF Ended
<1>4. \A i, j \in 1..Len(backlog'[s]) : backlog'[s][i] = backlog'[s][j] => i = j
  BY <1>2
<1>5. \A p \in Peers, t \in Servers :
        t # s /\ (p \in Queued(t) \/ p = peer[t]) => p \notin Queued(s) /\ p # peer[s]
  BY <1>0 DEF ConnectionInv
<1>6. ASSUME NEW t \in Servers, pc'[t] \in {"send", "wait"}, toClient'[t] # toClient[t]
      PROVE  how = "failed"
  <2>1. Target(t) = s /\ pc[t] \in {"send", "wait"}
    BY <1>0, <1>2, <1>6, Callers DEF ConnectionInv
  <2>2. s # 1 /\ s - 1 = t
    BY <2>1, Targets, Numbers
  <2> QED
    BY <2>1, <2>2 DEF Ended
<1>c. ConnectionInv'
  BY <1>0, <1>1, <1>2, <1>3, Callers, <1>5, Tokens DEF ConnectionInv
<1>q. QueueInv'
  BY <1>0, <1>1, <1>2, <1>3, Callers, <1>4, Values, Tokens DEF QueueInv
<1>s. ServerInv'
  BY <1>0, <1>1, <1>2, <1>3, Callers, Values, Tokens DEF ServerInv, Busy,
     HasRecord
<1>o. OpenerInv'
  BY <1>0, <1>1, <1>2, <1>3, Callers, Tokens DEF OpenerInv, Ended, Busy
<1>a. AnswerInv'
  BY <1>0, <1>1, <1>2, <1>3, Callers, Tokens DEF AnswerInv, Asking, Heard
<1>m. MissInv'
  BY <1>0, <1>1, <1>2, <1>3, Callers, <1>6, Tokens, Replies DEF MissInv,
     Asking, SomeFailed
<1>p. PendingInv'
  BY <1>0, <1>1, <1>2, <1>3, Callers, Tokens DEF PendingInv
<1>g. ShutdownGoesDown'
  BY <1>0, <1>1, <1>2, <1>3, Callers, Numbers DEF ShutdownGoesDown, Ended,
     Stopping
<1> QED
  BY <1>c, <1>q, <1>s, <1>o, <1>a, <1>m, <1>p, <1>g DEF ChainInv

(* A client or a shutter ends.                                             *)
LEMMA EndOutsideKeeps ==
  ASSUME ChainInv, TypeOK', NEW p \in Peers, p \notin Servers, NEW how \in {"done", "failed"},
         ~Ended(p), how = "done" => p \in Shutters,
         pc' = [pc EXCEPT ![p] = how], UNCHANGED <<buf, backlog, peer, toClient, result>>,
         \A q \in Peers \ {p} : toServer'[q] = toServer[q]
  PROVE  ChainInv'
<1>0. /\ TypeOK /\ ConnectionInv /\ QueueInv /\ ServerInv /\ OpenerInv
      /\ AnswerInv /\ MissInv /\ PendingInv /\ ShutdownGoesDown
  BY DEF ChainInv
<1>1. \A t \in Servers : Queued(t)' = Queued(t)
  BY SameQueues
<1>2. /\ \A q \in Peers : pc'[q] = IF q = p THEN how ELSE pc[q]
      /\ pc[p] \notin {"done", "failed"}
  BY <1>0 DEF TypeOK, Ended
<1>c. ConnectionInv'
  BY <1>0, <1>1, <1>2, Callers DEF ConnectionInv
<1>q. QueueInv'
  BY <1>0, <1>1, <1>2, Callers DEF QueueInv
<1>s. ServerInv'
  BY <1>0, <1>1, <1>2, Callers, Values DEF ServerInv, Busy, HasRecord
<1>o. OpenerInv'
  BY <1>0, <1>1, <1>2, Callers DEF OpenerInv, Ended, Busy
<1>a. AnswerInv'
  BY <1>0, <1>1, <1>2, Callers DEF AnswerInv, Asking, Heard
<1>m. MissInv'
  BY <1>0, <1>1, <1>2, Callers DEF MissInv, Asking, SomeFailed
<1>p. PendingInv'
  BY <1>0, <1>1, <1>2, Callers DEF PendingInv
<1>g. ShutdownGoesDown'
  BY <1>0, <1>1, <1>2, Callers, Numbers DEF ShutdownGoesDown, Ended, Stopping
<1> QED
  BY <1>c, <1>q, <1>s, <1>o, <1>a, <1>m, <1>p, <1>g DEF ChainInv

(* Every step of the chain keeps ChainInv.                                 *)
LEMMA StepKeeps == ChainInv /\ [Next]_vars => ChainInv'
<1> SUFFICES ASSUME ChainInv, [Next]_vars PROVE ChainInv'
  OBVIOUS
<1>0. TypeOK' /\ TypeOK /\ ServerInv /\ OpenerInv /\ ConnectionInv /\ ShutdownGoesDown
  BY StepTyped DEF ChainInv
<1>1. ASSUME NEW s \in Servers, Boot(s) PROVE ChainInv'
  BY <1>0, <1>1, BootKeeps
<1>2. ASSUME NEW s \in Servers, Accept(s) PROVE ChainInv'
  BY <1>0, <1>2, AcceptKeeps
<1>3. ASSUME NEW s \in Servers, NEW m \in Messages, AnswerOwn(s, m) PROVE ChainInv'
  BY <1>0, <1>3, FirstHandKeeps, Replies DEF AnswerOwn, HasRecord
<1>4. ASSUME NEW s \in Servers, NEW m \in Messages, AnswerMiss(s, m) PROVE ChainInv'
  BY <1>0, <1>4, FirstHandKeeps, Replies DEF AnswerMiss, HasRecord
<1>5. ASSUME NEW s \in Servers, NEW m \in Messages, PassOn(s, m) PROVE ChainInv'
  BY <1>0, <1>5, PassOnKeeps
<1>6. ASSUME NEW s \in Servers, NEW m \in Messages, StopLast(s, m) PROVE ChainInv'
  <2>1. /\ pc[s] = "recv" /\ m = SHUTDOWN /\ Exit(s, "done") /\ result' = result
        /\ toServer[peer[s]] \in {SHUTDOWN, Eof} /\ peer[s] \in Peers
    BY <1>0, <1>6, Values DEF StopLast, Reads, ServerInv
  <2>2. s = 1 \/ Ended(s - 1)
    <3>1. s = 1 \/ peer[s] = s - 1
      BY <1>0, <2>1, Targets DEF ConnectionInv
    <3> QED
      BY <1>0, <2>1, <3>1, Numbers DEF OpenerInv
  <2>3. \A p \in Peers \ {s} : buf'[p] = buf[p] /\ toServer'[p] \in {toServer[p], Nothing}
    BY <1>0, <1>6 DEF StopLast, Reads, TypeOK
  <2> QED
    BY <1>0, <2>1, <2>2, <2>3, ExitKeeps DEF Ended
<1>7. ASSUME NEW s \in Servers, Return(s) PROVE ChainInv'
  BY <1>0, <1>7, ReturnKeeps
<1>8. ASSUME NEW p \in Peers, Dial(p) PROVE ChainInv'
  BY <1>0, <1>8, DialKeeps
<1>f. ASSUME NEW p \in Peers, Fail(p), ~Ended(p), UNCHANGED <<buf, result>>,
             \A q \in Peers \ {p} : toServer'[q] = toServer[q]
      PROVE  ChainInv'
  <2>1. CASE p \in Servers /\ Exit(p, "failed")
    BY <1>0, <1>f, <2>1, ExitKeeps
  <2>2. CASE p \notin Servers /\ pc' = [pc EXCEPT ![p] = "failed"] /\ UNCHANGED <<backlog, peer, toClient>>
    BY <1>0, <1>f, <2>2, EndOutsideKeeps
  <2> QED
    BY <1>f, <2>1, <2>2 DEF Fail
<1>9. ASSUME NEW p \in Peers, DialRefused(p) PROVE ChainInv'
  BY <1>9, <1>f DEF DialRefused, Ended
<1>10. ASSUME NEW p \in Peers, SendName(p) PROVE ChainInv'
  BY <1>0, <1>10, SendNameKeeps
<1>11. ASSUME NEW p \in Peers, SendShutdown(p) PROVE ChainInv'
  <2>1. /\ pc[p] = "send" /\ ~WantsAnswer(p) /\ UNCHANGED <<buf, result>>
        /\ \A q \in Peers \ {p} : toServer'[q] = toServer[q]
    BY <1>0, <1>11 DEF SendShutdown, TypeOK
  <2>2. CASE p \in Servers /\ Exit(p, "done")
    <3>1. p = 1 \/ Ended(p - 1)
      BY <1>0, <2>1, <2>2 DEF WantsAnswer, ShutdownGoesDown, Stopping
    <3> QED
      BY <1>0, <2>1, <2>2, <3>1, ExitKeeps DEF Ended
  <2>3. CASE p \in Shutters /\ pc' = [pc EXCEPT ![p] = "done"] /\ UNCHANGED <<backlog, peer, toClient>>
    BY <1>0, <2>1, <2>3, EndOutsideKeeps, Callers DEF Ended
  <2> QED
    BY <1>11, <2>2, <2>3 DEF SendShutdown
<1>12. ASSUME NEW p \in Peers, ConnectionLost(p) PROVE ChainInv'
  BY <1>12, <1>f DEF ConnectionLost, Ended
<1>13. ASSUME NEW c \in Clients, Collect(c) PROVE ChainInv'
  BY <1>0, <1>13, CollectKeeps
<1>14. ASSUME NEW p \in Peers, Die(p) PROVE ChainInv'
  <2>1. \A q \in Peers \ {p} : toServer'[q] = toServer[q]
    BY <1>0, <1>14 DEF Die, TypeOK
  <2> QED
    BY <1>14, <1>f, <2>1 DEF Die, Ended
<1>15. CASE UNCHANGED vars
  <2>1. UNCHANGED <<pc, buf, backlog, peer, toServer, toClient, result>>
    BY <1>15 DEF vars
  <2>2. \A t \in Servers : Queued(t)' = Queued(t)
    BY <2>1, SameQueues
  <2>3. ConnectionInv' /\ QueueInv' /\ PendingInv'
    BY <2>1, <2>2 DEF ChainInv, ConnectionInv, QueueInv, PendingInv
  <2>4. ServerInv' /\ OpenerInv'
    BY <2>1, <2>2 DEF ChainInv, ServerInv, OpenerInv, HasRecord, Ended
  <2>5. AnswerInv' /\ MissInv' /\ ShutdownGoesDown'
    BY <2>1 DEF ChainInv, AnswerInv, MissInv, ShutdownGoesDown, Ended, Stopping,
                Asking, Heard, SomeFailed
  <2> QED
    BY <1>0, <2>3, <2>4, <2>5 DEF ChainInv
<1> QED
  BY <1>1, <1>2, <1>3, <1>4, <1>5, <1>6, <1>7, <1>8, <1>9, <1>10, <1>11,
     <1>12, <1>13, <1>14, <1>15
  DEF Next, Step, ServerStep, OpenerStep, Collect, Return

(* The whole argument about the chain, as one invariant of its behaviours. *)
THEOREM ChainInvariant == Spec => []ChainInv
BY InitChain, StepKeeps, PTL DEF Spec

-----------------------------------------------------------------------------
(* Every record a client is sent is the record of the name it asked for,   *)
(* at the first server of the chain that hosts it.                         *)
THEOREM AnswersAreGenuine == Spec => []GenuineAnswers
<1>1. ASSUME ChainInv PROVE GenuineAnswers
  <2> SUFFICES ASSUME NEW c \in Clients, Heard(c), result[c] # NotFound
               PROVE  \E s \in Servers : result[c] = Found(buf[c], s) /\ IsFirstHost(buf[c], s)
    BY DEF GenuineAnswers
  <2>1. result[c] = toClient[c] /\ buf[c] \in Names /\ FirstFrom(1, buf[c], result[c])
    BY <1>1, Callers, Targets DEF ChainInv, AnswerInv, Heard, Asking
  <2>2. PICK s \in Servers : /\ result[c] = Found(buf[c], s) /\ s \in HostedAt[buf[c]]
                             /\ \A t \in HostedAt[buf[c]] : t >= 1 => s <= t
    BY <2>1 DEF FirstFrom
  <2>3. \A t \in HostedAt[buf[c]] : t >= 1
    BY <2>1, Texts, Numbers
  <2> QED
    BY <2>2, <2>3 DEF IsFirstHost
<1> QED
  BY <1>1, ChainInvariant, PTL

(* A client is told a hosted name does not exist only after a server of    *)
(* the chain has failed.                                                   *)
THEOREM MissesMeanFailure == Spec => []MissMeansFailure
<1>1. ASSUME ChainInv PROVE MissMeansFailure
  <2> SUFFICES ASSUME NEW c \in Clients, Heard(c), result[c] = NotFound,
                      HostedAt[buf[c]] # {}
               PROVE  SomeFailed
    BY DEF MissMeansFailure, SomeFailed
  <2>1. toClient[c] = NotFound /\ Asking(c) /\ buf[c] \in Names /\ Target(c) = 1
    BY <1>1, Callers, Targets DEF ChainInv, AnswerInv, Heard, Asking
  <2>2. \E t \in HostedAt[buf[c]] : t >= 1
    BY <2>1, Texts, Numbers
  <2> QED
    BY <1>1, <2>1, <2>2, Callers DEF ChainInv, MissInv
<1> QED
  BY <1>1, ChainInvariant, PTL

(* Whoever waits for an answer is known to the server that owes it.        *)
THEOREM NoRequestIsLost == Spec => []NoLostRequest
<1>1. ASSUME ChainInv PROVE NoLostRequest
  BY <1>1 DEF ChainInv, PendingInv, NoLostRequest
<1> QED
  BY <1>1, ChainInvariant, PTL

(* An inner server holds at most one connection, its predecessor's, so no  *)
(* server ever waits for room in the queue of the next.                    *)
THEOREM OnePredecessorCall == Spec => []OnlyPredecessorCalls
<1>1. ASSUME ChainInv PROVE OnlyPredecessorCalls
  <2> SUFFICES ASSUME NEW s \in Servers \ {1}
               PROVE  /\ Queued(s) \cup {peer[s]} \subseteq {s - 1, Nothing}
                      /\ Len(backlog[s]) + (IF peer[s] = Nothing THEN 0 ELSE 1) <= 1
    BY DEF OnlyPredecessorCalls
  <2>1. \A p \in Queued(s) \cup {peer[s]} : p = s - 1 \/ p = Nothing
    BY <1>1, Targets, Values DEF ChainInv, ConnectionInv
  <2>2. Nothing \notin Queued(s) /\ peer[s] \notin Queued(s)
    BY <1>1, Values, Tokens DEF ChainInv, QueueInv
  <2>3. Len(backlog[s]) \in Nat
    BY <1>1 DEF ChainInv, TypeOK
  <2>4. \A k \in 1..Len(backlog[s]) : backlog[s][k] \in Queued(s)
    BY DEF Queued
  <2>5. \A k \in 1..Len(backlog[s]) : backlog[s][k] = s - 1
    BY <2>1, <2>2, <2>4
  <2>6. \A i, j \in 1..Len(backlog[s]) : i = j
    BY <1>1, <2>5 DEF ChainInv, QueueInv
  <2>7. Len(backlog[s]) <= 1
    BY <2>3, <2>6
  <2>8. peer[s] # Nothing => Len(backlog[s]) = 0
    <3> SUFFICES ASSUME peer[s] # Nothing, Len(backlog[s]) # 0 PROVE FALSE
      OBVIOUS
    <3>1. 1 \in 1..Len(backlog[s])
      BY <2>3
    <3>2. s - 1 \in Queued(s) /\ peer[s] = s - 1
      BY <3>1, <2>1, <2>4, <2>5
    <3> QED
      BY <3>2, <2>2
  <2>9. Queued(s) \cup {peer[s]} \subseteq {s - 1, Nothing}
    BY <2>1
  <2>10. Len(backlog[s]) + (IF peer[s] = Nothing THEN 0 ELSE 1) <= 1
    <3>1. CASE peer[s] = Nothing
      BY <2>3, <2>7, <3>1
    <3>2. CASE peer[s] # Nothing
      BY <2>8, <3>2
    <3> QED
      BY <3>1, <3>2
  <2> QED
    BY <2>9, <2>10
<1> QED
  BY <1>1, ChainInvariant, PTL

(* A server that stops leaves nobody before it who could still call it.    *)
THEOREM ShutdownTravelsDown == Spec => []ShutdownGoesDown
<1>1. ChainInv => ShutdownGoesDown
  BY DEF ChainInv
<1> QED
  BY <1>1, ChainInvariant, PTL

-----------------------------------------------------------------------------
(* Refinement.  When every server runs, nobody is killed and no client     *)
(* asks for the empty name, servers end only by a shutdown, a stream ends  *)
(* early only for those who call the first server after it ended, and the  *)
(* chain is the directory.                                                 *)

Quiet == Started = Servers /\ Mortal = {} /\ ClientTexts \subseteq Names

QuietInv ==
  /\ \A p \in Peers : /\ toServer[p] # Eof
                      /\ toClient[p] \in {Eof, Reset} =>
                           Target(p) \in Servers /\ Ended(Target(p))
  /\ \A s \in Servers : pc[s] \notin {"boot", "failed"}
  /\ \A c \in Clients : /\ buf[c] # SHUTDOWN
                        /\ pc[c] \in {"send", "wait"} => toClient[c] # Eof
                        /\ result[c] # Nothing => pc[c] = "done"

LEMMA QuietInit ==
  ASSUME Quiet, Init
  PROVE  QuietInv
<1>1. \A p \in Peers : toServer[p] = Nothing /\ toClient[p] = Nothing
  BY DEF Init
<1>2. \A s \in Servers : pc[s] = "accept"
  BY Callers DEF Init, Quiet
<1>3. \A c \in Clients : buf[c] \in Names /\ result[c] = Nothing
  BY Callers DEF Init, Quiet
<1> QED
  BY <1>1, <1>2, <1>3, Callers, Tokens, Texts DEF QuietInv

(* In a quiet chain a server that calls the next one finds it there: it    *)
(* could only have ended after its caller (ShutdownGoesDown).              *)
LEMMA NextIsThere ==
  ASSUME ChainInv, QuietInv, NEW s \in Servers, pc[s] \in Busy
  PROVE  ~Ended(Target(s)) /\ toClient[s] \notin {Eof, Reset} /\ Target(s) \in Servers
<1>1. s # N /\ Target(s) = s + 1
  BY Targets DEF ChainInv, ServerInv
<1>2. s \in Int /\ s + 1 \in Servers /\ s + 1 # 1 /\ s + 1 - 1 = s
  BY <1>1, Numbers
<1>3. pc[s + 1] \notin {"done", "failed"}
  <2>1. pc[s + 1] # "failed"
    BY <1>2 DEF QuietInv
  <2>2. Stopping(s + 1) => Ended(s)
    <3>1. PICK t \in Servers \ {1} : t = s + 1 /\ t - 1 = s
      BY <1>2
    <3>2. Stopping(t) => Ended(t - 1)
      BY DEF ChainInv, ShutdownGoesDown
    <3> QED
      BY <3>1, <3>2
  <2> QED
    BY <2>1, <2>2 DEF Stopping, Ended, Busy
<1>4. s \in Peers
  BY Callers
<1> QED
  BY <1>1, <1>2, <1>3, <1>4 DEF QuietInv, Ended

(* A server that ends in an orderly way.                                   *)
LEMMA QuietExit ==
  ASSUME ChainInv, QuietInv, NEW s \in Servers, Exit(s, "done"),
         UNCHANGED result,
         \A c \in Clients : buf'[c] = buf[c],
         \A p \in Peers : toServer'[p] # Eof,
         peer[s] \notin Clients \/ pc[peer[s]] \notin {"send", "wait"}
  PROVE  QuietInv'
<1>0. TypeOK /\ ConnectionInv
  BY DEF ChainInv
<1>1. \A p \in Peers : pc'[p] = IF p = s THEN "done" ELSE pc[p]
  BY <1>0 DEF Exit, TypeOK
<1>2. \A p \in Peers : toClient'[p] = toClient[p] \/ Target(p) = s
  BY <1>0 DEF Exit, ConnectionInv
<1>3. \A c \in Clients : c \in Peers /\ c # s
  BY Callers
<1>4. \A c \in Clients : pc[c] \in {"send", "wait"} => toClient'[c] # Eof
  <2>1. \A c \in Clients : pc[c] \in {"send", "wait"} => c # peer[s]
    OBVIOUS
  <2>2. \A c \in Clients : pc[c] \in {"send", "wait"} => toClient'[c] \in {toClient[c], Reset}
    BY <2>1, <1>3, Values DEF Exit
  <2> QED
    BY <2>2, Tokens DEF QuietInv
<1>5. s \in Peers /\ Servers \subseteq Peers
  BY Callers
<1>6. \A p \in Peers : toClient'[p] \in {Eof, Reset} =>
        Target(p) \in Servers /\ pc'[Target(p)] \in {"done", "failed"}
  <2> SUFFICES ASSUME NEW p \in Peers, toClient'[p] \in {Eof, Reset}
               PROVE  Target(p) \in Servers /\ pc'[Target(p)] \in {"done", "failed"}
    OBVIOUS
  <2>1. CASE Target(p) = s
    BY <1>1, <1>5, <2>1
  <2>2. CASE Target(p) # s
    <3>1. toClient[p] \in {Eof, Reset} /\ Target(p) \in Servers /\ pc[Target(p)] \in {"done", "failed"}
      BY <1>2, <2>2 DEF QuietInv, Ended
    <3> QED
      BY <1>0, <2>2, <3>1 DEF Exit, TypeOK
  <2> QED
    BY <2>1, <2>2
<1> QED
  BY <1>1, <1>3, <1>4, <1>5, <1>6 DEF QuietInv, Ended

(* The other steps: nobody but the process that moves is disturbed.        *)
LEMMA QuietOther ==
  ASSUME TypeOK, QuietInv, NEW p \in Peers,
         \A q \in Peers : q # p => pc'[q] = pc[q],
         pc[p] \notin {"done", "failed"},
         p \in Servers => pc'[p] \notin {"boot", "failed"},
         \A c \in Clients : buf'[c] = buf[c],
         \A c \in Clients : result'[c] = result[c] \/ (c = p /\ pc'[p] = "done"),
         \A q \in Peers : toServer'[q] # Eof,
         \A q \in Peers : \/ toClient'[q] = toClient[q]
                          \/ toClient'[q] \notin {Eof, Reset},
         pc'[p] \in {"send", "wait"} => toClient'[p] # Eof
  PROVE  QuietInv'
<1>2. \A q \in Peers : toClient'[q] \in {Eof, Reset} =>
        Target(q) \in Servers /\ pc'[Target(q)] \in {"done", "failed"}
  <2> SUFFICES ASSUME NEW q \in Peers, toClient'[q] \in {Eof, Reset}
               PROVE  Target(q) \in Servers /\ pc'[Target(q)] \in {"done", "failed"}
    OBVIOUS
  <2>1. Target(q) \in Servers /\ pc[Target(q)] \in {"done", "failed"}
    BY DEF QuietInv, Ended
  <2> QED
    BY <2>1, Callers
<1>4. \A s \in Servers : s \in Peers /\ pc'[s] \notin {"boot", "failed"}
  BY Callers DEF QuietInv
<1>5. \A c \in Clients : c \in Peers
  BY Callers
<1> QED
  BY <1>2, <1>4, <1>5 DEF QuietInv, Ended

(* What a quiet step is to the clients: none of them learns anything, one  *)
(* collects an answer, or one is turned away after the first server ended. *)
Silent     == /\ result' = result
              /\ \A c \in Clients : pc'[c] = "failed" <=> pc[c] = "failed"
              /\ Ended(1) => Ended(1)'
TurnedAway == \E c \in Clients : /\ Ended(1)
                                 /\ pc[c] \notin {"done", "failed"}
                                 /\ pc' = [pc EXCEPT ![c] = "failed"]
                                 /\ result' = result

LEMMA QuietStep ==
  ASSUME Quiet, ChainInv, QuietInv, [Next]_vars
  PROVE  /\ QuietInv'
         /\ \A c \in Clients : buf'[c] = buf[c]
         /\ Silent \/ TurnedAway \/ \E c \in Clients : Collect(c)
<1> DEFINE Goal == /\ QuietInv'
                   /\ \A c \in Clients : buf'[c] = buf[c]
                   /\ Silent \/ TurnedAway \/ \E c \in Clients : Collect(c)
<1>0. TypeOK /\ ServerInv /\ ConnectionInv /\ OpenerInv
  BY DEF ChainInv
<1>s. ASSUME NEW s \in Servers, NEW l \in PcValues, pc' = [pc EXCEPT ![s] = l],
             pc[s] \notin {"done", "failed"}, result' = result
      PROVE  Silent
  BY <1>0, <1>s, Callers DEF Silent, TypeOK, Ended
<1>r. ASSUME NEW s \in Servers, NEW m \in Messages, Reads(s, m)
      PROVE  /\ pc[s] = "recv" /\ peer[s] \in Peers
             /\ toServer[peer[s]] = m
             /\ \A p \in Peers : toServer'[p] # Eof
             /\ \A c \in Clients : buf'[c] = buf[c]
  <2>1. pc[s] = "recv" /\ peer[s] \in Peers
    BY <1>0, <1>r, Values DEF Reads, ServerInv
  <2> QED
    BY <2>1, <1>0, <1>r, Callers, Tokens DEF Reads, QuietInv, TypeOK
<1>a. ASSUME NEW s \in Servers, NEW r \in Responses, Answer(s, r), peer[s] \in Peers,
             pc[s] \in {"recv", "wait"}, result' = result,
             \A p \in Peers : toServer'[p] # Eof,
             \A c \in Clients : buf'[c] = buf[c]
      PROVE  Goal
  <2>1. pc' = [pc EXCEPT ![s] = "accept"] /\ s \in Peers /\ "accept" \in PcValues
    BY <1>a, Callers DEF Answer, PcValues
  <2>2. \A p \in Peers : toClient'[p] = toClient[p] \/ toClient'[p] \notin {Eof, Reset}
    BY <1>0, <1>a, Tokens DEF Answer, TypeOK
  <2>3. pc'[s] = "accept" /\ \A q \in Peers : q # s => pc'[q] = pc[q]
    BY <1>0, <2>1 DEF TypeOK
  <2>4. \A c \in Clients : result'[c] = result[c]
    BY <1>a
  <2>5. QuietInv'
    BY <1>0, <1>a, <2>1, <2>2, <2>3, <2>4, QuietOther
  <2> QED
    BY <1>a, <1>s, <2>1, <2>5
<1>1. ASSUME NEW s \in Servers, Boot(s) PROVE Goal
  BY <1>1 DEF Boot, QuietInv
<1>2. ASSUME NEW s \in Servers, Accept(s) PROVE Goal
  <2>1. /\ pc' = [pc EXCEPT ![s] = "recv"] /\ pc[s] = "accept" /\ s \in Peers /\ "recv" \in PcValues
        /\ UNCHANGED <<buf, toServer, toClient, result>>
    BY <1>2, Callers DEF Accept, PcValues
  <2>2. QuietInv'
    BY <1>0, <2>1, QuietOther DEF QuietInv
  <2> QED
    BY <2>1, <2>2, <1>s
<1>3. ASSUME NEW s \in Servers, NEW m \in Messages, AnswerOwn(s, m) PROVE Goal
  <2>1. Reads(s, m) /\ Answer(s, Found(m, s)) /\ result' = result /\ Found(m, s) \in Responses
    BY <1>3, Replies DEF AnswerOwn
  <2> QED
    BY <2>1, <1>r, <1>a
<1>4. ASSUME NEW s \in Servers, NEW m \in Messages, AnswerMiss(s, m) PROVE Goal
  <2>1. Reads(s, m) /\ Answer(s, NotFound) /\ result' = result /\ NotFound \in Responses
    BY <1>4, Replies DEF AnswerMiss
  <2> QED
    BY <2>1, <1>r, <1>a
<1>5. ASSUME NEW s \in Servers, NEW m \in Messages, PassOn(s, m) PROVE Goal
  <2>1. /\ Reads(s, m) /\ UNCHANGED <<toClient, result>>
        /\ pc' = [pc EXCEPT ![s] = "dial"] /\ s \in Peers /\ "dial" \in PcValues
    BY <1>5, Callers DEF PassOn, PcValues
  <2>2. QuietInv'
    BY <1>0, <1>r, <2>1, QuietOther
  <2> QED
    BY <2>1, <2>2, <1>r, <1>s
<1>6. ASSUME NEW s \in Servers, NEW m \in Messages, StopLast(s, m) PROVE Goal
  <2>1. Reads(s, m) /\ Exit(s, "done") /\ result' = result /\ m = SHUTDOWN
    BY <1>6 DEF StopLast
  <2>2. toServer[peer[s]] = SHUTDOWN /\ peer[s] \in Peers /\ pc[s] = "recv"
    BY <2>1, <1>r
  <2>3. peer[s] \in Clients => pc[peer[s]] \notin {"send", "wait"}
    BY <1>0, <2>2, Tokens DEF OpenerInv, QuietInv
  <2>4. QuietInv'
    BY <2>1, <2>3, <1>r, QuietExit
  <2>5. pc' = [pc EXCEPT ![s] = "done"] /\ "done" \in PcValues
    BY <2>1 DEF Exit, PcValues
  <2> QED
    BY <2>1, <2>2, <2>4, <2>5, <1>r, <1>s
<1>7. ASSUME NEW s \in Servers, Return(s) PROVE Goal
  <2>1. pc[s] = "wait" /\ toClient[s] \in Responses \cup {Eof} /\ UNCHANGED <<buf, toServer, result>>
    BY <1>7 DEF Return
  <2>2. toClient[s] \in Responses
    BY <2>1, NextIsThere DEF Busy
  <2>3. Answer(s, toClient[s])
    BY <1>7, <2>2, Tokens DEF Return
  <2>4. peer[s] \in Peers
    BY <1>0, <2>1, Values DEF ServerInv, Busy
  <2> QED
    BY <2>1, <2>2, <2>3, <2>4, <1>a DEF QuietInv
<1>8. ASSUME NEW p \in Peers, Dial(p) PROVE Goal
  <2>1. /\ UNCHANGED <<buf, result>> /\ pc[p] = "dial" /\ "send" \in PcValues
        /\ pc' = [pc EXCEPT ![p] = "send"]
        /\ toServer' = [toServer EXCEPT ![p] = Nothing]
        /\ toClient' = [toClient EXCEPT ![p] = Nothing]
    BY <1>8 DEF Dial, PcValues
  <2>2. /\ \A q \in Peers : toServer'[q] # Eof
        /\ \A q \in Peers : toClient'[q] = toClient[q] \/ toClient'[q] \notin {Eof, Reset}
        /\ toClient'[p] # Eof
    BY <1>0, <2>1, Tokens DEF TypeOK, QuietInv
  <2>3. QuietInv'
    BY <1>0, <2>1, <2>2, QuietOther
  <2>4. Silent
    BY <1>0, <2>1, Callers DEF Silent, TypeOK, Ended
  <2> QED
    BY <2>1, <2>3, <2>4
<1>f. ASSUME NEW p \in Peers, Fail(p), pc[p] \in Busy, UNCHANGED <<buf, toServer, result>>,
             Ended(Target(p)) \/ toClient[p] = Reset
      PROVE  Goal
  <2>1. p \notin Servers
    BY <1>f, NextIsThere
  <2>2. Target(p) = 1 /\ Ended(1)
    BY <1>f, <2>1, Targets DEF QuietInv
  <2>3. pc' = [pc EXCEPT ![p] = "failed"] /\ toClient' = toClient /\ "failed" \in PcValues
    BY <1>f, <2>1 DEF Fail, PcValues
  <2>4. pc[p] \notin {"done", "failed"}
    BY <1>f DEF Busy
  <2>a. pc'[p] = "failed" /\ \A q \in Peers : q # p => pc'[q] = pc[q]
    BY <1>0, <2>3 DEF TypeOK
  <2>b. /\ \A c \in Clients : buf'[c] = buf[c] /\ result'[c] = result[c]
        /\ \A q \in Peers : toServer'[q] # Eof /\ toClient'[q] = toClient[q]
    BY <1>f, <2>3 DEF QuietInv
  <2>5. QuietInv'
    BY <1>0, <2>1, <2>4, <2>a, <2>b, QuietOther
  <2>6. CASE p \in Clients
    BY <1>f, <2>2, <2>3, <2>4, <2>5, <2>6 DEF TurnedAway
  <2>7. CASE p \notin Clients
    <3>1. Silent
      BY <1>0, <1>f, <2>3, <2>4, <2>7, Callers DEF Silent, TypeOK, Ended
    <3> QED
      BY <1>f, <2>5, <3>1
  <2> QED
    BY <2>6, <2>7
<1>9. ASSUME NEW p \in Peers, DialRefused(p) PROVE Goal
  <2>1. /\ pc[p] = "dial" /\ ~Listening(Target(p)) /\ Fail(p)
        /\ UNCHANGED <<buf, toServer, result>>
    BY <1>9 DEF DialRefused
  <2>2. p \in Servers => p # N
    BY <1>0, <2>1 DEF ServerInv, Busy
  <2>3. Target(p) \in Servers
    BY <2>2, Targets, Numbers
  <2>4. Ended(Target(p))
    BY <2>1, <2>3 DEF QuietInv, Listening, Ended
  <2> QED
    BY <2>1, <2>4, <1>f DEF Busy
<1>10. ASSUME NEW p \in Peers, SendName(p) PROVE Goal
  <2>1. /\ UNCHANGED <<buf, result>> /\ pc[p] = "send" /\ WantsAnswer(p) /\ "wait" \in PcValues
        /\ pc' = [pc EXCEPT ![p] = "wait"]
        /\ toServer' = [toServer EXCEPT ![p] = buf[p]]
        /\ toClient' = toClient \/ toClient[p] = Eof
    BY <1>10 DEF SendName, PcValues
  <2>2. p \in Clients \/ p \in Servers
    BY <1>0, <2>1, Callers DEF WantsAnswer, OpenerInv
  <2>3. toClient[p] # Eof
    BY <2>1, <2>2, NextIsThere DEF QuietInv, Busy
  <2>4. \A q \in Peers : toServer'[q] # Eof
    BY <1>0, <2>1, Values, Tokens DEF TypeOK, QuietInv
  <2>5. QuietInv'
    BY <1>0, <2>1, <2>3, <2>4, QuietOther
  <2>6. Silent
    BY <1>0, <2>1, Callers DEF Silent, TypeOK, Ended
  <2> QED
    BY <2>1, <2>5, <2>6
<1>11. ASSUME NEW p \in Peers, SendShutdown(p) PROVE Goal
  <2>1. /\ pc[p] = "send" /\ ~WantsAnswer(p) /\ UNCHANGED <<buf, result>>
        /\ toServer' = [toServer EXCEPT ![p] = SHUTDOWN]
    BY <1>11 DEF SendShutdown
  <2>2. p \notin Clients /\ buf[p] = SHUTDOWN
    BY <2>1 DEF WantsAnswer
  <2>3. \A q \in Peers : toServer'[q] # Eof
    BY <1>0, <2>1, Tokens DEF TypeOK, QuietInv
  <2>4. CASE p \in Servers /\ Exit(p, "done")
    <3>1. peer[p] \in Clients => pc[peer[p]] \notin {"send", "wait"}
      <4>1. pc[peer[p]] \in {"wait", "done", "failed"} /\ (pc[peer[p]] = "wait" => buf[peer[p]] = buf[p])
        BY <1>0, <2>1, <2>4 DEF ServerInv, Busy
      <4> QED
        BY <4>1, <2>2 DEF QuietInv
    <3>2. QuietInv'
      BY <2>1, <2>3, <2>4, <3>1, QuietExit
    <3>3. pc' = [pc EXCEPT ![p] = "done"] /\ "done" \in PcValues
      BY <2>4 DEF Exit, PcValues
    <3> QED
      BY <2>1, <2>4, <3>2, <3>3, <1>s
  <2>5. CASE p \in Shutters /\ pc' = [pc EXCEPT ![p] = "done"] /\ UNCHANGED <<backlog, peer, toClient>>
    <3>1. "done" \in PcValues /\ p \notin Servers
      BY <2>5, Callers DEF PcValues
    <3>a. pc'[p] = "done" /\ \A q \in Peers : q # p => pc'[q] = pc[q]
      BY <1>0, <2>5 DEF TypeOK
    <3>b. /\ \A c \in Clients : buf'[c] = buf[c] /\ result'[c] = result[c]
          /\ \A q \in Peers : toClient'[q] = toClient[q]
      BY <2>1, <2>5
    <3>2. QuietInv'
      BY <1>0, <2>1, <2>3, <3>1, <3>a, <3>b, QuietOther
    <3>3. Silent
      BY <1>0, <2>1, <2>2, <2>5, Callers DEF Silent, TypeOK, Ended
    <3> QED
      BY <2>1, <3>2, <3>3
  <2> QED
    BY <1>11, <2>4, <2>5 DEF SendShutdown
<1>12. ASSUME NEW p \in Peers, ConnectionLost(p) PROVE Goal
  BY <1>12, <1>f DEF ConnectionLost, Busy
<1>13. ASSUME NEW c \in Clients, Collect(c) PROVE Goal
  <2>1. /\ UNCHANGED <<buf, toServer, toClient>> /\ pc[c] = "wait" /\ "done" \in PcValues
        /\ pc' = [pc EXCEPT ![c] = "done"]
        /\ \A d \in Clients : result'[d] = result[d] \/ d = c
    BY <1>0, <1>13 DEF Collect, TypeOK, PcValues
  <2>a. pc'[c] = "done" /\ c \in Peers /\ c \notin Servers /\ \A q \in Peers : q # c => pc'[q] = pc[q]
    BY <1>0, <2>1, Callers DEF TypeOK
  <2>b. /\ \A d \in Clients : buf'[d] = buf[d]
        /\ \A q \in Peers : toServer'[q] # Eof /\ toClient'[q] = toClient[q]
    BY <2>1 DEF QuietInv
  <2>2. QuietInv'
    BY <1>0, <2>1, <2>a, <2>b, QuietOther
  <2> QED
    BY <1>13, <2>1, <2>2
<1>14. ASSUME NEW p \in Peers, Die(p) PROVE Goal
  BY <1>14 DEF Die, Quiet
<1>15. CASE UNCHANGED vars
  BY <1>15 DEF vars, QuietInv, Silent, Ended
<1> QED
  BY <1>1, <1>2, <1>3, <1>4, <1>5, <1>6, <1>7, <1>8, <1>9, <1>10, <1>11,
     <1>12, <1>13, <1>14, <1>15
  DEF Next, Step, ServerStep, OpenerStep, Collect, Return

(* What a client collects is an answer the directory allows, given once.   *)
LEMMA CollectResolves ==
  ASSUME Quiet, ChainInv, QuietInv, NEW c \in Clients, Collect(c)
  PROVE  /\ result' = [result EXCEPT ![c] = toClient[c]]
         /\ toClient[c] \in Directory!RightAnswers(buf[c])
<1>1. /\ pc[c] = "wait" /\ toClient[c] \in Responses /\ toClient[c] # Eof
      /\ buf[c] \in Names /\ Target(c) = 1 /\ Asking(c)
  BY Callers, Targets, Tokens DEF Collect, QuietInv, ChainInv, AnswerInv, Asking
<1>2. result' = [result EXCEPT ![c] = toClient[c]]
  BY <1>1 DEF Collect
<1>3. \A s \in Servers : pc[s] # "failed"
  BY DEF QuietInv
<1>4. \A t \in HostedAt[buf[c]] : t \in Servers /\ t >= 1
  BY <1>1, Texts, Numbers
<1>5. CASE toClient[c] = NotFound
  <2>1. HostedAt[buf[c]] = {}
    BY <1>1, <1>3, <1>4, <1>5, Callers DEF ChainInv, MissInv, SomeFailed
  <2>2. HostedAt[buf[c]] \cap Directory!Servers = {}
    BY <2>1
  <2> QED
    BY <1>2, <1>5, <2>2 DEF Directory!RightAnswers, Directory!NotFound, NotFound
<1>6. CASE toClient[c] # NotFound
  <2>1. FirstFrom(1, buf[c], toClient[c])
    BY <1>1, <1>6, Callers DEF ChainInv, AnswerInv
  <2>2. PICK s \in Servers : /\ toClient[c] = Found(buf[c], s) /\ s \in HostedAt[buf[c]]
                             /\ \A t \in HostedAt[buf[c]] : t >= 1 => s <= t
    BY <2>1 DEF FirstFrom
  <2>3. Directory!IsFirstHost(buf[c], s) /\ s \in Directory!Servers
    BY <2>2, <1>4 DEF Directory!IsFirstHost, Directory!Servers, Servers
  <2>4. toClient[c] = Directory!Found(buf[c], s)
    BY <2>2 DEF Directory!Found, Found
  <2>5. HostedAt[buf[c]] \cap Directory!Servers # {}
    BY <2>2, <2>3
  <2> QED
    BY <1>2, <2>3, <2>4, <2>5 DEF Directory!RightAnswers
<1> QED
  BY <1>2, <1>5, <1>6

(* The safety part of ImplementsDirectory: initial states map to initial   *)
(* states, and every step to Close, a Resolve, a Refuse or a stutter.      *)
THEOREM ChainImplementsDirectory ==
  ASSUME Quiet
  PROVE  Spec => Directory!DirSafe
<1> DEFINE asked  == [c \in Clients |-> buf[c]]
           answer == [c \in Clients |-> IF pc[c] = "failed" THEN Reset ELSE result[c]]
<1>1. ASSUME Init PROVE Directory!DirInit
  <2>1. asked \in [Clients -> Names]
    BY <1>1, Callers DEF Init, Quiet
  <2>2. answer = [c \in Clients |-> Nothing]
    BY <1>1, Callers DEF Init
  <2>3. ~Ended(1)
    BY <1>1, Callers, Numbers DEF Init, Quiet, Ended
  <2> QED
    BY <2>1, <2>2, <2>3 DEF Directory!DirInit
<1>2. ASSUME ChainInv, QuietInv, [Next]_vars PROVE [Directory!DirNext]_(Directory!dirVars)
  <2>0. TypeOK
    BY <1>2 DEF ChainInv
  <2>1. asked' = asked
    BY <1>2, QuietStep
  <2>2. CASE Silent
    <3>1. answer' = answer /\ (Ended(1) => Ended(1)')
      BY <2>2 DEF Silent
    <3>2. Ended(1) \in BOOLEAN /\ Ended(1)' \in BOOLEAN
      BY DEF Ended
    <3>3. CASE Ended(1)' = Ended(1)
      BY <2>1, <3>1, <3>3 DEF Directory!dirVars
    <3>4. CASE ~Ended(1) /\ Ended(1)' = TRUE
      BY <2>1, <3>1, <3>4 DEF Directory!DirNext, Directory!Close
    <3> QED
      BY <3>1, <3>2, <3>3, <3>4
  <2>3. ASSUME NEW c \in Clients, Collect(c) PROVE Directory!Resolve(c)
    <3>1. pc[c] = "wait" /\ pc' = [pc EXCEPT ![c] = "done"] /\ c # 1 /\ c \in Peers
      BY <2>3, Callers, Numbers DEF Collect
    <3>2. result[c] = Nothing
      BY <1>2, <3>1 DEF QuietInv
    <3>3. Ended(1)' = Ended(1)
      BY <2>0, <3>1 DEF Ended, TypeOK
    <3>4. answer[c] = Nothing /\ answer' = [answer EXCEPT ![c] = toClient[c]]
      BY <1>2, <2>0, <2>3, <3>1, <3>2, CollectResolves, Callers DEF TypeOK
    <3> QED
      BY <1>2, <2>1, <2>3, <3>3, <3>4, CollectResolves DEF Directory!Resolve
  <2>4. ASSUME TurnedAway PROVE \E c \in Clients : Directory!Refuse(c)
    <3>1. PICK c \in Clients : /\ Ended(1) /\ pc[c] \notin {"done", "failed"}
                               /\ pc' = [pc EXCEPT ![c] = "failed"] /\ result' = result
      BY <2>4 DEF TurnedAway
    <3>2. c # 1 /\ c \in Peers
      BY Callers, Numbers
    <3>3. Ended(1)' = Ended(1)
      BY <2>0, <3>1, <3>2 DEF Ended, TypeOK
    <3>4. answer[c] = Nothing /\ answer' = [answer EXCEPT ![c] = Reset]
      BY <1>2, <2>0, <3>1, <3>2, Callers DEF QuietInv, TypeOK
    <3> QED
      BY <2>1, <3>1, <3>3, <3>4 DEF Directory!Refuse
  <2>5. Silent \/ TurnedAway \/ \E c \in Clients : Collect(c)
    BY <1>2, QuietStep
  <2> QED
    BY <2>2, <2>3, <2>4, <2>5 DEF Directory!DirNext
<1>3. Spec => []QuietInv
  <2>1. Init => QuietInv
    BY QuietInit
  <2>2. ChainInv /\ QuietInv /\ [Next]_vars => QuietInv'
    BY QuietStep
  <2> QED
    BY <2>1, <2>2, ChainInvariant, PTL DEF Spec
<1> QED
  BY <1>1, <1>2, <1>3, ChainInvariant, PTL DEF Spec, Directory!DirSafe
-----------------------------------------------------------------------------
(* Nobody is killed and no client asks for the empty text, so the empty    *)
(* text on a connection, or at a server that is about to pass something    *)
(* on, was once sent by a shutdownAllServers that ran to its end.          *)
Civil == Mortal = {} /\ ClientTexts \subseteq Names

Requested == \E h \in Shutters : pc[h] = "done"

RequestInv ==
  /\ \A p \in Peers : /\ toServer[p] # Eof
                      /\ toServer[p] = SHUTDOWN => Requested
  /\ \A c \in Clients : buf[c] # SHUTDOWN
  /\ \A s \in Servers : Stopping(s) => Requested

LEMMA RequestInit == Civil /\ Init => RequestInv
<1> SUFFICES ASSUME Civil, Init PROVE RequestInv
  OBVIOUS
<1>1. \A p \in Peers : toServer[p] = Nothing
  BY DEF Init
<1>2. \A c \in Clients : buf[c] # SHUTDOWN
  BY Texts DEF Init, Civil
<1>3. \A s \in Servers : pc[s] \in {"boot", "accept"}
  BY Callers DEF Init
<1> QED
  BY <1>1, <1>2, <1>3, Tokens DEF RequestInv, Stopping

(* A process that moves to a state that is not done, keeping the texts,    *)
(* keeps RequestInv if it does not begin to stop.                          *)
LEMMA RequestKept ==
  ASSUME TypeOK, RequestInv, NEW p \in Peers, NEW l \in PcValues,
         pc' = [pc EXCEPT ![p] = l], pc[p] # "done",
         NEW q \in Peers, NEW t \in Messages \cup {Nothing},
         toServer' = toServer \/ toServer' = [toServer EXCEPT ![q] = t],
         t = SHUTDOWN => Requested',
         \A x \in Peers \ {p} : buf'[x] = buf[x],
         p \in Servers \/ buf'[p] = buf[p],
         p \in Servers /\ Stopping(p)' => Requested'
  PROVE  RequestInv'
<1>1. Requested => Requested'
  BY Callers DEF Requested, TypeOK
<1>2. \A x \in Peers : /\ toServer'[x] # Eof
                       /\ toServer'[x] = SHUTDOWN => Requested'
  BY <1>1, Tokens DEF RequestInv, TypeOK
<1>3. \A c \in Clients : buf'[c] # SHUTDOWN
  BY Callers DEF RequestInv
<1>4. \A s \in Servers : Stopping(s)' => Requested'
  <2> SUFFICES ASSUME NEW s \in Servers, s # p, Stopping(s)' PROVE Requested'
    OBVIOUS
  <2>1. pc'[s] = pc[s] /\ buf'[s] = buf[s]
    BY Callers DEF TypeOK
  <2>2. Stopping(s)
    BY <2>1 DEF Stopping
  <2> QED
    BY <1>1, <2>2 DEF RequestInv
<1> QED
  BY <1>2, <1>3, <1>4 DEF RequestInv

LEMMA RequestStep ==
  ASSUME Civil, ChainInv, RequestInv, [Next]_vars
  PROVE  RequestInv'
<1>0. TypeOK /\ ServerInv /\ OpenerInv
  BY DEF ChainInv
<1> USE Callers DEF PcValues
<1>r. ASSUME NEW s \in Servers, NEW m \in Messages, Reads(s, m)
      PROVE  /\ pc[s] = "recv" /\ peer[s] \in Peers /\ s \in Peers
             /\ toServer' = [toServer EXCEPT ![peer[s]] = Nothing]
             /\ Nothing # SHUTDOWN
             /\ \A x \in Peers \ {s} : buf'[x] = buf[x]
             /\ buf'[s] = m
             /\ m = SHUTDOWN => Requested
  <2>1. pc[s] = "recv" /\ peer[s] \in Peers
    BY <1>0, <1>r DEF Reads, TypeOK, ServerInv
  <2>2. toServer[peer[s]] = m
    BY <1>r, <2>1 DEF Reads, RequestInv
  <2> QED
    BY <1>0, <1>r, <2>1, <2>2, Tokens DEF Reads, RequestInv, TypeOK
<1>s. ASSUME NEW s \in Servers, pc[s] # "done" PROVE Requested => (\A l : pc' = [pc EXCEPT ![s] = l] => Requested')
  BY <1>0 DEF Requested, TypeOK
<1>a. ASSUME NEW s \in Servers, NEW m \in Messages, Reads(s, m), pc' = [pc EXCEPT ![s] = "accept"]
      PROVE  RequestInv'
  <2>1. ~Stopping(s)'
    BY <1>0, <1>a DEF Stopping, TypeOK
  <2> QED
    BY <1>0, <1>r, <1>a, <2>1, RequestKept
<1>1. ASSUME NEW s \in Servers, Boot(s) PROVE RequestInv'
  <2>1. ~Stopping(s)'
    BY <1>0, <1>1 DEF Boot, Stopping, TypeOK
  <2> QED
    BY <1>0, <1>1, <2>1, RequestKept, Tokens DEF Boot
<1>2. ASSUME NEW s \in Servers, Accept(s) PROVE RequestInv'
  <2>1. ~Stopping(s)'
    BY <1>0, <1>2 DEF Accept, Stopping, TypeOK
  <2> QED
    BY <1>0, <1>2, <2>1, RequestKept, Tokens DEF Accept
<1>3. ASSUME NEW s \in Servers, NEW m \in Messages, AnswerOwn(s, m) PROVE RequestInv'
  BY <1>3, <1>a DEF AnswerOwn, Answer
<1>4. ASSUME NEW s \in Servers, NEW m \in Messages, AnswerMiss(s, m) PROVE RequestInv'
  BY <1>4, <1>a DEF AnswerMiss, Answer
<1>5. ASSUME NEW s \in Servers, NEW m \in Messages, PassOn(s, m) PROVE RequestInv'
  <2>1. Reads(s, m) /\ pc' = [pc EXCEPT ![s] = "dial"]
    BY <1>5 DEF PassOn
  <2>2. Stopping(s)' => Requested'
    BY <1>0, <1>r, <1>s, <2>1 DEF Stopping, TypeOK
  <2> QED
    BY <1>0, <1>r, <2>1, <2>2, RequestKept
<1>6. ASSUME NEW s \in Servers, NEW m \in Messages, StopLast(s, m) PROVE RequestInv'
  <2>1. Reads(s, m) /\ m = SHUTDOWN /\ pc' = [pc EXCEPT ![s] = "done"]
    BY <1>6 DEF StopLast, Exit
  <2>2. Requested'
    BY <1>r, <1>s, <2>1
  <2> QED
    BY <1>0, <1>r, <2>1, <2>2, RequestKept
<1>7. ASSUME NEW s \in Servers, Return(s) PROVE RequestInv'
  <2>1. pc[s] = "wait" /\ pc' = [pc EXCEPT ![s] = "accept"] /\ UNCHANGED <<buf, toServer>>
    BY <1>7 DEF Return, Answer
  <2>2. ~Stopping(s)'
    BY <1>0, <2>1 DEF Stopping, TypeOK
  <2> QED
    BY <1>0, <2>1, <2>2, RequestKept, Tokens
<1>8. ASSUME NEW p \in Peers, Dial(p) PROVE RequestInv'
  <2>1. /\ pc[p] = "dial" /\ pc' = [pc EXCEPT ![p] = "send"] /\ buf' = buf
        /\ toServer' = [toServer EXCEPT ![p] = Nothing]
    BY <1>8 DEF Dial
  <2>2. p \in Servers /\ Stopping(p)' => Requested'
    BY <1>0, <1>s, <2>1 DEF Stopping, TypeOK, RequestInv
  <2> QED
    BY <1>0, <2>1, <2>2, RequestKept, Tokens
<1>f. ASSUME NEW p \in Peers, Fail(p), pc[p] # "done", UNCHANGED <<buf, toServer>>
      PROVE  RequestInv'
  <2>1. pc' = [pc EXCEPT ![p] = "failed"]
    BY <1>f DEF Fail, Exit
  <2>2. ~Stopping(p)'
    BY <1>0, <2>1 DEF Stopping, TypeOK
  <2> QED
    BY <1>0, <1>f, <2>1, <2>2, RequestKept, Tokens
<1>9. ASSUME NEW p \in Peers, DialRefused(p) PROVE RequestInv'
  BY <1>9, <1>f DEF DialRefused
<1>10. ASSUME NEW p \in Peers, SendName(p) PROVE RequestInv'
  <2>1. /\ pc[p] = "send" /\ pc' = [pc EXCEPT ![p] = "wait"] /\ buf' = buf
        /\ toServer' = [toServer EXCEPT ![p] = buf[p]]
    BY <1>10 DEF SendName
  <2>2. buf[p] # SHUTDOWN /\ buf[p] \in Messages
    BY <1>0, <1>10 DEF SendName, WantsAnswer, RequestInv, TypeOK
  <2>3. ~Stopping(p)'
    BY <1>0, <2>1 DEF Stopping, TypeOK
  <2> QED
    BY <1>0, <2>1, <2>2, <2>3, RequestKept
<1>11. ASSUME NEW p \in Peers, SendShutdown(p) PROVE RequestInv'
  <2>1. /\ pc[p] = "send" /\ ~WantsAnswer(p) /\ buf' = buf
        /\ pc' = [pc EXCEPT ![p] = "done"] /\ p \in Servers \cup Shutters
        /\ toServer' = [toServer EXCEPT ![p] = SHUTDOWN]
    BY <1>11 DEF SendShutdown, Exit
  <2>2. Requested'
    <3>1. CASE p \in Shutters
      BY <1>0, <2>1, <3>1 DEF Requested, TypeOK
    <3>2. CASE p \in Servers
      BY <1>s, <2>1, <3>2 DEF WantsAnswer, Stopping, RequestInv
    <3> QED
      BY <2>1, <3>1, <3>2
  <2> QED
    BY <1>0, <2>1, <2>2, RequestKept, Texts
<1>12. ASSUME NEW p \in Peers, ConnectionLost(p) PROVE RequestInv'
  BY <1>12, <1>f DEF ConnectionLost
<1>13. ASSUME NEW c \in Clients, Collect(c) PROVE RequestInv'
  BY <1>0, <1>13, RequestKept, Tokens DEF Collect
<1>14. ASSUME NEW p \in Peers, Die(p) PROVE RequestInv'
  BY <1>14 DEF Die, Civil
<1>15. CASE UNCHANGED vars
  BY <1>15 DEF vars, RequestInv, Requested, Stopping
<1> QED
  BY <1>1, <1>2, <1>3, <1>4, <1>5, <1>6, <1>7, <1>8, <1>9, <1>10, <1>11,
     <1>12, <1>13, <1>14, <1>15
  DEF Next, Step, ServerStep, OpenerStep, Collect, Return

(* No server stops unless a shutdownAllServers ran to its end, whichever   *)
(* servers were up when it did.                                            *)
THEOREM StopsAreRequested == ASSUME Civil PROVE Spec => []StopsOnlyOnRequest
<1>1. ASSUME RequestInv PROVE StopsOnlyOnRequest
  BY <1>1 DEF RequestInv, Requested, StopsOnlyOnRequest
<1>2. Init => RequestInv
  BY RequestInit
<1>3. ChainInv /\ RequestInv /\ [Next]_vars => RequestInv'
  BY RequestStep
<1> QED
  BY <1>1, <1>2, <1>3, ChainInvariant, PTL DEF Spec

-----------------------------------------------------------------------------
(* What a client has printed is an answer: nobody answers, resets or       *)
(* reopens a connection whose client is done.                              *)
PrintInv == \A c \in Clients : pc[c] = "done" => toClient[c] \in Responses

LEMMA PrintStep ==
  ASSUME Quiet, ChainInv, QuietInv, PrintInv, [Next]_vars
  PROVE  PrintInv'
<1> SUFFICES ASSUME NEW c \in Clients, pc'[c] = "done" PROVE toClient'[c] \in Responses
  BY DEF PrintInv
<1>0. TypeOK /\ ConnectionInv /\ ServerInv
  BY DEF ChainInv
<1>c. c \in Peers /\ c \notin Servers /\ c \notin Shutters
  BY Callers
<1>k. ASSUME pc[c] = "done"
      PROVE  \A s \in Servers : c \notin Queued(s) /\ c # peer[s]
  BY <1>0, <1>c, <1>k DEF ConnectionInv
<1>1. CASE pc[c] = "done"
  <2>0. toClient[c] \in Responses
    BY <1>1 DEF PrintInv
  <2>a. ASSUME NEW s \in Servers, NEW r, Answer(s, r) PROVE toClient'[c] = toClient[c]
    BY <1>0, <1>1, <1>k, <2>a, <1>c DEF Answer, TypeOK
  <2>e. ASSUME NEW s \in Servers, NEW how, Exit(s, how) PROVE toClient'[c] = toClient[c]
    BY <1>1, <1>k, <2>e, <1>c DEF Exit
  <2>f. ASSUME NEW p \in Peers, Fail(p) PROVE toClient'[c] = toClient[c]
    BY <2>e, <2>f DEF Fail
  <2>1. ASSUME NEW s \in Servers, ServerStep(s) PROVE toClient'[c] = toClient[c]
    BY <2>1, <2>a, <2>e DEF ServerStep, Boot, Accept, AnswerOwn, AnswerMiss, PassOn, StopLast, Return
  <2>2. ASSUME NEW p \in Peers, Dial(p) PROVE toClient'[c] = toClient[c]
    BY <1>0, <1>1, <1>c, <2>2 DEF Dial, TypeOK
  <2>3. ASSUME NEW p \in Peers, SendName(p) PROVE toClient'[c] = toClient[c]
    BY <1>0, <1>1, <1>c, <2>3 DEF SendName, TypeOK
  <2>4. ASSUME NEW p \in Peers, DialRefused(p) \/ SendShutdown(p) \/ ConnectionLost(p) \/ Collect(p)
        PROVE  toClient'[c] = toClient[c]
    BY <2>4, <2>e, <2>f DEF DialRefused, SendShutdown, ConnectionLost, Collect
  <2>5. ASSUME NEW p \in Peers, Die(p) PROVE FALSE
    BY <2>5 DEF Die, Quiet
  <2> QED
    BY <2>0, <2>1, <2>2, <2>3, <2>4, <2>5 DEF Next, Step, OpenerStep, vars
<1>2. CASE pc[c] # "done"
  <2>f. ASSUME NEW p \in Peers, Fail(p) PROVE FALSE
    BY <1>0, <1>2, <1>c, <2>f DEF Fail, Exit, TypeOK
  <2>1. ASSUME NEW s \in Servers, ServerStep(s) PROVE FALSE
    BY <1>0, <1>2, <1>c, <2>1
    DEF ServerStep, Boot, Accept, AnswerOwn, AnswerMiss, PassOn, StopLast, Return, Answer, Exit, TypeOK
  <2>2. ASSUME NEW p \in Peers, Dial(p) \/ SendName(p) \/ SendShutdown(p) PROVE FALSE
    BY <1>0, <1>2, <1>c, <2>2 DEF Dial, SendName, SendShutdown, Exit, TypeOK
  <2>3. ASSUME NEW p \in Peers, DialRefused(p) \/ ConnectionLost(p) PROVE FALSE
    BY <2>3, <2>f DEF DialRefused, ConnectionLost
  <2>4. ASSUME NEW p \in Clients, Collect(p) PROVE toClient'[c] \in Responses
    BY <1>0, <1>2, <1>c, <2>4 DEF Collect, TypeOK, QuietInv
  <2>5. ASSUME NEW p \in Peers, Die(p) PROVE FALSE
    BY <2>5 DEF Die, Quiet
  <2> QED
    BY <1>2, <2>1, <2>2, <2>3, <2>4, <2>5 DEF Next, Step, OpenerStep, Collect, vars
<1> QED
  BY <1>1, <1>2

(* A client that ran to its end has read an answer a server sent it, when  *)
(* nobody is killed and every server was up: no end of a stream is taken   *)
(* for an answer.                                                          *)
THEOREM PrintsOnlyAnswers == ASSUME Quiet PROVE Spec => []PrintsWhatItReceived
<1>1. ASSUME PrintInv PROVE PrintsWhatItReceived
  BY <1>1 DEF PrintInv, PrintsWhatItReceived, Heard
<1>2. Init => PrintInv
  BY Callers DEF Init, PrintInv
<1>3. Spec => []QuietInv
  <2>1. Init => QuietInv
    BY QuietInit
  <2>2. ChainInv /\ QuietInv /\ [Next]_vars => QuietInv'
    BY QuietStep
  <2> QED
    BY <2>1, <2>2, ChainInvariant, PTL DEF Spec
<1>4. ChainInv /\ QuietInv /\ PrintInv /\ [Next]_vars => PrintInv'
  BY PrintStep
<1> QED
  BY <1>1, <1>2, <1>3, <1>4, ChainInvariant, PTL DEF Spec

-----------------------------------------------------------------------------
(***************************************************************************)
(* ServerStarter, for any number of lines of dns.url, any failed forks and *)
(* a program that is there or not: starting the chain with startAllServers *)
(* keeps all that holds of the chain, and no starter ends before what it   *)
(* forked.                                                                 *)
(*                                                                         *)
(* waitpid() is called as often as there were forks, and not always for    *)
(* the child whose turn it is.  The argument is that a child that is       *)
(* passed over was taken by an earlier call; and that the name of a        *)
(* starter, which is made of lines that only grow, is given once.          *)
(***************************************************************************)

(* The lines at whose fork a starter arose are behind it, and those of its *)
(* further children before it.                                             *)
NameInv ==
  /\ \A S \in Starters : place[S] = "fork" =>
       /\ \A e \in S : e < line[S]
       /\ \A t \in Servers : t >= line[S] => place[S \cup {t}] = "none"
  /\ \A S \in Starters, t \in Servers :
       (\A e \in S : e < t) /\ place[S \cup {t}] # "none" => place[S] # "none"

(* Who is left to be waited for, and who was.                              *)
WaitInv ==
  \A S \in Starters :
    /\ place[S] = "wait" => \A s \in Own(S) : s >= line[S]
    /\ place[S] = "done" => Own(S) = {}
    /\ \A s \in reaped[S] : ChildEnded(S, s)

StarterInv == TypeOK /\ StarterTypeOK /\ NameInv /\ WaitInv

LEMMA Lines == N \in Nat \ {0} /\ Servers \subseteq Nat /\ Servers = 1..N
BY ChainAssumption DEF Servers

LEMMA EndedStays ==
  ASSUME TypeOK, [Next]_vars, NEW s \in Servers, Ended(s)
  PROVE  Ended(s)'
<1>1. pc \in [Peers -> PcValues] /\ s \in Peers /\ pc[s] \in {"done", "failed"}
  BY Callers DEF TypeOK, Ended
<1>2. SUFFICES pc'[s] = pc[s] \/ pc'[s] \in {"done", "failed"}
  BY <1>1 DEF Ended
<1>3. ASSUME NEW p \in Servers, NEW m \in Messages,
             \/ Boot(p) \/ Accept(p) \/ AnswerOwn(p, m) \/ AnswerMiss(p, m)
             \/ PassOn(p, m) \/ StopLast(p, m) \/ Return(p)
      PROVE  pc'[s] = pc[s]
  <2>1. pc[p] \in {"boot", "accept", "recv", "wait"}
    BY <1>3 DEF Boot, Accept, AnswerOwn, AnswerMiss, PassOn, StopLast, Return, Reads
  <2>2. \E how \in PcValues : pc' = [pc EXCEPT ![p] = how]
    BY <1>3 DEF Boot, Accept, AnswerOwn, AnswerMiss, PassOn, StopLast, Return, Answer,
                Exit, PcValues
  <2> QED BY <1>1, <2>1, <2>2
<1>4. ASSUME NEW p \in Peers,
             \/ Dial(p) \/ DialRefused(p) \/ SendName(p) \/ SendShutdown(p)
             \/ ConnectionLost(p) \/ Die(p) \/ (p \in Clients /\ Collect(p))
      PROVE  pc'[s] = pc[s]
  <2>1. pc[p] \notin {"done", "failed"}
    BY <1>4 DEF Dial, DialRefused, SendName, SendShutdown, ConnectionLost, Die, Collect
  <2>2. \E how \in PcValues : pc' = [pc EXCEPT ![p] = how]
    BY <1>4 DEF Dial, DialRefused, SendName, SendShutdown, ConnectionLost, Die, Collect,
                Fail, Exit, PcValues
  <2> QED BY <1>1, <2>1, <2>2
<1>5. CASE UNCHANGED vars
  BY <1>5 DEF vars
<1>6. ASSUME NEW p \in Peers, Step(p) \/ Die(p)
      PROVE  pc'[s] = pc[s]
  <2>1. CASE p \in Servers /\ ServerStep(p)
    BY <1>3, <2>1, Texts DEF ServerStep
  <2>2. CASE OpenerStep(p) \/ Die(p)
    BY <1>4, <2>2 DEF OpenerStep, Collect
  <2> QED BY <1>6, <2>1, <2>2 DEF Step
<1> QED BY <1>5, <1>6 DEF Next

LEMMA StarterInitially == StarterInit => StarterInv
<1> SUFFICES ASSUME StarterInit PROVE StarterInv
  OBVIOUS
<1>1. TypeOK
  BY InitTyped DEF StarterInit
<1>2. StarterTypeOK
  BY Lines DEF StarterInit, StarterTypeOK
<1>3. NameInv
  <2>1. \A S \in Starters, t \in Servers : S \cup {t} \in Starters /\ S \cup {t} # {}
    BY DEF Starters
  <2> QED BY <2>1 DEF StarterInit, NameInv
<1>4. WaitInv
  BY DEF StarterInit, WaitInv, Own
<1> QED BY <1>1, <1>2, <1>3, <1>4 DEF StarterInv

(* What follows while the starters do nothing.                             *)
LEMMA ChainStepKeeps ==
  ASSUME StarterInv, [Next]_vars, UNCHANGED starter
  PROVE  StarterInv'
<1>1. TypeOK'
  BY StepTyped DEF StarterInv
<1>2. UNCHANGED <<missing, place, line, pid, reaped>>
  BY DEF starter
<1>3. StarterTypeOK' /\ NameInv'
  BY <1>2 DEF StarterInv, StarterTypeOK, NameInv
<1>4. \A s \in Servers : Ended(s) => Ended(s)'
  BY EndedStays DEF StarterInv
<1>5. \A S \in Starters : reaped[S] \subseteq Servers
  BY DEF StarterInv, StarterTypeOK
<1>6. WaitInv'
  BY <1>2, <1>4, <1>5 DEF StarterInv, WaitInv, Own, ChildEnded
<1> QED BY <1>1, <1>3, <1>6 DEF StarterInv

(* A name is given to one starter only.                                    *)
LEMMA NamesDiffer ==
  ASSUME NEW S \in Starters, NEW T \in Starters, NEW s \in Servers, NEW t \in Servers,
         \A e \in S : e < s, \A e \in T : e < t, S \cup {s} = T \cup {t}
  PROVE  S = T /\ s = t
<1>1. S \subseteq Nat /\ T \subseteq Nat /\ s \in Nat /\ t \in Nat
  BY Lines DEF Starters
<1>2. s = t
  BY <1>1
<1> QED BY <1>1, <1>2

LEMMA ForkServerKeeps ==
  ASSUME StarterInv, NEW S \in Starters, ForkServer(S)
  PROVE  StarterInv'
<1> DEFINE s == line[S]
           C == S \cup {s}
<1>a. place[S] = "fork" /\ line[S] <= N /\ line[S] \in 1..(N + 1)
  BY DEF StarterInv, StarterTypeOK, ForkServer
<1>b. s \in Servers /\ s + 1 \in 1..(N + 1)
  BY <1>a, Lines
<1>1. place[S] = "fork" /\ s \in Servers /\ s + 1 \in 1..(N + 1) /\ C \in Starters
  BY <1>a, <1>b DEF Starters
<1>2. UNCHANGED <<vars, missing, reaped>>
  BY DEF ForkServer
<1>3. \A e \in S : e < s
  BY <1>1 DEF StarterInv, NameInv
<1>4. place[C] = "none"
  <2>1. s >= line[S]
    BY <1>1, Lines
  <2> QED BY <1>1, <2>1 DEF StarterInv, NameInv
<1>5. S # C
  BY <1>1, <1>4
<1>6. TypeOK'
  BY <1>2 DEF StarterInv, TypeOK, vars
<1> HIDE DEF s, C
<1>7. /\ line' \in [Starters -> 1..(N + 1)] /\ line'[S] = s + 1
      /\ \A T \in Starters : T # S /\ T # C => line'[T] = line[T]
      /\ place' \in [Starters -> {"none", "fork", "wait", "done"}]
      /\ \A T \in Starters : T # C => place'[T] = place[T]
      /\ place'[C] = "none" \/ (place'[C] = "fork" /\ line'[C] = s + 1)
      /\ pid' \in [Starters -> [Servers -> {"unset", "own", "copied", "zero", "error"}]]
      /\ \A T \in Starters : T # S /\ T # C => pid'[T] = pid[T]
  <2>1. CopyFor(S, s) \in [Servers -> {"unset", "own", "copied", "zero", "error"}]
    BY <1>1 DEF CopyFor, StarterInv, StarterTypeOK
  <2>2. CASE missing
    <3>1. /\ place' = [place EXCEPT ![C] = "fork"]
          /\ line' = [line EXCEPT ![S] = s + 1, ![C] = s + 1]
          /\ pid' = [pid EXCEPT ![S][s] = "own", ![C] = CopyFor(S, s)]
      BY <2>2 DEF ForkServer, s, C
    <3> QED BY <1>1, <1>5, <2>1, <3>1 DEF StarterInv, StarterTypeOK
  <2>3. CASE ~missing
    <3>1. /\ place' = place
          /\ line' = [line EXCEPT ![S] = s + 1]
          /\ pid' = [pid EXCEPT ![S][s] = "own"]
      BY <2>3 DEF ForkServer, s, C
    <3> QED BY <1>1, <1>4, <3>1 DEF StarterInv, StarterTypeOK
  <2> QED BY <2>2, <2>3
<1>8. StarterTypeOK'
  BY <1>2, <1>7 DEF StarterInv, StarterTypeOK
<1>9. NameInv'
  <2>1. ASSUME NEW T \in Starters, place'[T] = "fork"
        PROVE  \A e \in T : e < line'[T]
    <3>1. CASE T = S \/ T = C
      <4>1. line'[T] = s + 1
        BY <1>4, <1>7, <2>1, <3>1
      <4>2. \A e \in T : e = s \/ e < s
        BY <1>3, <3>1 DEF C
      <4>3. T \subseteq Nat /\ s \in Nat
        BY <1>1, Lines DEF Starters
      <4> QED BY <4>1, <4>2, <4>3
    <3>2. CASE T # S /\ T # C
      BY <1>7, <2>1, <3>2 DEF StarterInv, NameInv
    <3> QED BY <3>1, <3>2
  <2>2. ASSUME NEW T \in Starters, place'[T] = "fork", NEW t \in Servers, t >= line'[T]
        PROVE  place'[T \cup {t}] = "none"
    <3>1. T \cup {t} \in Starters
      BY DEF Starters
    <3>2. \A e \in T : e < t
      BY <2>1, <2>2, Lines, <1>7 DEF Starters
    <3>3. T \cup {t} # C
      <4>1. CASE T \cup {t} = C
        <5>1. T = S /\ t = s
          BY <1>1, <1>3, <3>2, <4>1, NamesDiffer DEF C
        <5> QED BY <1>1, <1>7, <2>2, <5>1, Lines
      <4> QED BY <4>1
    <3>4. place'[T \cup {t}] = place[T \cup {t}]
      BY <1>7, <3>1, <3>3
    <3>5. CASE T = C
      <4>1. C = S \cup {s} /\ place[S \cup {s}] = "none"
        BY <1>4 DEF C
      <4>2. place[T \cup {t}] # "none" => place[T] # "none"
        BY <3>2 DEF StarterInv, NameInv
      <4> QED BY <1>4, <3>4, <3>5, <4>2
    <3>6. CASE T # C
      <4>1. place[T] = "fork"
        BY <1>7, <2>2, <3>6
      <4>2. CASE T = S
        <5>1. t \in Nat /\ s \in Nat /\ t >= s + 1
          BY <1>1, <1>7, <2>2, <4>2, Lines
        <5>2. t >= line[S]
          BY <5>1 DEF s
        <5> QED BY <3>4, <4>1, <4>2, <5>2 DEF StarterInv, NameInv
      <4>3. CASE T # S
        <5>1. t >= line[T]
          BY <1>7, <2>2, <3>6, <4>3
        <5> QED BY <3>4, <4>1, <5>1 DEF StarterInv, NameInv
      <4> QED BY <4>2, <4>3
    <3> QED BY <3>5, <3>6
  <2>3. ASSUME NEW T \in Starters, NEW t \in Servers, \A e \in T : e < t,
               place'[T \cup {t}] # "none"
        PROVE  place'[T] # "none"
    <3>1. CASE T \cup {t} = C
      <4>1. T = S
        BY <1>1, <1>3, <2>3, <3>1, NamesDiffer DEF C
      <4> QED BY <1>1, <1>5, <1>7, <4>1
    <3>2. CASE T \cup {t} # C
      <4>1. T \cup {t} \in Starters
        BY DEF Starters
      <4>2. place[T] # "none"
        BY <1>7, <2>3, <3>2, <4>1 DEF StarterInv, NameInv
      <4> QED BY <1>4, <1>7, <4>2
    <3> QED BY <3>1, <3>2
  <2> QED BY <2>1, <2>2, <2>3 DEF NameInv
<1>10. WaitInv'
  <2>1. \A T \in Starters : place'[T] \in {"wait", "done"} =>
          T # S /\ T # C /\ place'[T] = place[T] /\ Own(T)' = Own(T) /\ line'[T] = line[T]
    BY <1>1, <1>2, <1>7 DEF Own
  <2>2. \A T \in Starters, e \in Servers : ChildEnded(T, e) => ChildEnded(T, e)'
    <3>1. \A T \in Starters, e \in Servers : T \cup {e} \in Starters
      BY DEF Starters
    <3>2. \A T \in Starters : place[T] = "done" => place'[T] = "done"
      BY <1>4, <1>7
    <3>3. \A e \in Servers : Ended(e)' = Ended(e)
      BY <1>2 DEF Ended, vars
    <3> QED BY <1>2, <3>1, <3>2, <3>3 DEF ChildEnded
  <2>3. \A T \in Starters : reaped[T] \subseteq Servers
    BY DEF StarterInv, StarterTypeOK
  <2> QED BY <1>2, <2>1, <2>2, <2>3 DEF StarterInv, WaitInv
<1> QED BY <1>6, <1>8, <1>9, <1>10 DEF StarterInv

LEMMA ForkFailsKeeps ==
  ASSUME StarterInv, NEW S \in Starters, ForkFails(S)
  PROVE  StarterInv'
<1>1. /\ place[S] = "fork" /\ line[S] <= N /\ line[S] \in 1..(N + 1)
      /\ UNCHANGED <<vars, missing, place, reaped>>
      /\ pid' = [pid EXCEPT ![S][line[S]] = "error"]
      /\ line' = [line EXCEPT ![S] = line[S] + 1]
  BY DEF StarterInv, StarterTypeOK, ForkFails
<1>2. line[S] \in Servers /\ line[S] + 1 \in 1..(N + 1)
  BY <1>1, Lines
<1>3. TypeOK'
  BY <1>1 DEF StarterInv, TypeOK, vars
<1>4. StarterTypeOK'
  BY <1>1, <1>2 DEF StarterInv, StarterTypeOK
<1>5. NameInv'
  <2>1. line' \in [Starters -> 1..(N + 1)] /\ \A T \in Starters : line'[T] >= line[T]
    BY <1>1, <1>2, <1>4, Lines DEF StarterInv, StarterTypeOK
  <2>2. ASSUME NEW T \in Starters
        PROVE  /\ \A e \in T : e < line[T] => e < line'[T]
               /\ \A t \in Servers : t >= line'[T] => t >= line[T]
    <3>1. line[T] \in Nat /\ line'[T] \in Nat /\ line'[T] >= line[T] /\ T \subseteq Nat
      BY <2>1, Lines DEF StarterInv, StarterTypeOK, Starters
    <3> QED BY <3>1, Lines
  <2> QED BY <1>1, <2>2 DEF StarterInv, NameInv
<1>6. WaitInv'
  <2>1. \A T \in Starters : T # S => pid'[T] = pid[T] /\ line'[T] = line[T]
    BY <1>1 DEF StarterInv, StarterTypeOK
  <2>2. \A T \in Starters : place'[T] \in {"wait", "done"} =>
          place'[T] = place[T] /\ Own(T)' = Own(T) /\ line'[T] = line[T]
    BY <1>1, <2>1 DEF Own
  <2>3. \A T \in Starters, e \in Servers : ChildEnded(T, e)' = ChildEnded(T, e)
    BY <1>1 DEF ChildEnded, Ended, vars
  <2>4. \A T \in Starters : reaped[T] \subseteq Servers
    BY DEF StarterInv, StarterTypeOK
  <2> QED BY <1>1, <2>2, <2>3, <2>4 DEF StarterInv, WaitInv
<1> QED BY <1>3, <1>4, <1>5, <1>6 DEF StarterInv

LEMMA EndForkingKeeps ==
  ASSUME StarterInv, NEW S \in Starters, EndForking(S)
  PROVE  StarterInv'
<1>1. /\ place[S] = "fork"
      /\ UNCHANGED <<vars, missing, pid, reaped>>
      /\ place' = [place EXCEPT ![S] = "wait"]
      /\ line' = [line EXCEPT ![S] = 1]
  BY DEF EndForking
<1>2. /\ place'[S] = "wait" /\ line'[S] = 1
      /\ \A T \in Starters : T # S => place'[T] = place[T] /\ line'[T] = line[T]
  BY <1>1 DEF StarterInv, StarterTypeOK
<1>3. TypeOK'
  BY <1>1 DEF StarterInv, TypeOK, vars
<1>4. StarterTypeOK'
  <2>1. 1 \in 1..(N + 1)
    BY Lines
  <2> QED BY <1>1, <2>1 DEF StarterInv, StarterTypeOK
<1>5. NameInv'
  <2>1. \A T \in Starters, t \in Servers : T \cup {t} \in Starters
    BY DEF Starters
  <2>2. \A T \in Starters : place'[T] = "none" <=> place[T] = "none"
    BY <1>1, <1>2
  <2> QED BY <1>2, <2>1, <2>2 DEF StarterInv, NameInv
<1>6. WaitInv'
  <2>1. \A T \in Starters : Own(T)' = Own(T) /\ Own(T) \subseteq Servers
    BY <1>1 DEF Own
  <2>2. \A T \in Starters, e \in Servers : ChildEnded(T, e) => ChildEnded(T, e)'
    <3>1. \A T \in Starters, e \in Servers : T \cup {e} \in Starters
      BY DEF Starters
    <3> QED BY <1>1, <1>2, <3>1 DEF ChildEnded, Ended, vars
  <2>3. \A T \in Starters : reaped'[T] = reaped[T] /\ reaped[T] \subseteq Servers
    BY <1>1 DEF StarterInv, StarterTypeOK
  <2>4. \A s \in Servers : s >= 1
    BY Lines
  <2>5. ASSUME NEW T \in Starters
        PROVE  /\ place'[T] = "wait" => \A s \in Own(T)' : s >= line'[T]
               /\ place'[T] = "done" => Own(T)' = {}
    <3>1. CASE T = S
      BY <1>2, <2>1, <2>4, <3>1
    <3>2. CASE T # S
      BY <1>2, <2>1, <3>2 DEF StarterInv, WaitInv
    <3> QED BY <3>1, <3>2
  <2> QED BY <2>2, <2>3, <2>5 DEF StarterInv, WaitInv
<1> QED BY <1>3, <1>4, <1>5, <1>6 DEF StarterInv

(* Whom waitpid() returns, if any, is at the line or after it, and the     *)
(* child of the line itself is not left.                                   *)
LEMMA WaitForServerKeeps ==
  ASSUME StarterInv, NEW S \in Starters, WaitForServer(S)
  PROVE  StarterInv'
<1>1. /\ place[S] = "wait" /\ line[S] <= N /\ line[S] \in 1..(N + 1)
      /\ UNCHANGED <<vars, missing, place, pid>>
      /\ line' = [line EXCEPT ![S] = line[S] + 1]
  BY DEF StarterInv, StarterTypeOK, WaitForServer
<1>2. line[S] \in Servers /\ line[S] + 1 \in 1..(N + 1)
  BY <1>1, Lines
<1>3. PICK R \in SUBSET Own(S) :
        /\ reaped' = [reaped EXCEPT ![S] = reaped[S] \cup R]
        /\ \A s \in R : ChildEnded(S, s)
        /\ line[S] \in Own(S) => line[S] \in R
  <2>1. line[S] \in Own(S) => AskedFor(S) = {line[S]}
    BY DEF AskedFor, Own
  <2>2. AskedFor(S) \subseteq Own(S)
    BY DEF AskedFor
  <2>3. CASE AskedFor(S) = {}
    <3>1. reaped' = [reaped EXCEPT ![S] = reaped[S] \cup {}]
      BY <2>3 DEF WaitForServer, StarterInv, StarterTypeOK
    <3>2. line[S] \notin Own(S)
      BY <2>1, <2>3
    <3>3. {} \in SUBSET Own(S) /\ \A s \in {} : ChildEnded(S, s)
      OBVIOUS
    <3> QED BY <3>1, <3>2, <3>3
  <2>4. CASE AskedFor(S) # {}
    <3>1. PICK s \in AskedFor(S) : /\ ChildEnded(S, s)
                                   /\ reaped' = [reaped EXCEPT ![S] = reaped[S] \cup {s}]
      BY <2>4 DEF WaitForServer
    <3>2. line[S] \in Own(S) => line[S] \in {s}
      BY <2>1, <3>1
    <3>3. {s} \in SUBSET Own(S)
      BY <2>2, <3>1
    <3> QED BY <3>1, <3>2, <3>3
  <2> QED BY <2>3, <2>4
<1>4. /\ line'[S] = line[S] + 1 /\ reaped'[S] = reaped[S] \cup R
      /\ \A T \in Starters : T # S => line'[T] = line[T] /\ reaped'[T] = reaped[T]
  BY <1>1, <1>3 DEF StarterInv, StarterTypeOK
<1>5. TypeOK'
  BY <1>1 DEF StarterInv, TypeOK, vars
<1>6. StarterTypeOK'
  <2>1. R \subseteq Servers
    BY DEF Own
  <2>2. reaped' \in [Starters -> SUBSET Servers]
    BY <1>3, <2>1 DEF StarterInv, StarterTypeOK
  <2>3. line' \in [Starters -> 1..(N + 1)]
    BY <1>1, <1>2 DEF StarterInv, StarterTypeOK
  <2> QED BY <1>1, <2>2, <2>3 DEF StarterInv, StarterTypeOK
<1>7. NameInv'
  <2>1. \A T \in Starters : place'[T] = "fork" => line'[T] = line[T] /\ place[T] = "fork"
    BY <1>1, <1>4
  <2> QED BY <1>1, <2>1 DEF StarterInv, NameInv
<1>8. WaitInv'
  <2>1. \A T \in Starters, e \in Servers : ChildEnded(T, e)' = ChildEnded(T, e)
    BY <1>1 DEF ChildEnded, Ended, vars
  <2>2. \A T \in Starters : reaped[T] \subseteq Servers
    BY DEF StarterInv, StarterTypeOK
  <2>3. ASSUME NEW T \in Starters
        PROVE  /\ place'[T] = "wait" => \A s \in Own(T)' : s >= line'[T]
               /\ place'[T] = "done" => Own(T)' = {}
               /\ \A s \in reaped'[T] : ChildEnded(T, s)'
    <3>1. CASE T = S
      <4>1. Own(S)' = Own(S) \ R
        BY <1>1, <1>4 DEF Own
      <4>2. \A s \in Own(S)' : s \in Servers /\ s >= line[S] /\ s # line[S]
        BY <1>1, <1>3, <4>1 DEF StarterInv, WaitInv, Own
      <4>3. \A s \in Own(S)' : s >= line'[S]
        BY <1>2, <1>4, <4>2, Lines
      <4>4. R \subseteq Servers
        BY DEF Own
      <4>5. \A s \in reaped'[S] : ChildEnded(S, s)'
        BY <1>3, <1>4, <2>1, <2>2, <4>4 DEF StarterInv, WaitInv
      <4> QED BY <1>1, <3>1, <4>3, <4>5
    <3>2. CASE T # S
      <4>1. Own(T)' = Own(T)
        BY <1>1, <1>4, <3>2 DEF Own
      <4> QED BY <1>1, <1>4, <2>1, <2>2, <3>2, <4>1 DEF StarterInv, WaitInv
    <3> QED BY <3>1, <3>2
  <2> QED BY <2>3 DEF WaitInv
<1> QED BY <1>5, <1>6, <1>7, <1>8 DEF StarterInv

LEMMA EndWaitingKeeps ==
  ASSUME StarterInv, NEW S \in Starters, EndWaiting(S)
  PROVE  StarterInv'
<1>1. /\ place[S] = "wait" /\ line[S] = N + 1
      /\ UNCHANGED <<vars, missing, line, pid, reaped>>
      /\ place' = [place EXCEPT ![S] = "done"]
  BY DEF EndWaiting
<1>2. place'[S] = "done" /\ \A T \in Starters : T # S => place'[T] = place[T]
  BY <1>1 DEF StarterInv, StarterTypeOK
<1>3. TypeOK'
  BY <1>1 DEF StarterInv, TypeOK, vars
<1>4. StarterTypeOK'
  BY <1>1 DEF StarterInv, StarterTypeOK
<1>5. NameInv'
  <2>1. \A T \in Starters, t \in Servers : T \cup {t} \in Starters
    BY DEF Starters
  <2>2. \A T \in Starters : place'[T] = "none" <=> place[T] = "none"
    BY <1>1, <1>2
  <2> QED BY <1>1, <1>2, <2>1, <2>2 DEF StarterInv, NameInv
<1>6. WaitInv'
  <2>1. \A T \in Starters : Own(T)' = Own(T)
    BY <1>1 DEF Own
  <2>2. \A T \in Starters, e \in Servers : ChildEnded(T, e) => ChildEnded(T, e)'
    <3>1. \A T \in Starters, e \in Servers : T \cup {e} \in Starters
      BY DEF Starters
    <3> QED BY <1>1, <1>2, <3>1 DEF ChildEnded, Ended, vars
  <2>3. \A T \in Starters : reaped'[T] = reaped[T] /\ reaped[T] \subseteq Servers
    BY <1>1 DEF StarterInv, StarterTypeOK
  <2>4. Own(S) = {}
    <3>1. \A s \in Own(S) : s \in 1..N /\ s >= N + 1
      BY <1>1, Lines DEF StarterInv, WaitInv, Own
    <3> QED BY <3>1, Lines
  <2> QED BY <1>1, <1>2, <2>1, <2>2, <2>3, <2>4 DEF StarterInv, WaitInv
<1> QED BY <1>3, <1>4, <1>5, <1>6 DEF StarterInv

-----------------------------------------------------------------------------
(* What the specification allows without its fairness.                     *)
LEMMA StarterSteps == StarterSpec => StarterInit /\ [][StarterNext]_allVars
BY PTL DEF StarterSpec

LEMMA StarterKeeps == StarterInv /\ [StarterNext]_allVars => StarterInv'
<1> SUFFICES ASSUME StarterInv, [StarterNext]_allVars
             PROVE  StarterInv'
  OBVIOUS
<1>1. ASSUME NEW S \in Starters, StarterStep(S)
      PROVE  StarterInv'
  BY <1>1, ForkServerKeeps, ForkFailsKeeps, EndForkingKeeps, WaitForServerKeeps,
     EndWaitingKeeps DEF StarterStep
<1>2. CASE Chained(Next)
  BY <1>2, ChainStepKeeps DEF Chained
<1>3. CASE UNCHANGED allVars
  BY <1>3, ChainStepKeeps DEF allVars
<1> QED BY <1>1, <1>2, <1>3 DEF StarterNext

(* The invariant above holds of every run of startAllServers.              *)
THEOREM StarterInvariant == StarterSpec => []StarterInv
<1>1. StarterSpec => StarterInit /\ [][StarterNext]_allVars
  BY StarterSteps
<1> QED BY <1>1, StarterInitially, StarterKeeps, PTL

(* No starter ends before every process it forked, whatever forks and      *)
(* execs fail (startAllServers.c:49-63).                                   *)
THEOREM StartersOutlastTheirChildren == StarterSpec => []DoneMeansAllEnded
<1>1. StarterInv => DoneMeansAllEnded
  BY DEF StarterInv, WaitInv, DoneMeansAllEnded
<1> QED BY <1>1, StarterInvariant, PTL

(* Whoever starts the servers and however late, the chain is the one of    *)
(* DnsChain: all that is proved of Spec holds of servers that              *)
(* startAllServers started (startAllServers.c:49-63).                      *)
THEOREM StartingKeepsTheChain == StarterSpec => Spec
<1>1. StarterInit => Init
  BY DEF StarterInit
<1>2. [StarterNext]_allVars => [Next]_vars
  BY DEF StarterNext, StarterStep, ForkServer, ForkFails, EndForking, WaitForServer,
         EndWaiting, Chained, allVars
<1> QED BY <1>1, <1>2, StarterSteps, PTL DEF Spec
=============================================================================
