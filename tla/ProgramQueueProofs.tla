------------------------- MODULE ProgramQueueProofs -------------------------
(***************************************************************************)
(* Theorems about ProgramQueue, for any number of launchers in the         *)
(* directory, of children and of messages the queue has room for: type     *)
(* correctness, and that a launcher which lost no name never waits for one *)
(* that does not come.                                                     *)
(*                                                                         *)
(* Ids only grow, so a launcher whose msgq_id still is the id of the queue *)
(* has had that queue all along; and in it, what the launcher's children   *)
(* sent is still there or was received by the launcher itself, as long as  *)
(* nobody else took one.  What was sent can be counted in two ways: by the *)
(* children that ended after msgsnd(), and by the messages.                *)
(***************************************************************************)
EXTENDS ProgramQueue, FiniteSetTheorems, FunctionTheorems, SequenceTheorems, TLAPS

Places(s, l)  == {i \in 1..Len(s) : s[i] = l}
Number(s, l)  == Cardinality(Places(s, l))
Sent(l)       == {c \in Children : child[l][c] = "sent"}
NotStarted    == {l \in Launchers : phase[l] = "start"}
TakenFrom(l)  == \E k \in Launchers \ {l} : Places(names[k], l) # {}

(* Each launcher creates one queue at most, and no id comes back.          *)
IdInv ==
  /\ made + Cardinality(NotStarted) <= Cardinality(Launchers)
  /\ queue \in {NoQueue, made}
  /\ \A l \in Launchers : phase[l] # "start" => msgq[l] \in 1..made
  /\ queue = NoQueue => messages = <<>>

(* Before start() nothing of a launcher exists.                            *)
FreshInv ==
  \A l \in Launchers : phase[l] = "start" =>
    /\ \A c \in Children : child[l][c] = "unborn"
    /\ Places(messages, l) = {}
    /\ \A k \in Launchers : Places(names[k], l) = {}

(* It receives once its children have ended, killed only with it.          *)
WaitedInv ==
  \A l \in Launchers : phase[l] \in {"receive", "close", "launch"} =>
    \A c \in Children : child[l][c] \in {"sent", "refused", "failed"}
KilledInv ==
  \A l \in Launchers, c \in Children : child[l][c] = "killed" => phase[l] = "killed"

PhaseInv == FreshInv /\ WaitedInv /\ KilledInv

(* What was sent is in the queue or with the launcher.                     *)
CountInv ==
  \A l \in Launchers :
    phase[l] # "start" /\ msgq[l] = queue /\ ~TakenFrom(l) =>
      Cardinality(Sent(l)) = Number(messages, l) + Number(names[l], l)

QueueInv == QueueTypeOK /\ IdInv /\ PhaseInv /\ CountInv
-----------------------------------------------------------------------------
(* Counting the messages of a launcher in a sequence of them.              *)

LEMMA PlacesAreFew ==
  ASSUME NEW S, NEW s \in Seq(S), NEW l
  PROVE  IsFiniteSet(Places(s, l)) /\ Number(s, l) \in 0..Len(s)
<1>1. Len(s) \in Nat /\ Places(s, l) \in SUBSET (1..Len(s))
  BY DEF Places
<1>2. IsFiniteSet(1..Len(s)) /\ Cardinality(1..Len(s)) = Len(s)
  <2>1. 1 \in Int /\ Len(s) \in Int
    BY <1>1
  <2>2. /\ IsFiniteSet(1..Len(s))
        /\ Cardinality(1..Len(s)) = IF 1 > Len(s) THEN 0 ELSE Len(s) - 1 + 1
    BY <2>1, FS_Interval
  <2> QED
    BY <1>1, <2>2
<1>3. IsFiniteSet(Places(s, l)) /\ Cardinality(Places(s, l)) <= Len(s)
  BY <1>1, <1>2, FS_Subset
<1>4. Cardinality(Places(s, l)) \in Nat
  BY <1>3, FS_CardinalityType
<1> QED
  BY <1>1, <1>3, <1>4 DEF Number

LEMMA NumberWhenAppended ==
  ASSUME NEW S, NEW s \in Seq(S), NEW x \in S, NEW l
  PROVE  /\ Number(Append(s, x), l) = Number(s, l) + (IF x = l THEN 1 ELSE 0)
         /\ Places(s, l) \subseteq Places(Append(s, x), l)
         /\ x # l => Places(Append(s, x), l) = Places(s, l)
         /\ x = l => Places(Append(s, x), l) # {}
<1>1. /\ Len(s) \in Nat /\ Len(Append(s, x)) = Len(s) + 1
      /\ \A i \in 1..Len(s) : Append(s, x)[i] = s[i]
      /\ Append(s, x)[Len(s) + 1] = x
  OBVIOUS
<1>2. Places(Append(s, x), l) = Places(s, l) \cup (IF x = l THEN {Len(s) + 1} ELSE {})
  BY <1>1 DEF Places
<1>3. Len(s) + 1 \notin Places(s, l)
  BY <1>1 DEF Places
<1>4. CASE x = l
  <2>1. Number(Append(s, x), l) = Number(s, l) + 1
    BY <1>2, <1>3, <1>4, PlacesAreFew, FS_AddElement DEF Number
  <2> QED
    BY <1>2, <1>4, <2>1
<1>5. CASE x # l
  <2>1. Places(Append(s, x), l) = Places(s, l) /\ Number(s, l) \in Nat
    BY <1>2, <1>5, PlacesAreFew
  <2> QED
    BY <1>5, <2>1 DEF Number
<1> QED
  BY <1>4, <1>5

LEMMA NumberWithoutHead ==
  ASSUME NEW S, NEW s \in Seq(S), s # <<>>, NEW l
  PROVE  /\ Number(s, l) = Number(Tail(s), l) + (IF Head(s) = l THEN 1 ELSE 0)
         /\ Places(s, l) = {} => Places(Tail(s), l) = {} /\ Head(s) # l
<1> DEFINE t == Tail(s)
           f == [i \in Places(t, l) |-> i + 1]
<1>1. /\ Len(s) \in Nat \ {0} /\ Head(s) = s[1] /\ Len(t) = Len(s) - 1
      /\ t \in Seq(S) /\ \A i \in 1..Len(t) : t[i] = s[i + 1]
  OBVIOUS
<1> HIDE DEF t
<1>2. \A i \in Places(t, l) : i \in Nat /\ i + 1 \in Places(s, l) \ {1}
  BY <1>1 DEF Places
<1>3. \A j \in Places(s, l) \ {1} : j - 1 \in Places(t, l) /\ j = (j - 1) + 1
  BY <1>1 DEF Places
<1>4. f \in [Places(t, l) -> Places(s, l) \ {1}]
  BY <1>2
<1>5. \A i, j \in Places(t, l) : f[i] = f[j] => i = j
  BY <1>2
<1>6. \A j \in Places(s, l) \ {1} : \E i \in Places(t, l) : f[i] = j
  BY <1>3
<1>7. f \in Bijection(Places(t, l), Places(s, l) \ {1})
  BY <1>4, <1>5, <1>6, Fun_IsBij
<1>8. Cardinality(Places(s, l) \ {1}) = Number(t, l)
  BY <1>1, <1>7, PlacesAreFew, FS_Bijection DEF Number, ExistsBijection
<1>9. 1 \in Places(s, l) <=> Head(s) = l
  BY <1>1 DEF Places
<1>10. Number(s, l) \in Nat /\ IsFiniteSet(Places(s, l)) /\ Number(t, l) \in Nat
  BY <1>1, PlacesAreFew
<1>11. Number(s, l) = Number(t, l) + (IF Head(s) = l THEN 1 ELSE 0)
  <2>1. Cardinality(Places(s, l) \ {1}) =
          IF 1 \in Places(s, l) THEN Number(s, l) - 1 ELSE Number(s, l)
    BY <1>10, FS_RemoveElement DEF Number
  <2> QED
    BY <1>8, <1>9, <1>10, <2>1
<1>12. Places(s, l) = {} => Places(t, l) = {} /\ Head(s) # l
  BY <1>2, <1>9
<1> QED
  BY <1>11, <1>12 DEF t

-----------------------------------------------------------------------------
(* The counts of children and of launchers.                                *)

LEMMA SentAreFew ==
  ASSUME NEW l
  PROVE  /\ IsFiniteSet(Sent(l)) /\ Cardinality(Sent(l)) \in Nat
         /\ Sent(l) = Children => Cardinality(Sent(l)) = Count
<1>1. IsFiniteSet(Children) /\ Cardinality(Children) = Count
  <2>1. 1 \in Int /\ Count \in Nat
    BY QueueAssumption
  <2>2. /\ IsFiniteSet(1..Count)
        /\ Cardinality(1..Count) = IF 1 > Count THEN 0 ELSE Count - 1 + 1
    BY <2>1, FS_Interval
  <2> QED
    BY <2>1, <2>2 DEF Children
<1>2. Sent(l) \in SUBSET Children
  BY DEF Sent
<1>3. IsFiniteSet(Sent(l))
  BY <1>1, <1>2, FS_Subset
<1> QED
  BY <1>1, <1>3, FS_CardinalityType

LEMMA LaunchersAreFew ==
  /\ IsFiniteSet(NotStarted)
  /\ Cardinality(NotStarted) \in Nat /\ Cardinality(Launchers) \in Nat
<1>1. NotStarted \in SUBSET Launchers /\ IsFiniteSet(Launchers)
  BY QueueAssumption DEF NotStarted
<1>2. IsFiniteSet(NotStarted)
  BY <1>1, FS_Subset
<1> QED
  BY <1>1, <1>2, FS_CardinalityType

LEMMA QueueInitially == QueueInit => QueueInv
<1> SUFFICES ASSUME QueueInit PROVE QueueInv
  OBVIOUS
<1>1. Cardinality(Launchers) \in Nat /\ QueueLimit \in Nat /\ Count \in Nat
  BY LaunchersAreFew, QueueAssumption
<1>2. QueueTypeOK
  BY <1>1 DEF QueueInit, QueueTypeOK, NoQueue, Ended
<1>3. IdInv
  <2>1. NotStarted = Launchers
    BY DEF QueueInit, NotStarted
  <2> QED
    BY <1>1, <2>1 DEF QueueInit, IdInv
<1>4. PhaseInv
  <2>1. \A l : Places(<<>>, l) = {}
    BY DEF Places
  <2> QED
    BY <2>1 DEF QueueInit, PhaseInv, FreshInv, WaitedInv, KilledInv
<1>5. CountInv
  BY DEF QueueInit, CountInv
<1> QED
  BY <1>2, <1>3, <1>4, <1>5 DEF QueueInv

-----------------------------------------------------------------------------
(* QueueInv over each action.                                              *)

(* One child of k becomes s, and the launchers stay where they are.        *)
LEMMA ChildMoves ==
  ASSUME QueueInv, NEW k \in Launchers, NEW c \in Children,
         NEW s \in {"failed", "born", "ready", "refused"}, Becomes(k, c, s),
         phase[k] = "start" => FALSE, child[k][c] \in {"unborn", "born", "ready"},
         childq' \in [Launchers -> [Children -> QueueIds \cup {NoQueue}]],
         UNCHANGED <<kernel, phase, msgq, names>>
  PROVE  QueueInv'
<1>0. QueueTypeOK /\ IdInv /\ PhaseInv /\ CountInv
  BY DEF QueueInv
<1>1. QueueTypeOK'
  <2>1. child' \in [Launchers -> [Children -> {"unborn", "failed", "born", "ready"} \cup Ended]]
    BY <1>0 DEF QueueTypeOK, Becomes, Ended
  <2> QED
    BY <1>0, <2>1 DEF QueueTypeOK, kernel
<1>2. /\ child'[k][c] = s
      /\ \A l \in Launchers, d \in Children : l # k \/ d # c => child'[l][d] = child[l][d]
  BY <1>0 DEF QueueTypeOK, Becomes
<1>3. IdInv'
  BY <1>0 DEF IdInv, NotStarted, kernel
<1>4. PhaseInv'
  <2>1. FreshInv'
    BY <1>0, <1>2 DEF PhaseInv, FreshInv, kernel
  <2>2. WaitedInv'
    BY <1>0, <1>2 DEF PhaseInv, WaitedInv
  <2>3. KilledInv'
    BY <1>0, <1>2 DEF PhaseInv, KilledInv
  <2> QED
    BY <2>1, <2>2, <2>3 DEF PhaseInv
<1>5. ASSUME NEW l \in Launchers PROVE Sent(l)' = Sent(l)
  BY <1>2 DEF Sent
<1>6. CountInv'
  BY <1>0, <1>5 DEF CountInv, TakenFrom, Number, kernel
<1> QED
  BY <1>1, <1>3, <1>4, <1>6 DEF QueueInv

LEMMA CreateKeeps ==
  ASSUME QueueInv, NEW k \in Launchers, Create(k)
  PROVE  QueueInv'
<1>0. QueueTypeOK /\ IdInv /\ PhaseInv /\ CountInv
  BY DEF QueueInv
<1>1. /\ phase[k] = "start" /\ phase'[k] = "fork" /\ phase' \in [Launchers -> {"start", "fork", "receive", "close", "launch", "killed"}]
      /\ \A l \in Launchers : l # k => phase'[l] = phase[l] /\ msgq'[l] = msgq[l]
      /\ msgq'[k] = queue' /\ UNCHANGED <<messages, child, childq, names>>
      /\ IF queue = NoQueue THEN queue' = made + 1 /\ made' = made + 1
                            ELSE queue' = queue /\ made' = made
  BY <1>0 DEF Create, Goto, QueueTypeOK
<1>2. NotStarted' = NotStarted \ {k} /\ k \in NotStarted
  BY <1>1 DEF NotStarted
<1>3. Cardinality(NotStarted') = Cardinality(NotStarted) - 1 /\ Cardinality(NotStarted') \in Nat
  <2>1. IsFiniteSet(NotStarted')
    BY <1>2, LaunchersAreFew, FS_RemoveElement
  <2> QED
    BY <1>2, <2>1, LaunchersAreFew, FS_RemoveElement, FS_CardinalityType
<1>4. made \in Nat /\ queue \in Nat
  BY <1>0 DEF QueueTypeOK, QueueIds, NoQueue
<1>5. IdInv'
  <2>1. made' + Cardinality(NotStarted') <= Cardinality(Launchers)
    BY <1>0, <1>1, <1>3, <1>4, LaunchersAreFew DEF IdInv
  <2>2. queue' = made' /\ queue' \in 1..made'
    BY <1>0, <1>1, <1>4 DEF IdInv, NoQueue
  <2>3. \A l \in Launchers : phase'[l] # "start" => msgq'[l] \in 1..made'
    BY <1>0, <1>1, <1>4, <2>2 DEF IdInv
  <2> QED
    BY <2>1, <2>2, <2>3 DEF IdInv, NoQueue
<1>6. QueueTypeOK'
  <2>1. queue' \in QueueIds /\ made' \in 0..Cardinality(Launchers)
    <3>1. made' \in Nat /\ made' <= Cardinality(Launchers)
      BY <1>1, <1>3, <1>4, <1>5, <1>2, LaunchersAreFew DEF IdInv
    <3>2. queue' \in 1..made'
      BY <1>0, <1>1, <1>4 DEF IdInv, NoQueue
    <3> QED
      BY <3>1, <3>2, LaunchersAreFew DEF QueueIds
  <2>2. msgq' \in [Launchers -> QueueIds \cup {NoQueue}]
    BY <1>0, <2>1 DEF Create, QueueTypeOK
  <2> QED
    BY <1>0, <1>1, <2>1, <2>2 DEF QueueTypeOK
<1>7. PhaseInv'
  BY <1>0, <1>1 DEF PhaseInv, FreshInv, WaitedInv, KilledInv
<1>8. ASSUME NEW l \in Launchers, phase'[l] # "start", msgq'[l] = queue', ~TakenFrom(l)'
      PROVE  Cardinality(Sent(l)') = Number(messages', l) + Number(names'[l], l)
  <2>1. CASE l = k
    <3>1. Sent(l)' = {} /\ Places(messages', l) = {} /\ Places(names'[l], l) = {}
      BY <1>0, <1>1, <2>1 DEF PhaseInv, FreshInv, Sent
    <3> QED
      BY <3>1, FS_EmptySet DEF Number
  <2>2. CASE l # k
    <3>1. msgq[l] \in 1..made /\ msgq[l] = queue'
      BY <1>0, <1>1, <1>8, <2>2 DEF IdInv
    <3>2. queue' = queue
      BY <1>1, <1>4, <3>1
    <3> QED
      BY <1>0, <1>1, <1>8, <2>2, <3>2 DEF CountInv, TakenFrom, Sent
  <2> QED
    BY <2>1, <2>2
<1>9. CountInv'
  BY <1>8 DEF CountInv
<1> QED
  BY <1>5, <1>6, <1>7, <1>9 DEF QueueInv

LEMMA SendKeeps ==
  ASSUME QueueInv, NEW k \in Launchers, NEW c \in Children, Send(k, c)
  PROVE  QueueInv'
<1>0. QueueTypeOK /\ IdInv /\ PhaseInv /\ CountInv /\ child[k][c] = "ready" /\ phase[k] # "start"
  BY DEF QueueInv, Send, PhaseInv, FreshInv
<1>1. CASE Becomes(k, c, "refused") /\ UNCHANGED messages
  BY <1>0, <1>1, ChildMoves DEF Send, kernel, QueueTypeOK
<1>2. CASE /\ queue # NoQueue /\ Len(messages) < QueueLimit
           /\ messages' = Append(messages, k) /\ Becomes(k, c, "sent")
  <2>1. /\ child'[k][c] = "sent" /\ child' \in [Launchers -> [Children -> {"unborn", "failed", "born", "ready"} \cup Ended]]
        /\ \A l \in Launchers, d \in Children : l # k \/ d # c => child'[l][d] = child[l][d]
        /\ UNCHANGED <<queue, made, phase, msgq, childq, names>>
    BY <1>0, <1>2 DEF QueueTypeOK, Becomes, Send, Ended
  <2>2. QueueTypeOK'
    <3>1. messages' \in Seq(Launchers) /\ Len(messages') <= QueueLimit
      BY <1>0, <1>2, QueueAssumption DEF QueueTypeOK
    <3> QED
      BY <1>0, <2>1, <3>1 DEF QueueTypeOK
  <2>3. IdInv'
    BY <1>0, <1>2, <2>1 DEF IdInv, NotStarted
  <2>4. \A l \in Launchers : /\ Number(messages', l) = Number(messages, l) + (IF l = k THEN 1 ELSE 0)
                             /\ l # k => Places(messages', l) = Places(messages, l)
    BY <1>0, <1>2, NumberWhenAppended DEF QueueTypeOK
  <2>5. PhaseInv'
    <3>1. FreshInv'
      <4>1. ASSUME NEW l \in Launchers, phase'[l] = "start"
            PROVE  /\ \A d \in Children : child'[l][d] = "unborn"
                   /\ Places(messages', l) = {}
                   /\ \A j \in Launchers : Places(names'[j], l) = {}
        <5>1. phase[l] = "start" /\ l # k
          BY <1>0, <2>1, <4>1
        <5> QED
          BY <1>0, <2>1, <2>4, <5>1 DEF PhaseInv, FreshInv
      <4> QED
        BY <4>1 DEF FreshInv
    <3>2. WaitedInv'
      BY <1>0, <2>1, <2>4 DEF PhaseInv, WaitedInv
    <3>3. KilledInv'
      BY <1>0, <2>1, <2>4 DEF PhaseInv, KilledInv
    <3> QED
      BY <3>1, <3>2, <3>3 DEF PhaseInv
  <2>6. Sent(k)' = Sent(k) \cup {c} /\ c \notin Sent(k)
    BY <1>0, <2>1 DEF Sent
  <2>7. Cardinality(Sent(k)') = Cardinality(Sent(k)) + 1
    BY <2>6, SentAreFew, FS_AddElement
  <2>8. \A l \in Launchers : l # k => Sent(l)' = Sent(l)
    BY <2>1 DEF Sent
  <2>9. ASSUME NEW l \in Launchers, phase'[l] # "start", msgq'[l] = queue', ~TakenFrom(l)'
        PROVE  Cardinality(Sent(l)') = Number(messages', l) + Number(names'[l], l)
    <3>1. Cardinality(Sent(l)) = Number(messages, l) + Number(names[l], l)
      BY <1>0, <2>1, <2>9 DEF CountInv, TakenFrom
    <3>2. Number(messages, l) \in Nat /\ Number(names[l], l) \in Nat
      BY <1>0, PlacesAreFew DEF QueueTypeOK
    <3> QED
      BY <2>1, <2>4, <2>7, <2>8, <3>1, <3>2
  <2>10. CountInv'
    BY <2>9 DEF CountInv
  <2> QED
    BY <2>2, <2>3, <2>5, <2>10 DEF QueueInv
<1> QED
  BY <1>1, <1>2 DEF Send

(* A launcher goes on to another place, and nothing else happens.          *)
LEMMA LauncherMoves ==
  ASSUME QueueInv, NEW k \in Launchers, NEW p \in {"receive", "close"}, Goto(k, p),
         phase[k] # "start", \A c \in Children : child[k][c] \in {"sent", "refused", "failed"},
         UNCHANGED <<kernel, msgq, child, childq, names>>
  PROVE  QueueInv'
<1>0. QueueTypeOK /\ IdInv /\ PhaseInv /\ CountInv
  BY DEF QueueInv
<1>1. phase'[k] = p /\ \A l \in Launchers : l # k => phase'[l] = phase[l]
  BY <1>0 DEF Goto, QueueTypeOK
<1>2. QueueTypeOK'
  BY <1>0 DEF QueueTypeOK, Goto, kernel
<1>3. NotStarted' = NotStarted
  BY <1>1 DEF NotStarted
<1>4. IdInv'
  BY <1>0, <1>1, <1>3 DEF IdInv, kernel
<1>5. PhaseInv'
  BY <1>0, <1>1 DEF PhaseInv, FreshInv, WaitedInv, KilledInv, kernel
<1>6. CountInv'
  BY <1>0, <1>1 DEF CountInv, TakenFrom, Sent, kernel
<1> QED
  BY <1>2, <1>4, <1>5, <1>6 DEF QueueInv

LEMMA ReceiveKeeps ==
  ASSUME QueueInv, NEW k \in Launchers, Receive(k)
  PROVE  QueueInv'
<1>0. QueueTypeOK /\ IdInv /\ PhaseInv /\ CountInv /\ phase[k] = "receive"
  BY DEF QueueInv, Receive
<1>1. CASE Goto(k, "close") /\ UNCHANGED <<messages, names>>
  BY <1>0, <1>1, LauncherMoves DEF Receive, kernel, PhaseInv, WaitedInv
<1>2. CASE /\ Len(names[k]) < Count /\ messages # <<>>
           /\ names' = [names EXCEPT ![k] = Append(@, Head(messages))]
           /\ messages' = Tail(messages) /\ UNCHANGED phase
  <2>1. /\ UNCHANGED <<queue, made, phase, msgq, child, childq>>
        /\ messages \in Seq(Launchers) /\ Head(messages) \in Launchers /\ messages' \in Seq(Launchers)
        /\ Len(messages') <= QueueLimit
    BY <1>0, <1>2, QueueAssumption DEF Receive, QueueTypeOK
  <2>2. /\ names[k] \in Seq(Launchers)
        /\ names'[k] = Append(names[k], Head(messages))
        /\ \A l \in Launchers : l # k => names'[l] = names[l]
    BY <1>0, <1>2 DEF QueueTypeOK
  <2>3. QueueTypeOK'
    <3>1. names'[k] \in Seq(Launchers) /\ Len(names'[k]) <= Count
      BY <1>2, <2>1, <2>2, QueueAssumption
    <3>2. names' \in [Launchers -> Seq(Launchers)]
      BY <1>0, <1>2, <2>2, <3>1 DEF QueueTypeOK
    <3>3. \A l \in Launchers : Len(names'[l]) <= Count
      BY <1>0, <2>2, <3>1 DEF QueueTypeOK
    <3> QED
      BY <1>0, <2>1, <3>2, <3>3 DEF QueueTypeOK
  <2>4. IdInv'
    BY <1>0, <1>2, <2>1 DEF IdInv, NotStarted
  <2>5. \A l \in Launchers :
          /\ Number(messages, l) = Number(messages', l) + (IF Head(messages) = l THEN 1 ELSE 0)
          /\ Places(messages, l) = {} => Places(messages', l) = {} /\ Head(messages) # l
    BY <1>2, <2>1, NumberWithoutHead
  <2>6. \A l \in Launchers :
          /\ Number(names'[k], l) = Number(names[k], l) + (IF Head(messages) = l THEN 1 ELSE 0)
          /\ Places(names[k], l) \subseteq Places(names'[k], l)
          /\ Head(messages) # l => Places(names'[k], l) = Places(names[k], l)
          /\ Head(messages) = l => Places(names'[k], l) # {}
    <3>1. Head(messages) \in Launchers
      BY <1>2, <2>1, HeadTailProperties
    <3> QED BY <2>2, <3>1, NumberWhenAppended
  <2>7. PhaseInv'
    <3>1. FreshInv'
      BY <1>0, <2>1, <2>2, <2>5, <2>6 DEF PhaseInv, FreshInv
    <3>2. WaitedInv'
      BY <1>0, <2>1, <2>2, <2>5, <2>6 DEF PhaseInv, WaitedInv
    <3>3. KilledInv'
      BY <1>0, <2>1, <2>2, <2>5, <2>6 DEF PhaseInv, KilledInv
    <3> QED
      BY <3>1, <3>2, <3>3 DEF PhaseInv
  <2>8. ASSUME NEW l \in Launchers, phase'[l] # "start", msgq'[l] = queue', ~TakenFrom(l)'
        PROVE  Cardinality(Sent(l)') = Number(messages', l) + Number(names'[l], l)
    <3>1. ~TakenFrom(l)
      BY <2>2, <2>6, <2>8 DEF TakenFrom
    <3>2. Cardinality(Sent(l)) = Number(messages, l) + Number(names[l], l)
      BY <1>0, <2>1, <2>8, <3>1 DEF CountInv
    <3>3. Sent(l)' = Sent(l)
      BY <2>1 DEF Sent
    <3>4. l # k => Head(messages) # l
      BY <2>6, <2>8 DEF TakenFrom
    <3>5. Number(messages', l) \in Nat /\ Number(names[l], l) \in Nat
      BY <1>0, <2>1, PlacesAreFew DEF QueueTypeOK
    <3>6. CASE l = k
      <4>1. names'[l] = names'[k] /\ Number(names[k], l) \in Nat
        BY <3>5, <3>6
      <4> QED
        BY <2>5, <2>6, <3>2, <3>3, <3>5, <3>6, <4>1
    <3>7. CASE l # k
      <4>1. names'[l] = names[l] /\ Number(messages, l) = Number(messages', l)
        BY <2>2, <2>5, <3>4, <3>5, <3>7
      <4> QED
        BY <3>2, <3>3, <4>1
    <3> QED
      BY <3>6, <3>7
  <2>9. CountInv'
    BY <2>8 DEF CountInv
  <2> QED
    BY <2>3, <2>4, <2>7, <2>9 DEF QueueInv
<1> QED
  BY <1>1, <1>2 DEF Receive

LEMMA RemoveKeeps ==
  ASSUME QueueInv, NEW k \in Launchers, Remove(k)
  PROVE  QueueInv'
<1>0. QueueTypeOK /\ IdInv /\ PhaseInv /\ CountInv /\ phase[k] = "close"
  BY DEF QueueInv, Remove
<1>1. /\ phase'[k] = "launch" /\ \A l \in Launchers : l # k => phase'[l] = phase[l]
      /\ phase' \in [Launchers -> {"start", "fork", "receive", "close", "launch", "killed"}]
      /\ UNCHANGED <<made, msgq, child, childq, names>>
      /\ \/ queue' = NoQueue /\ messages' = <<>>
         \/ UNCHANGED <<queue, messages>>
  BY <1>0 DEF Remove, Goto, QueueTypeOK
<1>2. Places(<<>>, k) = {} /\ Len(<<>>) = 0 /\ <<>> \in Seq(Launchers) /\ \A l : Places(<<>>, l) = {}
  BY DEF Places
<1>3. QueueTypeOK'
  <2>1. messages' \in Seq(Launchers) /\ Len(messages') <= QueueLimit
    <3>1. messages \in Seq(Launchers) /\ Len(messages) <= QueueLimit /\ 0 <= QueueLimit
      BY <1>0, QueueAssumption DEF QueueTypeOK
    <3> QED
      BY <1>1, <1>2, <3>1
  <2>2. queue' \in QueueIds \cup {NoQueue}
    BY <1>0, <1>1 DEF QueueTypeOK
  <2> QED
    BY <1>0, <1>1, <2>1, <2>2 DEF QueueTypeOK
<1>4. NotStarted' = NotStarted
  BY <1>0, <1>1 DEF NotStarted
<1>5. IdInv'
  BY <1>0, <1>1, <1>4 DEF IdInv
<1>6. PhaseInv'
  <2>1. \A l \in Launchers : Places(messages, l) = {} => Places(messages', l) = {}
    BY <1>1, <1>2
  <2>2. FreshInv'
    BY <1>0, <1>1, <2>1 DEF PhaseInv, FreshInv
  <2>3. WaitedInv'
    BY <1>0, <1>1 DEF PhaseInv, WaitedInv
  <2>4. KilledInv'
    BY <1>0, <1>1 DEF PhaseInv, KilledInv
  <2> QED
    BY <2>2, <2>3, <2>4 DEF PhaseInv
<1>7. ASSUME NEW l \in Launchers, phase'[l] # "start", msgq'[l] = queue', ~TakenFrom(l)'
      PROVE  Cardinality(Sent(l)') = Number(messages', l) + Number(names'[l], l)
  <2>1. msgq[l] \in 1..made /\ made \in Nat /\ phase[l] # "start"
    BY <1>0, <1>1, <1>7 DEF IdInv, QueueTypeOK
  <2>2. msgq'[l] # NoQueue
    BY <1>1, <2>1 DEF NoQueue
  <2>3. UNCHANGED <<queue, messages>>
    BY <1>1, <1>7, <2>2
  <2> QED
    BY <1>0, <1>1, <1>7, <2>1, <2>3 DEF CountInv, TakenFrom, Sent
<1>8. CountInv'
  BY <1>7 DEF CountInv
<1> QED
  BY <1>3, <1>5, <1>6, <1>8 DEF QueueInv

LEMMA InterruptKeeps ==
  ASSUME QueueInv, NEW k \in Launchers, Interrupt(k)
  PROVE  QueueInv'
<1>0. QueueTypeOK /\ IdInv /\ PhaseInv /\ CountInv /\ phase[k] \in {"fork", "receive", "close"}
  BY DEF QueueInv, Interrupt
<1>1. /\ phase'[k] = "killed" /\ \A l \in Launchers : l # k => phase'[l] = phase[l]
      /\ phase' \in [Launchers -> {"start", "fork", "receive", "close", "launch", "killed"}]
      /\ UNCHANGED <<kernel, msgq, childq, names>>
      /\ \A l \in Launchers, c \in Children :
           child'[l][c] = IF l = k /\ child[l][c] \in {"born", "ready"} THEN "killed" ELSE child[l][c]
      /\ child' \in [Launchers -> [Children -> {"unborn", "failed", "born", "ready"} \cup Ended]]
  BY <1>0 DEF Interrupt, Goto, QueueTypeOK, Ended
<1>2. QueueTypeOK'
  BY <1>0, <1>1 DEF QueueTypeOK, kernel
<1>3. NotStarted' = NotStarted
  BY <1>0, <1>1 DEF NotStarted
<1>4. IdInv'
  BY <1>0, <1>1, <1>3 DEF IdInv, kernel
<1>5. PhaseInv'
  <2>1. FreshInv'
    <3>1. messages' = messages /\ names' = names
      BY <1>1 DEF kernel
    <3>2. \A l \in Launchers : phase'[l] = "start" => l # k /\ phase[l] = "start"
      BY <1>1
    <3>3. \A l \in Launchers, c \in Children : l # k => child'[l][c] = child[l][c]
      BY <1>1
    <3>4. ASSUME NEW l \in Launchers, phase'[l] = "start"
          PROVE  /\ \A c \in Children : child'[l][c] = "unborn"
                 /\ Places(messages', l) = {}
                 /\ \A j \in Launchers : Places(names'[j], l) = {}
      BY <1>0, <3>1, <3>2, <3>3, <3>4 DEF PhaseInv, FreshInv
    <3> QED
      BY <3>4 DEF FreshInv
  <2>2. WaitedInv'
    BY <1>0, <1>1 DEF PhaseInv, WaitedInv
  <2>3. KilledInv'
    BY <1>0, <1>1 DEF PhaseInv, KilledInv
  <2> QED
    BY <2>1, <2>2, <2>3 DEF PhaseInv
<1>6. \A l \in Launchers : Sent(l)' = Sent(l)
  BY <1>1 DEF Sent
<1>7. CountInv'
  BY <1>0, <1>1, <1>6 DEF CountInv, TakenFrom, kernel
<1> QED
  BY <1>2, <1>4, <1>5, <1>7 DEF QueueInv

LEMMA QueueStep == QueueInv /\ [QueueNext]_queueVars => QueueInv'
<1> SUFFICES ASSUME QueueInv, [QueueNext]_queueVars PROVE QueueInv'
  OBVIOUS
<1>1. ASSUME NEW l \in Launchers, NEW c \in Children, Fork(l, c) PROVE QueueInv'
  <2>1. QueueTypeOK /\ phase[l] = "fork" /\ child[l][c] = "unborn"
    BY <1>1 DEF QueueInv, Fork
  <2> QED
    BY <1>1, <2>1, ChildMoves DEF Fork, QueueTypeOK
<1>2. ASSUME NEW l \in Launchers, NEW c \in Children, Open(l, c) PROVE QueueInv'
  <2>1. QueueTypeOK /\ phase[l] # "start" /\ child[l][c] = "born"
    BY <1>2 DEF QueueInv, Open, PhaseInv, FreshInv
  <2>2. childq' \in [Launchers -> [Children -> QueueIds \cup {NoQueue}]]
    BY <1>2, <2>1 DEF Open, QueueTypeOK
  <2> QED
    BY <1>2, <2>1, <2>2, ChildMoves DEF Open
<1>3. ASSUME NEW l \in Launchers, Wait(l) PROVE QueueInv'
  <2>1. \A c \in Children : child[l][c] \in {"sent", "refused", "failed"}
    BY <1>3 DEF Wait, Ended, QueueInv, PhaseInv, KilledInv
  <2> QED
    BY <1>3, <2>1, LauncherMoves DEF Wait
<1>4. CASE UNCHANGED queueVars
  <2>1. QueueTypeOK' /\ IdInv'
    BY <1>4 DEF queueVars, QueueInv, QueueTypeOK, IdInv, NotStarted
  <2>2. FreshInv' /\ WaitedInv' /\ KilledInv'
    BY <1>4 DEF queueVars, QueueInv, PhaseInv, FreshInv, WaitedInv, KilledInv
  <2>3. CountInv'
    BY <1>4 DEF queueVars, QueueInv, CountInv, TakenFrom, Sent
  <2> QED
    BY <2>1, <2>2, <2>3 DEF QueueInv, PhaseInv
<1> QED
  BY <1>1, <1>2, <1>3, <1>4, CreateKeeps, SendKeeps, ReceiveKeeps, RemoveKeeps, InterruptKeeps
  DEF QueueNext, Step

(* For any number of launchers, children and messages there is room for,   *)
(* whoever is interrupted: the types, the ids, and the two counts of what  *)
(* was sent.                                                               *)
THEOREM QueueInvariant == QueueSpec => []QueueInv
BY QueueInitially, QueueStep, PTL DEF QueueSpec

(* A launcher that waits at the empty queue, and whose queue nobody        *)
(* removed, has lost a name to a failed fork, to a full or missing queue,  *)
(* or to another launcher of the directory.                                *)
THEOREM WaitsOnlyAfterLoss == QueueSpec => []BlocksOnlyAfterLoss
<1>1. ASSUME QueueInv PROVE BlocksOnlyAfterLoss
  <2> SUFFICES ASSUME NEW l \in Launchers, phase[l] = "receive", Len(names[l]) < Count,
                      msgq[l] = queue, messages = <<>>, ~Lost(l)
               PROVE  FALSE
    BY DEF BlocksOnlyAfterLoss
  <2>1. \A c \in Children : child[l][c] = "sent"
    BY <1>1 DEF QueueInv, PhaseInv, WaitedInv, Lost
  <2>2. Cardinality(Sent(l)) = Count
    BY <2>1, SentAreFew DEF Sent
  <2>3. ~TakenFrom(l)
    BY DEF Lost, TakenFrom, Places
  <2>4. Count = Number(<<>>, l) + Number(names[l], l)
    BY <1>1, <2>2, <2>3 DEF QueueInv, CountInv
  <2>5. Number(<<>>, l) = 0
    <3>1. Places(<<>>, l) = {}
      BY DEF Places
    <3> QED
      BY <3>1, FS_EmptySet DEF Number
  <2>6. Number(names[l], l) \in 0..Len(names[l]) /\ Len(names[l]) \in Nat
    BY <1>1, PlacesAreFew DEF QueueInv, QueueTypeOK
  <2> QED
    BY <2>4, <2>5, <2>6, QueueAssumption
<1> QED
  BY <1>1, QueueInvariant, PTL
=============================================================================
