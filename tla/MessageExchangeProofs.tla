------------------------ MODULE MessageExchangeProofs -----------------------
(***************************************************************************)
(* Theorems about MessageExchange: whichever fork fails and whoever is     *)
(* killed, the messages come in order, and the parent starves only after a *)
(* loss.  The order is that of the signal: P0 cannot have it before P1 has *)
(* written.                                                                *)
(***************************************************************************)
EXTENDS MessageExchange, TLAPS

Alive == {"block", "sigwait", "write", "kill", "exit"}
ExchangePlaces == {"unborn", "failed", "fork0", "fork1", "read", "wait", "done", "killed"} \cup Alive
ParentPlaces == {"fork0", "fork1", "read", "wait", "done", "killed"}

(* What has been written: nothing, the message of P1, or both.             *)
None == printed = <<>> /\ pipe = <<>>
First == \/ printed = <<>> /\ pipe = <<1>>
         \/ printed = <<1>> /\ pipe = <<>>
Both == \/ printed = <<>> /\ pipe = <<1, 0>>
        \/ printed = <<1>> /\ pipe = <<0>>
        \/ printed = <<1, 0>> /\ pipe = <<>>

ExchangeInv ==
  /\ at \in [{0, 1, 2} -> ExchangePlaces]
  /\ at[0] \in {"unborn", "failed", "block", "sigwait", "write", "exit", "done", "killed"}
  /\ at[1] \in {"unborn", "failed", "write", "kill", "exit", "done", "killed"}
  /\ at[2] \in ParentPlaces
  /\ None \/ First \/ Both
  /\ at[1] \in {"unborn", "failed", "write"} => None
  /\ at[1] \in {"kill", "exit", "done"} => ~None
  /\ pending \/ at[0] = "write" => ~None
  /\ at[0] \in {"unborn", "failed", "block", "sigwait", "write"} => ~Both
  /\ at[0] \in {"exit", "done"} => Both
  /\ at[2] = "fork0" => at[0] = "unborn" /\ at[1] = "unborn" /\ ~pending
  /\ at[2] = "fork1" => at[0] # "unborn" /\ at[1] = "unborn"
  /\ at[2] \in {"read", "wait"} => at[0] # "unborn" /\ at[1] # "unborn"
  /\ at[2] \in {"fork0", "fork1", "read"} => printed # <<1, 0>>
  /\ \A c \in {0, 1} : at[c] \in Alive => c \in writeEnd

LEMMA MessageLists ==
  /\ Append(<<>>, 1) = <<1>> /\ Append(<<>>, 0) = <<0>> /\ Append(<<1>>, 0) = <<1, 0>>
  /\ Head(<<1>>) = 1 /\ Tail(<<1>>) = <<>>
  /\ Head(<<0>>) = 0 /\ Tail(<<0>>) = <<>>
  /\ Head(<<1, 0>>) = 1 /\ Tail(<<1, 0>>) = <<0>>
  /\ Len(<<>>) = 0 /\ Len(<<1>>) = 1 /\ Len(<<1, 0>>) = 2
  /\ <<1>> # <<>> /\ <<0>> # <<>> /\ <<1, 0>> # <<>>
  /\ <<1>> # <<1, 0>> /\ <<0>> # <<1>> /\ <<0>> # <<1, 0>>
<1>1. Append(<<>>, 1) = <<1>> /\ Append(<<>>, 0) = <<0>>
  OBVIOUS
<1>0. Append(<<1>>, 0) = <<1, 0>>
  <2>1. PICK s : s = Append(<<1>>, 0)
    OBVIOUS
  <2>2. s \in Seq(Int) /\ Len(s) = 2 /\ s[1] = 1 /\ s[2] = 0
    BY <2>1, Len(<<1>>) = 1, <<1>> \in Seq(Int)
  <2>3. s = <<1, 0>>
    BY <2>2
  <2> QED BY <2>1, <2>3
<1>2. Head(<<1>>) = 1 /\ Head(<<0>>) = 0 /\ Head(<<1, 0>>) = 1
  OBVIOUS
<1>3. Tail(<<1>>) = <<>> /\ Tail(<<0>>) = <<>>
  OBVIOUS
<1>4. Tail(<<1, 0>>) = <<0>>
  OBVIOUS
<1>5. Len(<<>>) = 0 /\ Len(<<1>>) = 1 /\ Len(<<1, 0>>) = 2
  OBVIOUS
<1>6. <<0>> # <<1>>
  OBVIOUS
<1> QED BY <1>0, <1>1, <1>2, <1>3, <1>4, <1>5, <1>6

LEMMA ExchangeInitially == ExchangeInit => ExchangeInv
<1> SUFFICES ASSUME ExchangeInit PROVE ExchangeInv
  OBVIOUS
<1>1. /\ at \in [{0, 1, 2} -> ExchangePlaces] /\ at[0] = "unborn" /\ at[1] = "unborn"
      /\ at[2] = "fork0"
  BY DEF ExchangeInit, Writers, ProcessIds, Parent, ExchangePlaces
<1>2. None /\ ~pending
  BY DEF ExchangeInit, None
<1> QED BY <1>1, <1>2, MessageLists DEF ExchangeInv, None, First, Both, Alive, ParentPlaces

LEMMA ExchangeKeeps == ExchangeInv /\ [ExchangeNext]_exchangeVars => ExchangeInv'
<1> SUFFICES ASSUME ExchangeInv, [ExchangeNext]_exchangeVars PROVE ExchangeInv'
  OBVIOUS
<1> USE DEF Writers, ProcessIds, Parent, Gone, Proceed,
            ExchangePlaces, Alive, ParentPlaces
<1>1. CASE Fork0
  BY <1>1 DEF Fork0, Forks, ExchangeInv, None, First, Both
<1>2. CASE Fork1
  <2>1. at[2] = "fork1" /\ at[1] = "unborn" /\ None
    BY <1>2 DEF Fork1, ExchangeInv
  <2>2. ~Both
    BY <2>1, MessageLists DEF None, Both
  <2>3. at[0] \notin {"exit", "done"}
    BY <2>2 DEF ExchangeInv
  <2>4. /\ UNCHANGED <<pending, pipe, printed>> /\ writeEnd \subseteq writeEnd'
        /\ \/ at' = [at EXCEPT ![2] = "read", ![1] = "write"] /\ 1 \in writeEnd'
           \/ at' = [at EXCEPT ![2] = "read", ![1] = "failed"]
    BY <1>2 DEF Fork1, Forks
  <2>5. None' /\ ~Both' /\ printed' # <<1, 0>>
    BY <2>1, <2>2, <2>4, MessageLists DEF None, Both
  <2> HIDE DEF None, First, Both
  <2>6. /\ at' \in [{0, 1, 2} -> ExchangePlaces] /\ at'[0] = at[0] /\ at'[2] = "read"
        /\ (at'[1] = "write" /\ 1 \in writeEnd') \/ at'[1] = "failed"
    BY <2>4 DEF ExchangeInv
  <2>7. ~pending /\ at[0] # "write"
    BY <2>1 DEF ExchangeInv
  <2>8. /\ at'[0] \in {"unborn", "failed", "block", "sigwait", "write", "exit", "done", "killed"}
        /\ at'[0] # "unborn"
        /\ at'[0] \in Alive => 0 \in writeEnd'
    BY <1>2, <2>1, <2>4, <2>6 DEF ExchangeInv, Fork1
  <2> QED BY <2>3, <2>4, <2>5, <2>6, <2>7, <2>8 DEF ExchangeInv
<1>3. CASE Block
  BY <1>3 DEF Block, ExchangeInv, None, First, Both
<1>4. CASE Sigwait
  BY <1>4 DEF Sigwait, ExchangeInv, None, First, Both
<1>5. CASE Struck
  BY <1>5 DEF Struck, ExchangeInv, None, First, Both
<1>6. CASE Write(0)
  <2>1. First /\ at[0] = "write" /\ at[2] # "unborn"
    BY <1>6 DEF Write, ExchangeInv
  <2>2. CASE HasReader(0)
    <3>1. /\ pipe' = Append(pipe, 0) /\ at' = [at EXCEPT ![0] = "exit"]
          /\ UNCHANGED <<writeEnd, pending, printed>>
      BY <1>6, <2>2 DEF Write
    <3>2. Both' /\ ~None'
      <4>1. CASE printed = <<>> /\ pipe = <<1>>
        BY <3>1, <4>1, MessageLists DEF Both, None
      <4>2. CASE printed = <<1>> /\ pipe = <<>>
        <5>1. pipe' = <<0>>
          BY <3>1, <4>2, MessageLists
        <5> QED BY <3>1, <4>2, <5>1, MessageLists DEF Both, None
      <4> QED BY <2>1, <4>1, <4>2 DEF First
    <3> QED BY <2>1, <3>1, <3>2, MessageLists DEF ExchangeInv, First, None
  <2>3. CASE ~HasReader(0)
    BY <1>6, <2>1, <2>3 DEF Write, ExchangeInv, None, First, Both
  <2> QED BY <2>2, <2>3
<1>7. CASE Write(1)
  BY <1>7, MessageLists DEF Write, ExchangeInv, None, First, Both
<1>8. CASE Kill
  BY <1>8 DEF Kill, ExchangeInv, None, First, Both
<1>9. CASE KillEverybody
  BY <1>9 DEF KillEverybody, ExchangeInv, None, First, Both
<1>10. ASSUME NEW p \in {0, 1}, Exit(p) PROVE ExchangeInv'
  BY <1>10 DEF Exit, ExchangeInv, None, First, Both
<1>11. CASE Close
  BY <1>11 DEF Close, ExchangeInv, None, First, Both
<1>12. CASE Read
  BY <1>12, MessageLists DEF Read, ExchangeInv, None, First, Both
<1>13. CASE WaitForBoth
  BY <1>13 DEF WaitForBoth, ExchangeInv, None, First, Both
<1>14. ASSUME NEW p \in {0, 1, 2}, Die(p) PROVE ExchangeInv'
  BY <1>14 DEF Die, ExchangeInv, None, First, Both
<1>15. CASE UNCHANGED exchangeVars
  BY <1>15 DEF exchangeVars, ExchangeInv, None, First, Both
<1>16. ASSUME ExchangeNext PROVE ExchangeInv'
  BY <1>16, <1>1, <1>2, <1>3, <1>4, <1>5, <1>6, <1>7, <1>8, <1>9, <1>10, <1>11, <1>12, <1>13, <1>14
     DEF ExchangeNext, Step0, Step1, ParentStep
<1> QED BY <1>15, <1>16

(* 5/messageExchanger.c: the message of P1 is printed before that of P0,   *)
(* whichever fork fails, and whoever is slow or killed.                    *)
THEOREM MessagesInOrder == ExchangeSpec => []PrintsInOrder
<1>1. ExchangeInv => PrintsInOrder
  <2> SUFFICES ASSUME ExchangeInv, NEW k \in 1..Len(printed) PROVE printed[k] = 2 - k
    BY DEF PrintsInOrder
  <2>1. printed = <<>> \/ printed = <<1>> \/ printed = <<1, 0>>
    BY DEF ExchangeInv, None, First, Both
  <2>2. CASE printed = <<>>
    BY <2>2, MessageLists
  <2>3. CASE printed = <<1>>
    <3>1. k = 1
      BY <2>3, MessageLists
    <3> QED BY <2>3, <3>1
  <2>4. CASE printed = <<1, 0>>
    <3>1. k = 1 \/ k = 2
      BY <2>4, MessageLists
    <3> QED BY <2>4, <3>1
  <2> QED BY <2>1, <2>2, <2>3, <2>4
<1> QED BY <1>1, ExchangeInitially, ExchangeKeeps, PTL DEF ExchangeSpec

(* 5/messageExchanger.c: the parent reads end of file with a message still *)
(* to come only after a fork failed or a signal ended a child.             *)
THEOREM StarvedByLoss == ExchangeSpec => []StarvesOnlyAfterLoss
<1>1. ExchangeInv => StarvesOnlyAfterLoss
  <2> SUFFICES ASSUME ExchangeInv, at[2] = "read", pipe = <<>>, writeEnd = {},
                      \A c \in {0, 1} : at[c] \notin {"killed", "failed"}
               PROVE  FALSE
    BY DEF StarvesOnlyAfterLoss, Parent, ProcessIds
  <2>1. at[0] = "done" /\ at[1] = "done"
    BY DEF ExchangeInv, Alive
  <2>2. Both /\ printed # <<1, 0>>
    BY <2>1 DEF ExchangeInv
  <2> QED BY <2>2, MessageLists DEF Both
<1> QED BY <1>1, ExchangeInitially, ExchangeKeeps, PTL DEF ExchangeSpec
=============================================================================
