-------------------------- MODULE MessageExchange --------------------------
(***************************************************************************)
(* The program of 5/: the parent makes a pipe and two children.  P1 writes *)
(* its message into the pipe and signals P0, which waits for SIGUSR1 and   *)
(* then writes its own; the parent prints what comes out of the pipe and   *)
(* waits for both.                                                         *)
(*                                                                         *)
(* SIGUSR1 ends a process that has not blocked it; blocked it stays        *)
(* pending until sigwait() takes it.  usleep() puts no bound on how long   *)
(* another process takes, so here it does nothing.                         *)
(***************************************************************************)
EXTENDS Integers, Sequences

CONSTANTS MayFail, \* whether fork() may fail
          Mortal   \* processes of the program that may be killed

ProcessIds == {0, 1}
Parent     == 2
Writers    == ProcessIds \cup {Parent}

ASSUME ExchangeAssumption ==
  /\ MayFail \in BOOLEAN
  /\ Mortal \subseteq Writers

VARIABLES
  at,       \* where each process is
  pending,  \* SIGUSR1 sent to P0 and not taken
  pipe,     \* ids of the messages written and not read
  writeEnd, \* processes that have fd[WR] open
  printed   \* the ids the parent has printed
exchangeVars == <<at, pending, pipe, writeEnd, printed>>

Gone == {"done", "killed"}

ExchangeTypeOK ==
  /\ at[0] \in {"unborn", "failed", "block", "sigwait", "write", "exit"} \cup Gone
  /\ at[1] \in {"unborn", "failed", "write", "kill", "exit"} \cup Gone
  /\ at[Parent] \in {"fork0", "fork1", "read", "wait"} \cup Gone
  /\ pending \in BOOLEAN
  /\ pipe \in Seq(ProcessIds) /\ Len(pipe) <= 2
  /\ writeEnd \subseteq Writers
  /\ printed \in Seq(ProcessIds) /\ Len(printed) <= 2

ExchangeInit ==
  /\ at = [p \in Writers |-> IF p = Parent THEN "fork0" ELSE "unborn"]
  /\ pending = FALSE
  /\ pipe = <<>>
  /\ writeEnd = {Parent}
  /\ printed = <<>>

Proceed(p, l) == at' = [at EXCEPT ![p] = l]

-----------------------------------------------------------------------------
(* fork() of child i, which inherits fd[WR] if the parent has it.          *)
Forks(i, first, next) ==
  \/ /\ at' = [at EXCEPT ![Parent] = next, ![i] = first]
     /\ writeEnd' = writeEnd \cup {i}
  \/ /\ MayFail
     /\ at' = [at EXCEPT ![Parent] = next, ![i] = "failed"]
     /\ UNCHANGED writeEnd

Fork0 ==
  /\ at[Parent] = "fork0"
  /\ Forks(0, "block", "fork1")
  /\ UNCHANGED <<pending, pipe, printed>>

Fork1 ==
  /\ at[Parent] = "fork1"
  /\ Forks(1, "write", "read")
  /\ UNCHANGED <<pending, pipe, printed>>

(* signalWait(): sigprocmask, then sigwait.                                *)
Block ==
  /\ at[0] = "block"
  /\ Proceed(0, "sigwait")
  /\ UNCHANGED <<pending, pipe, writeEnd, printed>>

SigwaitNot ==  \* bug: sigwait() not called
  /\ at[0] = "sigwait"
  /\ Proceed(0, "write")
  /\ UNCHANGED <<pending, pipe, writeEnd, printed>>

SigwaitExit ==  \* bug: processBehavior() not called
  /\ at[0] = "sigwait"
  /\ pending
  /\ pending' = FALSE
  /\ Proceed(0, "exit")
  /\ UNCHANGED <<pipe, writeEnd, printed>>

Sigwait ==
  /\ at[0] = "sigwait"
  /\ pending
  /\ pending' = FALSE
  /\ Proceed(0, "write")
  /\ UNCHANGED <<pipe, writeEnd, printed>>

(* Somebody but p has fd[RD] open.                                         *)
HasReader(p) ==
  \E q \in Writers \ {p} :
    at[q] \in {"fork0", "fork1", "read", "wait", "block", "sigwait", "write"}

(* processBehavior(): one write, shorter than PIPE_BUF, after which P1 has *)
(* its signal to send.  With no reader left SIGPIPE ends the writer.       *)
Write(p) ==
  /\ at[p] = "write"
  /\ \/ /\ HasReader(p)
        /\ pipe' = Append(pipe, p)
        /\ Proceed(p, IF p = 1 THEN "kill" ELSE "exit")
        /\ UNCHANGED writeEnd
     \/ /\ ~HasReader(p)
        /\ Proceed(p, "killed")
        /\ writeEnd' = writeEnd \ {p}
        /\ UNCHANGED pipe
  /\ UNCHANGED <<pending, printed>>

KillNobody ==  \* bug: kill(getpid(), 0)
  /\ at[1] = "kill"
  /\ Proceed(1, "exit")
  /\ UNCHANGED <<pending, pipe, writeEnd, printed>>

(* kill(pid[0], SIGUSR1).                                                  *)
Kill ==
  /\ at[1] = "kill"
  /\ at[0] # "failed"
  /\ Proceed(1, "exit")
  /\ pending' = (at[0] \notin Gone)
  /\ UNCHANGED <<pipe, writeEnd, printed>>

(* kill(-1, SIGUSR1) after the fork of P0 failed: every process the user   *)
(* may signal, the parent among them, but P1 itself.                       *)
KillEverybody ==
  /\ at[1] = "kill"
  /\ at[0] = "failed"
  /\ at' = [at EXCEPT ![1] = "exit",
                      ![Parent] = IF @ \in Gone THEN @ ELSE "killed"]
  /\ writeEnd' = writeEnd \ {Parent}
  /\ UNCHANGED <<pending, pipe, printed>>

(* The default action of a signal that is not blocked.                     *)
Struck ==
  /\ pending /\ at[0] = "block"
  /\ pending' = FALSE
  /\ Proceed(0, "killed")
  /\ writeEnd' = writeEnd \ {0}
  /\ UNCHANGED <<pipe, printed>>

Exit(p) ==
  /\ at[p] = "exit"
  /\ Proceed(p, "done")
  /\ writeEnd' = writeEnd \ {p}
  /\ UNCHANGED <<pending, pipe, printed>>

-----------------------------------------------------------------------------
(* The first close(fd[WR]); later ones fail and change nothing.            *)
Close ==
  /\ at[Parent] = "read"
  /\ Parent \in writeEnd
  /\ writeEnd' = writeEnd \ {Parent}
  /\ UNCHANGED <<at, pending, pipe, printed>>

(* read() of a message.  With nobody left to write it returns 0 and is     *)
(* called again: a step that changes nothing.                              *)
Read ==
  /\ at[Parent] = "read"
  /\ Parent \notin writeEnd
  /\ pipe # <<>>
  /\ printed' = Append(printed, Head(pipe))
  /\ pipe' = Tail(pipe)
  /\ Proceed(Parent, IF Len(printed') = 2 THEN "wait" ELSE "read")
  /\ UNCHANGED <<pending, writeEnd>>

WaitForBoth ==
  /\ at[Parent] = "wait"
  /\ \A c \in ProcessIds : at[c] \in Gone
  /\ Proceed(Parent, "done")
  /\ UNCHANGED <<pending, pipe, writeEnd, printed>>

(* The user kills a process of the program.                                *)
Die(p) ==
  /\ p \in Mortal
  /\ at[p] \notin Gone \cup {"unborn", "failed"}
  /\ Proceed(p, "killed")
  /\ writeEnd' = writeEnd \ {p}
  /\ pending' = (pending /\ p # 0)
  /\ UNCHANGED <<pipe, printed>>

-----------------------------------------------------------------------------
Step0 == Block \/ Sigwait \/ Struck \/ Write(0) \/ Exit(0)
Step1 == Write(1) \/ Kill \/ KillEverybody \/ Exit(1)
ParentStep == Fork0 \/ Fork1 \/ Close \/ Read \/ WaitForBoth

ExchangeNext == Step0 \/ Step1 \/ ParentStep \/ \E p \in Writers : Die(p)

ExchangeSpec == ExchangeInit /\ [][ExchangeNext]_exchangeVars

(* Each of the three processes is scheduled.                               *)
FairExchangeSpec ==
  /\ ExchangeSpec
  /\ WF_exchangeVars(Step0) /\ WF_exchangeVars(Step1) /\ WF_exchangeVars(ParentStep)

-----------------------------------------------------------------------------
(* The message of P1 comes out of the pipe before that of P0, the I and II *)
(* of 5-communication-scheme.png, whoever is fast, slow or killed.         *)
PrintsInOrder == \A k \in 1..Len(printed) : printed[k] = 2 - k

(* The parent stays without a message only if a fork failed or a child was *)
(* ended by a signal; read() returning 0 for ever is never the fault of an *)
(* orderly exchange (lines 108-119).                                       *)
StarvesOnlyAfterLoss ==
  (at[Parent] = "read" /\ pipe = <<>> /\ writeEnd = {}) =>
    \E c \in ProcessIds : at[c] \in {"killed", "failed"}

(* The exchange comes to its end unless a process of it is lost.           *)
ExchangeEnds ==
  <>(at[Parent] = "done" \/ \E p \in Writers : at[p] \in {"killed", "failed"})
=============================================================================
