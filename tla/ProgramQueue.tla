---------------------------- MODULE ProgramQueue ----------------------------
(***************************************************************************)
(* The first half of 7/: start() forks a child for each program wanted;    *)
(* each child puts one name into a System V message queue without waiting  *)
(* for room; when all have ended the launcher takes as many messages as    *)
(* there were to be children, and removes the queue.                       *)
(*                                                                         *)
(* The queue belongs to the key ftok(".", 'q'), not to a process: every    *)
(* launcher started in the directory uses it, and it outlives a launcher   *)
(* that is interrupted.  A message is represented by the launcher whose    *)
(* child sent it.                                                          *)
(***************************************************************************)
EXTENDS Integers, Sequences, FiniteSets

CONSTANTS Launchers,     \* processes that run start()
          Count,         \* proc_count
          QueueLimit,    \* messages the queue has room for
          ForkMayFail,
          Interruptible  \* launchers the user may interrupt

ASSUME QueueAssumption ==
  /\ IsFiniteSet(Launchers)
  /\ Count \in 0..255
  /\ QueueLimit \in Nat
  /\ ForkMayFail \in BOOLEAN
  /\ Interruptible \subseteq Launchers

Children == 1..Count
NoQueue  == 0
QueueIds == 1..Cardinality(Launchers)

VARIABLES
  queue,    \* the id of the queue the key has, or NoQueue
  made,     \* how many queues were created; their ids are 1..made
  messages, \* what is in the queue
  phase,    \* where each launcher is
  msgq,     \* msgq_id of each launcher
  child,    \* per launcher and child, where it is, "ready" being after msgget
  childq,   \* msgq_id of each child
  names     \* prog_name, the messages received
queueVars == <<queue, made, messages, phase, msgq, child, childq, names>>
kernel == <<queue, made, messages>>

Ended == {"sent", "refused", "killed"}

QueueTypeOK ==
  /\ queue \in QueueIds \cup {NoQueue}
  /\ made \in 0..Cardinality(Launchers)
  /\ messages \in Seq(Launchers) /\ Len(messages) <= QueueLimit
  /\ phase \in [Launchers -> {"start", "fork", "receive", "close", "launch", "killed"}]
  /\ msgq \in [Launchers -> QueueIds \cup {NoQueue}]
  /\ child \in [Launchers -> [Children -> {"unborn", "failed", "born", "ready"} \cup Ended]]
  /\ childq \in [Launchers -> [Children -> QueueIds \cup {NoQueue}]]
  /\ names \in [Launchers -> Seq(Launchers)]
  /\ \A l \in Launchers : Len(names[l]) <= Count

QueueInit ==
  /\ queue = NoQueue /\ made = 0 /\ messages = <<>>
  /\ phase = [l \in Launchers |-> "start"]
  /\ msgq = [l \in Launchers |-> NoQueue]
  /\ child = [l \in Launchers |-> [c \in Children |-> "unborn"]]
  /\ childq = [l \in Launchers |-> [c \in Children |-> NoQueue]]
  /\ names = [l \in Launchers |-> <<>>]

Goto(l, where) == phase' = [phase EXCEPT ![l] = where]
Becomes(l, c, s) == child' = [child EXCEPT ![l][c] = s]

-----------------------------------------------------------------------------
(* msgget(IPC_CREAT): the queue the key has, or a new one.                 *)
Create(l) ==
  /\ phase[l] = "start"
  /\ IF queue = NoQueue
       THEN queue' = made + 1 /\ made' = made + 1
       ELSE UNCHANGED <<queue, made>>
  /\ msgq' = [msgq EXCEPT ![l] = queue']
  /\ Goto(l, "fork")
  /\ UNCHANGED <<messages, child, childq, names>>

(* The next child is forked.  A fork that fails is only reported.          *)
Fork(l, c) ==
  /\ phase[l] = "fork"
  /\ child[l][c] = "unborn" /\ \A d \in 1..(c - 1) : child[l][d] # "unborn"
  /\ \/ Becomes(l, c, "born")
     \/ ForkMayFail /\ Becomes(l, c, "failed")
  /\ UNCHANGED <<kernel, phase, msgq, childq, names>>

(* A child's msgget: the queue the key has by now, or an error, on which   *)
(* the child goes on with an id that is none.                              *)
Open(l, c) ==
  /\ child[l][c] = "born"
  /\ childq' = [childq EXCEPT ![l][c] = queue]
  /\ Becomes(l, c, "ready")
  /\ UNCHANGED <<kernel, phase, msgq, names>>

(* msgsnd(IPC_NOWAIT) and exit: whether there was room or not.             *)
Send(l, c) ==
  /\ child[l][c] = "ready"
  /\ \/ /\ childq[l][c] = queue /\ queue # NoQueue /\ Len(messages) < QueueLimit
        /\ messages' = Append(messages, l)
        /\ Becomes(l, c, "sent")
     \/ /\ childq[l][c] # queue \/ queue = NoQueue \/ Len(messages) >= QueueLimit
        /\ Becomes(l, c, "refused")
        /\ UNCHANGED messages
  /\ UNCHANGED <<queue, made, phase, msgq, childq, names>>

WaitForNone(l) ==  \* bug: waitpid(..., WNOHANG)
  /\ phase[l] = "fork"
  /\ \A c \in Children : child[l][c] # "unborn"
  /\ Goto(l, "receive")
  /\ UNCHANGED <<kernel, msgq, child, childq, names>>

(* waitpid of each pid.  One of -1, where fork failed, waits for any of    *)
(* the children and lets its own waitpid fail: still all have ended.       *)
Wait(l) ==
  /\ phase[l] = "fork"
  /\ \A c \in Children : child[l][c] \in Ended \cup {"failed"}
  /\ Goto(l, "receive")
  /\ UNCHANGED <<kernel, msgq, child, childq, names>>

ReceiveOneMore(l) ==  \* bug: while (received_count <= proc_count)
  /\ phase[l] = "receive"
  /\ \/ /\ Len(names[l]) <= Count
        /\ msgq[l] = queue /\ messages # <<>>
        /\ names' = [names EXCEPT ![l] = Append(@, Head(messages))]
        /\ messages' = Tail(messages)
        /\ UNCHANGED phase
     \/ /\ Len(names[l]) > Count
        /\ Goto(l, "close")
        /\ UNCHANGED <<messages, names>>
  /\ UNCHANGED <<queue, made, msgq, child, childq>>

(* msgrcv waits while the queue is empty; when the queue is gone it fails  *)
(* at once, and is called again and again.                                 *)
Receive(l) ==
  /\ phase[l] = "receive"
  /\ \/ /\ Len(names[l]) < Count
        /\ msgq[l] = queue /\ messages # <<>>
        /\ names' = [names EXCEPT ![l] = Append(@, Head(messages))]
        /\ messages' = Tail(messages)
        /\ UNCHANGED phase
     \/ /\ Len(names[l]) = Count
        /\ Goto(l, "close")
        /\ UNCHANGED <<messages, names>>
  /\ UNCHANGED <<queue, made, msgq, child, childq>>

(* msgctl(IPC_RMID) removes the queue with all that is in it.              *)
Remove(l) ==
  /\ phase[l] = "close"
  /\ IF msgq[l] = queue
       THEN queue' = NoQueue /\ messages' = <<>>
       ELSE UNCHANGED <<queue, messages>>
  /\ Goto(l, "launch")
  /\ UNCHANGED <<made, msgq, child, childq, names>>

(* SIGINT ends a launcher and its children, and leaves the queue.          *)
Interrupt(l) ==
  /\ l \in Interruptible
  /\ phase[l] \in {"fork", "receive", "close"}
  /\ Goto(l, "killed")
  /\ child' = [child EXCEPT ![l] =
       [c \in Children |-> IF @[c] \in {"born", "ready"} THEN "killed" ELSE @[c]]]
  /\ UNCHANGED <<kernel, msgq, childq, names>>

-----------------------------------------------------------------------------
Step(l) ==
  \/ Create(l)
  \/ \E c \in Children : Fork(l, c) \/ Open(l, c) \/ Send(l, c)
  \/ Wait(l)
  \/ Receive(l)
  \/ Remove(l)

QueueNext == \E l \in Launchers : Step(l) \/ Interrupt(l)

QueueSpec == QueueInit /\ [][QueueNext]_queueVars

(* Processes that can run are run.                                         *)
FairQueueSpec == QueueSpec /\ \A l \in Launchers : WF_queueVars(Step(l))

-----------------------------------------------------------------------------
(* What can cost a launcher a name: a fork that failed, a child msgsnd had *)
(* no room or no queue for, another launcher of the directory that took it.*)
Lost(l) ==
  \/ \E c \in Children : child[l][c] \in {"failed", "refused"}
  \/ \E k \in Launchers \ {l} : \E n \in 1..Len(names[k]) : names[k][n] = l

(* msgrcv never makes a launcher wait but for a name that was lost: it     *)
(* begins to receive when its children have ended, and what they sent, or  *)
(* as much from others, is in the queue (lines 57-59, 109-117).            *)
BlocksOnlyAfterLoss ==
  \A l \in Launchers :
    (phase[l] = "receive" /\ Len(names[l]) < Count /\ msgq[l] = queue /\ messages = <<>>) =>
      Lost(l)

(* A launcher that lost nothing and whose queue no other launcher removed  *)
(* gets as many names as it wants and goes on (lines 104-123).             *)
NamesArrive ==
  \A l \in Launchers :
    phase[l] = "fork" ~> (phase[l] \in {"launch", "killed"} \/ Lost(l) \/ msgq[l] # queue)
=============================================================================
