------------------------------ MODULE TempFile ------------------------------
(***************************************************************************)
(* The program of 4/2: C(n, k) from three factorials, each computed by a   *)
(* child process that hands it to the parent through the file ./.tmp.      *)
(* A child that finds no file creates one and writes its record; the       *)
(* parent that finds the file reads it, signals the child named in it,     *)
(* and removes the file.  A child repeats until the signal has come.       *)
(*                                                                         *)
(* A step is what a process does between two system calls that another     *)
(* process can tell apart: access, fopen, the write of fclose, the read of *)
(* fscanf, kill, remove, waitpid.  Only the parent removes the file, so a  *)
(* child's stream is on the file that has the name, or on one without.     *)
(* What an earlier run, or one that was interrupted, left in the file is a *)
(* choice of the initial state.                                            *)
(***************************************************************************)
EXTENDS Integers, FiniteSets

CONSTANTS Children, \* ids of the children, 0..PROCESS_COUNT - 1 in the code
          Leftover, \* what ./.tmp may hold when the program starts
          Failing,  \* sets of children whose forks may fail together
          None,     \* no stream, no record, no value
          Absent,   \* there is no ./.tmp
          Empty     \* there is one with nothing in it

(* A record names its writer and holds a factorial: of this run, or stale. *)
Records == [id : Children, fact : {"this run", "stale"}]

ASSUME ChildrenAssumption ==
  /\ IsFiniteSet(Children)
  /\ Failing \subseteq SUBSET Children
  /\ None \notin Records \cup {"this run", "stale"}
  /\ {Absent, Empty} \cap Records = {} /\ Absent # Empty
  /\ Leftover \subseteq {Absent, Empty} \cup [id : Children, fact : {"stale"}]

VARIABLES
  failed,  \* the children that fork() did not make: their pid[] is -1
  file,    \* ./.tmp: Absent, Empty or the record in it
  child,   \* where each child is
  stream,  \* per child, its open stream: on the "named" file, an "orphan", None
  record,  \* per child, the flag its signal handler clears
  handler, \* per child, whether SIGUSR1 is caught; signal() catches it once
  pending, \* per child, SIGUSR1 sent and not delivered
  parent,  \* where the parent is
  got,     \* the record fscanf returned, or None
  closed,  \* closed_processes
  value,   \* per child, n_fact, k_fact, nk_fact: of this run, stale or None
  told,    \* history: the children kill() was called for
  left     \* history: the file as the program found it
vars == <<failed, file, child, stream, record, handler, pending,
          parent, got, closed, value, told, left>>
childVars == <<child, stream, record, handler>>

Mine(c) == [id |-> c, fact |-> "this run"]

TypeOK ==
  /\ failed \in Failing
  /\ file \in {Absent, Empty} \cup Records
  /\ child \in [Children -> {"none", "start", "loop", "access", "open", "write", "done", "killed"}]
  /\ stream \in [Children -> {"named", "orphan", None}]
  /\ record \in [Children -> BOOLEAN]
  /\ handler \in [Children -> BOOLEAN]
  /\ pending \in [Children -> BOOLEAN]
  /\ parent \in {"poll", "read", "tell", "remove", "wait", "done"}
  /\ got \in Records \cup {None}
  /\ closed \in 0..Cardinality(Children)
  /\ value \in [Children -> {"this run", "stale", None}]
  /\ told \subseteq Children
  /\ left \in Leftover

Alive(c) == child[c] \notin {"none", "done", "killed"}

Init ==
  /\ left \in Leftover
  /\ failed \in Failing
  /\ file = left
  /\ child = [c \in Children |-> IF c \in failed THEN "none" ELSE "start"]
  /\ stream = [c \in Children |-> None]
  /\ record = [c \in Children |-> TRUE]
  /\ handler = [c \in Children |-> FALSE]
  /\ pending = [c \in Children |-> FALSE]
  /\ parent = "poll"
  /\ got = None
  /\ closed = 0
  /\ value = [c \in Children |-> None]
  /\ told = {}

-----------------------------------------------------------------------------
(* childBehavior                                                           *)

Goto(c, l) == child' = [child EXCEPT ![c] = l]

(* signal(SIGUSR1, signalHandler), then the factorial.                     *)
Install(c) ==
  /\ child[c] = "start"
  /\ handler' = [handler EXCEPT ![c] = TRUE]
  /\ Goto(c, "loop")
  /\ UNCHANGED <<failed, file, stream, record, pending, parent, got, closed, value, told, left>>

CheckNothing(c) ==  \* bug: while (true)
  /\ child[c] = "loop"
  /\ Goto(c, "access")
  /\ UNCHANGED <<failed, file, stream, record, handler, pending, parent, got, closed, value, told, left>>

(* while (record)                                                          *)
Check(c) ==
  /\ child[c] = "loop"
  /\ Goto(c, IF record[c] THEN "access" ELSE "done")
  /\ UNCHANGED <<failed, file, stream, record, handler, pending, parent, got, closed, value, told, left>>

Access(c) ==
  /\ child[c] = "access"
  /\ Goto(c, IF file = Absent THEN "open" ELSE "loop")
  /\ UNCHANGED <<failed, file, stream, record, handler, pending, parent, got, closed, value, told, left>>

(* fopen(FILENAME, "w") creates the file or empties the one that is there. *)
Open(c) ==
  /\ child[c] = "open"
  /\ file' = Empty
  /\ stream' = [stream EXCEPT ![c] = "named"]
  /\ Goto(c, "write")
  /\ UNCHANGED <<failed, record, handler, pending, parent, got, closed, value, told, left>>

(* fprintf and fclose: one write, over whatever another child wrote.       *)
Write(c) ==
  /\ child[c] = "write"
  /\ file' = IF stream[c] = "named" THEN Mine(c) ELSE file
  /\ stream' = [stream EXCEPT ![c] = None]
  /\ Goto(c, "loop")
  /\ UNCHANGED <<failed, record, handler, pending, parent, got, closed, value, told, left>>

(* SIGUSR1 reaches the child: the handler, whose installation the delivery *)
(* undoes, or the default action, which is death.                          *)
Deliver(c) ==
  /\ pending[c] /\ Alive(c)
  /\ pending' = [pending EXCEPT ![c] = FALSE]
  /\ \/ /\ handler[c]
        /\ record' = [record EXCEPT ![c] = FALSE]
        /\ handler' = [handler EXCEPT ![c] = FALSE]
        /\ UNCHANGED <<child, stream>>
     \/ /\ ~handler[c]
        /\ Goto(c, "killed")
        /\ stream' = [stream EXCEPT ![c] = None]
        /\ UNCHANGED <<record, handler>>
  /\ UNCHANGED <<failed, file, parent, got, closed, value, told, left>>

-----------------------------------------------------------------------------
(* calculateCombination                                                    *)

PollBlindly ==  \* bug: access() not asked
  /\ parent = "poll"
  /\ parent' = IF closed = Cardinality(Children) THEN "wait" ELSE "read"
  /\ UNCHANGED <<failed, file, childVars, pending, got, closed, value, told, left>>

(* The loop condition and access().                                        *)
Poll ==
  /\ parent = "poll"
  /\ \/ closed = Cardinality(Children) /\ parent' = "wait"
     \/ closed # Cardinality(Children) /\ file # Absent /\ parent' = "read"
  /\ UNCHANGED <<failed, file, childVars, pending, got, closed, value, told, left>>

(* fopen(FILENAME, "r") and fscanf, which may find a file still empty.     *)
Read ==
  /\ parent = "read"
  /\ \/ file \in Records /\ got' = file /\ parent' = "tell"
     \/ file \notin Records /\ got' = None /\ parent' = "remove"
  /\ UNCHANGED <<failed, file, childVars, pending, closed, value, told, left>>

(* The processes kill(pid[c]) reaches: all there are if pid[c] is -1.      *)
Reached(c) == IF c \in failed THEN Children \ failed ELSE {c}

(* ++closed_processes, kill(pid[tmp_id], SIGUSR1) and the switch.          *)
Tell ==
  /\ parent = "tell"
  /\ closed' = closed + 1
  /\ pending' = [c \in Children |-> pending[c] \/ c \in Reached(got.id)]
  /\ value' = [value EXCEPT ![got.id] = got.fact]
  /\ told' = told \cup Reached(got.id)
  /\ parent' = "remove"
  /\ UNCHANGED <<failed, file, childVars, got, left>>

RemoveFile ==
  /\ parent = "remove"
  /\ file' = Absent
  /\ stream' = [c \in Children |-> IF stream[c] = "named" THEN "orphan" ELSE stream[c]]
  /\ parent' = "poll"
  /\ UNCHANGED <<failed, child, record, handler, pending, got, closed, value, told, left>>

WaitNoHang ==  \* bug: waitpid(..., WNOHANG)
  /\ parent = "wait"
  /\ parent' = "done"
  /\ UNCHANGED <<failed, file, childVars, pending, got, closed, value, told, left>>

(* waitpid for every child, or for any instead of one that was not forked; *)
(* then the result is printed.                                             *)
Wait ==
  /\ parent = "wait"
  /\ \A c \in Children : ~Alive(c)
  /\ parent' = "done"
  /\ UNCHANGED <<failed, file, childVars, pending, got, closed, value, told, left>>

-----------------------------------------------------------------------------
ChildStep(c) ==
  Install(c) \/ Check(c) \/ Access(c) \/ Open(c) \/ Write(c)

ParentStep == Poll \/ Read \/ Tell \/ RemoveFile \/ Wait

Next == \/ \E c \in Children : ChildStep(c) \/ Deliver(c)
        \/ ParentStep

Spec == Init /\ [][Next]_vars

(* Processes that can run are run, signals that are sent are delivered.    *)
Fairness == /\ \A c \in Children : WF_vars(ChildStep(c)) /\ WF_vars(Deliver(c))
            /\ WF_vars(ParentStep)

FairSpec == Spec /\ Fairness

-----------------------------------------------------------------------------
(* From access() to remove() the parent has its file: fopen never returns  *)
(* the NULL the code would go on to read from, and remove() succeeds, no   *)
(* matter which children create, empty and write it meanwhile (lines 73-95)*)
PolledFileStays == parent \in {"read", "tell", "remove"} => file # Absent

(* The program prints C(n, k): the factorials it divides are all there and *)
(* are of this run, but for the one child that a file left by an earlier   *)
(* run names.  Counting records does not ensure it; that the parent waits  *)
(* for children that end only when told does (lines 71-102).  The one of a *)
(* child that was not forked may be missing, and any may when an old file  *)
(* names such a child: kill(-1) then ends children that have not written.  *)
PrintsTheCombination ==
  parent = "done" =>
    \A c \in Children :
      /\ value[c] = None => c \in failed \/ (left \in Records /\ left.id \in failed)
      /\ value[c] = "stale" => left \in Records /\ left.id = c

(* Before the parent waits for the children it has told each of them to    *)
(* end (comments on lines 71, 82-83 and 98).                               *)
AllToldBeforeWait == parent = "wait" => Children \ failed \subseteq told

(* Once all were told the program comes to its end, wherever the signals   *)
(* find the children and however often they are sent (lines 22-25, 99).    *)
ToldProgramEnds == (parent = "wait" /\ Children \ failed \subseteq told) ~> parent = "done"
=============================================================================
