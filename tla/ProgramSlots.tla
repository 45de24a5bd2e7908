---------------------------- MODULE ProgramSlots ----------------------------
(***************************************************************************)
(* The second half of 7/: launchProgramProcesses and its ProcessList.  The *)
(* monitor keeps active_proc_count slots; each pass over them first fills  *)
(* the inactive slots with programs of the list, then asks every slot, a   *)
(* free one too, whether its process has ended.                            *)
(*                                                                         *)
(* The kernel may give a new process the pid of one that was waited for,   *)
(* so a free slot can name somebody else's process.                        *)
(***************************************************************************)
EXTENDS Integers, Sequences, FiniteSets

CONSTANTS MaxCount,    \* bound of the counts on the command line, a uint8_t
          Pids,        \* process ids the kernel has
          Garbage      \* what malloc'ed memory holds

Slots == 0..(MaxCount - 1)
ERROR == -1

ASSUME SlotsAssumption ==
  /\ MaxCount \in 1..255
  /\ IsFiniteSet(Pids) /\ Cardinality(Pids) >= MaxCount
  /\ {0, ERROR} \cap Pids = {}
  /\ Garbage \notin Pids \cup {0, ERROR}

VARIABLES
  total,   \* proc_count
  size,    \* active_proc_count, the size of the list
  scarce,  \* whether the system may run out of processes, and forks fail
  missing, \* whether there is no xterm, and every execl() fails
  astray,  \* whether the monitor is a child that execl() returned to
  status,  \* ProcessList
  active,
  closed,
  amount,
  pid,     \* per slot, what fork() returned
  i,       \* the loop variable
  pc,      \* where the monitor is
  process, \* per pid, "none", "running" or "ended" and not waited for
  started  \* history: indices into prog_name, in the order of their start
vars == <<total, size, scarce, missing, astray, status, active, closed, amount, pid, i, pc, process, started>>
setting == <<total, size, scarce, missing, astray>>
list == <<status, active, closed, amount>>

TypeOK ==
  /\ total \in 0..MaxCount
  /\ size \in 0..MaxCount
  /\ scarce \in BOOLEAN /\ missing \in BOOLEAN /\ astray \in BOOLEAN
  /\ status \in [Slots -> {"active", "inactive"}]
  /\ active \in 0..255 /\ closed \in 0..255 /\ amount \in 0..255
  /\ pid \in [Slots -> Pids \cup {0, ERROR, Garbage}]
  /\ i \in 0..size
  /\ pc \in {"start", "fill", "reap", "done", "refused"}
  /\ process \in [Pids -> {"none", "running", "ended"}]
  /\ started \in Seq(-1..254)

Init ==
  /\ total \in 0..MaxCount
  /\ size \in 0..MaxCount
  /\ scarce \in BOOLEAN /\ missing \in BOOLEAN /\ astray = FALSE
  /\ status = [s \in Slots |-> "inactive"]
  /\ active = 0 /\ closed = 0 /\ amount = 0
  /\ pid = [s \in Slots |-> Garbage]
  /\ i = 0
  /\ pc = "start"
  /\ process = [p \in Pids |-> "none"]
  /\ started = <<>>

Existing == {p \in Pids : process[p] # "none"}

-----------------------------------------------------------------------------
(* processList.c.  The counts are uint8_t.                                 *)

makeActiveForgetting(s) ==  \* bug: amount without the closed ones
  /\ status' = [status EXCEPT ![s] = "active"]
  /\ active' = (active + 1) % 256
  /\ amount' = active'
  /\ UNCHANGED closed

makeActiveProcess(s) ==
  /\ status' = [status EXCEPT ![s] = "active"]
  /\ active' = (active + 1) % 256
  /\ amount' = (active' + closed) % 256
  /\ UNCHANGED closed

makeInactiveProcess(s) ==
  /\ status' = [status EXCEPT ![s] = "inactive"]
  /\ active' = (active - 1) % 256
  /\ closed' = (closed + 1) % 256
  /\ amount' = (active' + closed') % 256

(* waitpid(p, NULL, WNOHANG) returns r.  A p of -1 or 0 asks for any child.*)
Waitpid(p, r) ==
  LET asked == IF p \in {0, ERROR} THEN Existing ELSE Existing \cap {p} IN
  \/ /\ r \in asked /\ process[r] = "ended"
     /\ process' = [process EXCEPT ![r] = "none"]
  \/ /\ r = 0 /\ asked # {} /\ \A q \in asked : process[q] = "running"
     /\ UNCHANGED process
  \/ /\ r = ERROR /\ asked = {}
     /\ UNCHANGED process

(* The values that reading pid[s] may give.                                *)
PidAt(s) == IF pid[s] = Garbage THEN Pids \cup {0, ERROR} ELSE {pid[s]}

-----------------------------------------------------------------------------
StartAnyhow ==  \* bug: the arguments are not compared
  /\ pc = "start"
  /\ pc' = IF total = 0 THEN "done" ELSE "fill"
  /\ UNCHANGED <<setting, list, pid, i, process, started>>

(* start(): more slots than programs are refused.                          *)
Start ==
  /\ pc = "start"
  /\ pc' = IF size > total THEN "refused" ELSE IF total = 0 THEN "done" ELSE "fill"
  /\ UNCHANGED <<setting, list, pid, i, process, started>>

FillingOnAndOn == pc = "fill" /\ i # size                     \* bug: amount

Filling == pc = "fill" /\ i # size /\ amount # total

SkipActive ==
  /\ Filling
  /\ status[i] = "active"
  /\ i' = i + 1
  /\ UNCHANGED <<setting, list, pid, pc, process, started>>

LaunchAnywhere(p) ==  \* bug: the status of the slot is not asked
  /\ Filling
  /\ makeActiveProcess(i)
  /\ process[p] = "none"
  /\ process' = [process EXCEPT ![p] = "running"]
  /\ pid' = [pid EXCEPT ![i] = p]
  /\ started' = Append(started, amount' - 1)
  /\ i' = i + 1
  /\ UNCHANGED <<setting, pc>>

Launch(p) ==
  /\ Filling
  /\ status[i] = "inactive"
  /\ makeActiveProcess(i)
  /\ process[p] = "none"
  /\ process' = [process EXCEPT ![p] = "running"]
  /\ pid' = [pid EXCEPT ![i] = p]
  /\ started' = Append(started, amount' - 1)
  /\ i' = i + 1
  /\ UNCHANGED <<setting, pc>>

(* fork() returns -1, which is reported and stays in pid[i].               *)
LaunchFails ==
  /\ scarce
  /\ Filling
  /\ status[i] = "inactive"
  /\ makeActiveProcess(i)
  /\ pid' = [pid EXCEPT ![i] = ERROR]
  /\ i' = i + 1
  /\ UNCHANGED <<setting, pc, process, started>>

(* execl() returns to the child, which goes on as a monitor with a copy of *)
(* the list, 0 in pid[i] and no children.  From here on the variables are  *)
(* the child's; to the monitor it came from it is a running program.       *)
GoAstray ==
  /\ missing
  /\ Filling
  /\ status[i] = "inactive"
  /\ makeActiveProcess(i)
  /\ process' = [p \in Pids |-> "none"]
  /\ pid' = [pid EXCEPT ![i] = 0]
  /\ started' = Append(started, amount' - 1)
  /\ i' = i + 1
  /\ astray' = TRUE
  /\ UNCHANGED <<total, size, scarce, missing, pc>>

EndFilling ==
  /\ pc = "fill"
  /\ i = size \/ amount = total
  /\ pc' = "reap"
  /\ i' = 0
  /\ UNCHANGED <<setting, list, pid, process, started>>

ReapRunning ==  \* bug: waitpid() != ERROR
  /\ pc = "reap" /\ i # size
  /\ \E p \in PidAt(i), r \in Pids \cup {0} : Waitpid(p, r)
  /\ makeInactiveProcess(i)
  /\ i' = i + 1
  /\ UNCHANGED <<setting, pid, pc, started>>

ReapEnded ==
  /\ pc = "reap" /\ i # size
  /\ \E p \in PidAt(i) : Waitpid(p, p)
  /\ makeInactiveProcess(i)
  /\ i' = i + 1
  /\ UNCHANGED <<setting, pid, pc, started>>

ReapUntilEnded ==  \* bug: waitpid() repeated until it returns pid[i]
  /\ pc = "reap" /\ i # size
  /\ \E p \in PidAt(i), r \in Pids \cup {0, ERROR} : r # p /\ Waitpid(p, r)
  /\ UNCHANGED <<setting, list, pid, i, pc, started>>

ReapOther ==
  /\ pc = "reap" /\ i # size
  /\ \E p \in PidAt(i), r \in Pids \cup {0, ERROR} : r # p /\ Waitpid(p, r)
  /\ i' = i + 1
  /\ UNCHANGED <<setting, list, pid, pc, started>>

EndReaping ==
  /\ pc = "reap" /\ i = size
  /\ pc' = IF closed = total THEN "done" ELSE "fill"
  /\ i' = 0
  /\ UNCHANGED <<setting, list, pid, process, started>>

(* A program ends, or its terminal is closed.                              *)
ProgramEnds(p) ==
  /\ process[p] = "running"
  /\ process' = [process EXCEPT ![p] = "ended"]
  /\ UNCHANGED <<setting, list, pid, i, pc, started>>

Monitor ==
  \/ Start
  \/ SkipActive
  \/ \E p \in Pids : Launch(p)
  \/ LaunchFails
  \/ GoAstray
  \/ EndFilling
  \/ ReapEnded
  \/ ReapOther
  \/ EndReaping

Next == Monitor \/ \E p \in Pids : ProgramEnds(p)

Spec == Init /\ [][Next]_vars

(* The monitor runs; every program ends at last.                           *)
FairSpec == /\ Spec
            /\ WF_vars(Monitor)
            /\ \A p \in Pids : WF_vars(ProgramEnds(p))

-----------------------------------------------------------------------------
Ran == Len(started) - Cardinality(Existing)  \* started, ended, waited for

(* "closed" counts the programs that have ended and were waited for, also  *)
(* when a free slot names the process of another (lines 86-89).  After a   *)
(* failed fork it does not: waitpid(-1) reaps any process, or returns the  *)
(* -1 that pid[i] holds and closes what never ran.                         *)
ClosesWhatEnds == ~scarce /\ ~astray => closed = Ran

(* The programs are started in the order of prog_name, none of them twice  *)
(* and none left out: amount - 1 is the next index (lines 75-83).          *)
StartsEachOnce == ~scarce => \A k \in 1..Len(started) : started[k] = k - 1

(* No index beyond the end of prog_name is used, even when forks or execs  *)
(* fail and monitors go astray (lines 75-83).                              *)
StaysInTheList == \A k \in 1..Len(started) : started[k] \in 0..(total - 1)

(* No slot is asked for its process before it had one (lines 66, 87-88).   *)
AsksOnlyFilledSlots == pc = "reap" => \A s \in 0..(size - 1) : pid[s] # Garbage

(* With a slot to run them in, all programs get run and the monitor ends.  *)
EverythingRuns == (pc = "start" /\ 0 < size /\ size <= total /\ ~scarce /\ ~missing) ~> pc = "done"

(* The monitor implements the pool of jobs, even when forks fail: never    *)
(* more than N programs exist at a time, and no more are started than were *)
(* asked for.  Only one astray, which starts programs over again, does not.*)
Pool == INSTANCE JobPool WITH
  MaxJobs <- MaxCount,
  waiting <- total - Len(started),
  running <- Cardinality(Existing),
  ended   <- Ran,
  limit   <- size
ImplementsPool == Pool!PoolInit /\ [][astray' \/ [Pool!PoolNext]_Pool!jobVars]_vars
=============================================================================
