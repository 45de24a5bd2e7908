-------------------------- MODULE CombinationPipes --------------------------
(***************************************************************************)
(* 4/1: calculateCombination with pipes.  The parent makes a pipe and      *)
(* forks a child for each of n!, k! and (n - k)!; a child also inherits    *)
(* the pipes made before its own.  Then the parent closes the write ends,  *)
(* reads the pipes in turn without waiting until it has counted as many    *)
(* messages as there are children, and waits for the children.  A factorial*)
(* is represented by the child that computes it.                           *)
(***************************************************************************)
EXTENDS Integers, FiniteSets

CONSTANTS PROCESS_COUNT,
          Unset           \* no value: what is in an uninitialised variable

ASSUME CountAssumption == PROCESS_COUNT \in 1..255 /\ Unset \notin 0..(PROCESS_COUNT - 1)

Offspring == 0..(PROCESS_COUNT - 1)
ERR == -1

VARIABLES
  failing,   \* whether forks and execs may fail, and children be killed
  stage,     \* where the parent is
  index,     \* its loop variable
  offspring, \* "none", "failed", "running", "astray", "written", "ended", "waited"
  writers,   \* per pipe, the processes with its write end; -1 is the parent
  content,   \* per pipe, the message in it
  fact,      \* n_fact, k_fact, nk_fact
  closed_processes
pipesVars == <<failing, stage, index, offspring, writers, content, fact, closed_processes>>

ParentId == -1
Messages == Offspring \cup {Unset}

PipesTypeOK ==
  /\ failing \in BOOLEAN
  /\ stage \in {"fork", "poll", "wait", "done"}
  /\ index \in 0..PROCESS_COUNT
  /\ offspring \in [Offspring -> {"none", "failed", "running", "astray", "written", "ended", "waited"}]
  /\ writers \in [Offspring -> SUBSET (Offspring \cup {ParentId})]
  /\ content \in [Offspring -> Messages]
  /\ fact \in [Offspring -> Messages]
  /\ closed_processes \in 0..PROCESS_COUNT

PipesInit ==
  /\ failing \in BOOLEAN
  /\ stage = "fork" /\ index = 0
  /\ offspring = [c \in Offspring |-> "none"]
  /\ writers = [c \in Offspring |-> {}]
  /\ content = [c \in Offspring |-> Unset]
  /\ fact = [c \in Offspring |-> Unset]
  /\ closed_processes = 0

-----------------------------------------------------------------------------
(* pipe() and fork(): the child has the write ends of its own pipe and of  *)
(* those made earlier.                                                     *)
ForkChild(result) ==
  /\ stage = "fork" /\ index # PROCESS_COUNT
  /\ offspring' = [offspring EXCEPT ![index] = result]
  /\ writers' = [p \in Offspring |->
       (IF p = index THEN {ParentId} ELSE writers[p])
         \cup (IF p <= index /\ result = "running" THEN {index} ELSE {})]
  /\ index' = index + 1
  /\ UNCHANGED <<failing, stage, content, fact, closed_processes>>

ForkFails == failing /\ ForkChild("failed")

EndForking ==
  /\ stage = "fork" /\ index = PROCESS_COUNT
  /\ stage' = "poll" /\ index' = 0
  /\ UNCHANGED <<failing, offspring, writers, content, fact, closed_processes>>

(* execl() fails and returns: the child goes on as a second parent, with   *)
(* children and pipes of its own after c.  Of the first parent's pipes it  *)
(* has those up to c; it closes their write ends, and may take what is in  *)
(* them.  Nobody writes into pipe c, so that it polls for ever.            *)
BecomeParent(c) ==
  /\ failing /\ offspring[c] = "running"
  /\ offspring' = [offspring EXCEPT ![c] = "astray"]
  /\ UNCHANGED <<failing, stage, index, writers, content, fact, closed_processes>>

TakeAway(c, p) ==
  /\ offspring[c] = "astray" /\ p <= c
  /\ writers' = [writers EXCEPT ![p] = @ \ {c}]
  /\ content' = [content EXCEPT ![p] = Unset]
  /\ UNCHANGED <<failing, stage, index, offspring, fact, closed_processes>>

(* processBehavior: the factorial into its own pipe.                       *)
WriteFactorial(c) ==
  /\ offspring[c] = "running"
  /\ content' = [content EXCEPT ![c] = c]
  /\ offspring' = [offspring EXCEPT ![c] = "written"]
  /\ UNCHANGED <<failing, stage, index, writers, fact, closed_processes>>

(* The end of a process closes the write ends that it has.                 *)
EndOf(c) ==
  /\ offspring' = [offspring EXCEPT ![c] = "ended"]
  /\ writers' = [p \in Offspring |-> writers[p] \ {c}]
  /\ UNCHANGED <<failing, stage, index, content, fact, closed_processes>>

ExitChild(c) == offspring[c] = "written" /\ EndOf(c)

Killed(c) == failing /\ offspring[c] \in {"running", "astray", "written"} /\ EndOf(c)

-----------------------------------------------------------------------------
(* One turn of the inner loop.  close(fds[i][WR]) fails from the second    *)
(* pass on, unnoticed.  Neither the end of a pipe, which read() gives when *)
(* nobody has the write end, nor EAGAIN counts.                            *)
Turn ==
  /\ stage = "poll" /\ index # PROCESS_COUNT
  /\ writers' = [writers EXCEPT ![index] = @ \ {ParentId}]
  /\ index' = index + 1
  /\ UNCHANGED <<failing, stage, offspring>>

ReceiveAnything ==  \* bug: received >= INCOMPLETE_DATA
  /\ Turn
  /\ content[index] # Unset \/ writers'[index] = {}
  /\ fact' = [fact EXCEPT ![index] = IF content[index] # Unset THEN content[index] ELSE fact[index]]
  /\ content' = [content EXCEPT ![index] = Unset]
  /\ closed_processes' = (closed_processes + 1) % 256

ReceiveFactorial ==
  /\ Turn
  /\ content[index] # Unset
  /\ fact' = [fact EXCEPT ![index] = content[index]]
  /\ content' = [content EXCEPT ![index] = Unset]
  /\ closed_processes' = (closed_processes + 1) % 256

ReceiveNothing ==
  /\ Turn
  /\ content[index] = Unset
  /\ UNCHANGED <<fact, content, closed_processes>>

EndPassShort ==  \* bug: i != PROCESS_COUNT - 1
  /\ stage = "poll" /\ index = PROCESS_COUNT - 1
  /\ stage' = IF closed_processes = PROCESS_COUNT THEN "wait" ELSE "poll"
  /\ index' = 0
  /\ UNCHANGED <<failing, offspring, writers, content, fact, closed_processes>>

(* closed_processes is compared after a pass, not within it.               *)
EndPass ==
  /\ stage = "poll" /\ index = PROCESS_COUNT
  /\ stage' = IF closed_processes = PROCESS_COUNT THEN "wait" ELSE "poll"
  /\ index' = 0
  /\ UNCHANGED <<failing, offspring, writers, content, fact, closed_processes>>

WaitForEach ==
  /\ stage = "wait" /\ index # PROCESS_COUNT
  /\ offspring[index] = "ended"
  /\ offspring' = [offspring EXCEPT ![index] = "waited"]
  /\ index' = index + 1
  /\ UNCHANGED <<failing, stage, writers, content, fact, closed_processes>>

Finish ==
  /\ stage = "wait" /\ index = PROCESS_COUNT
  /\ stage' = "done"
  /\ UNCHANGED <<failing, index, offspring, writers, content, fact, closed_processes>>

Calculate ==
  \/ ForkChild("running") \/ ForkFails
  \/ EndForking
  \/ ReceiveFactorial \/ ReceiveNothing \/ EndPass
  \/ WaitForEach
  \/ Finish

PipesNext ==
  \/ Calculate
  \/ \E c \in Offspring : WriteFactorial(c) \/ ExitChild(c) \/ Killed(c) \/ BecomeParent(c)
  \/ \E c, p \in Offspring : TakeAway(c, p)

PipesSpec == PipesInit /\ [][PipesNext]_pipesVars

(* The parent and the children are scheduled; nobody has to be killed.     *)
FairPipesSpec ==
  /\ PipesSpec
  /\ WF_pipesVars(Calculate)
  /\ \A c \in Offspring : WF_pipesVars(WriteFactorial(c) \/ ExitChild(c))

-----------------------------------------------------------------------------
(* The combination is computed from n!, k! and (n - k)!, each from its own *)
(* child and none of them uninitialised, even when forks or execs have     *)
(* failed or children were killed: then it is not computed (lines 64-88).  *)
PrintsFromEach == stage = "done" => \A c \in Offspring : fact[c] = c

(* If no fork or exec fails and no child is killed the program ends.       *)
CombinationEnds == ~failing ~> stage = "done"
=============================================================================
