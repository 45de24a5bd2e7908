--------------------------- MODULE ServerStarter ---------------------------
(***************************************************************************)
(* startAllServers of 8/ and the chain it starts.  It forks a process per  *)
(* line of dns.url, which becomes a server by execl(), and then waits for  *)
(* them one by one.                                                        *)
(*                                                                         *)
(* When "./startServer" is not there, execl() returns and the child goes   *)
(* on with the fork loop: it is a starter of its own for the lines that    *)
(* are left.  A starter is named by the lines at whose fork it and its     *)
(* ancestors were the child; {} is the process the user ran.  (An execl()  *)
(* that fails for one server and works for another is not modelled.)       *)
(***************************************************************************)
EXTENDS DnsChain, FiniteSets

CONSTANT ForkMayFail

Starters == SUBSET Servers

ASSUME StarterAssumption ==
  /\ N <= 255
  /\ Started = {}
  /\ ForkMayFail \in BOOLEAN

VARIABLES
  missing, \* whether execl() fails, the program not being there
  place,   \* where each starter is; "none" before its fork
  line,    \* its loop variable
  pid,     \* per starter and line: its "own" child's pid, one "copied" from
           \* its parent, "zero" in the child itself, "error", or nothing yet
  reaped   \* the lines whose child it has waited for
starter  == <<missing, place, line, pid, reaped>>
allVars  == <<vars, starter>>

StarterTypeOK ==
  /\ missing \in BOOLEAN
  /\ place \in [Starters -> {"none", "fork", "wait", "done"}]
  /\ line \in [Starters -> 1..(N + 1)]
  /\ pid \in [Starters -> [Servers -> {"unset", "own", "copied", "zero", "error"}]]
  /\ reaped \in [Starters -> SUBSET Servers]

StarterInit ==
  /\ Init
  /\ missing \in BOOLEAN
  /\ place = [S \in Starters |-> IF S = {} THEN "fork" ELSE "none"]
  /\ line = [S \in Starters |-> 1]
  /\ pid = [S \in Starters |-> [s \in Servers |-> "unset"]]
  /\ reaped = [S \in Starters |-> {}]

Forked(s) == ~missing /\ pid[{}][s] = "own"

Own(S)           == {s \in Servers : pid[S][s] = "own"} \ reaped[S]
ChildEnded(S, s) == IF missing THEN place[S \cup {s}] = "done" ELSE Ended(s)

(* What a child finds in its copy of pid[].                                *)
CopyFor(S, s) == [t \in Servers |->
  IF t = s THEN "zero" ELSE IF pid[S][t] = "own" THEN "copied" ELSE pid[S][t]]

-----------------------------------------------------------------------------
ForkServer(S) ==
  /\ place[S] = "fork" /\ line[S] <= N
  /\ LET s == line[S]
         C == S \cup {s} IN
     IF missing
       THEN /\ place' = [place EXCEPT ![C] = "fork"]
            /\ line' = [line EXCEPT ![S] = s + 1, ![C] = s + 1]
            /\ pid' = [pid EXCEPT ![S][s] = "own", ![C] = CopyFor(S, s)]
       ELSE /\ line' = [line EXCEPT ![S] = s + 1]
            /\ pid' = [pid EXCEPT ![S][s] = "own"]
            /\ UNCHANGED place
  /\ UNCHANGED <<vars, missing, reaped>>

ForkFails(S) ==
  /\ ForkMayFail
  /\ place[S] = "fork" /\ line[S] <= N
  /\ pid' = [pid EXCEPT ![S][line[S]] = "error"]
  /\ line' = [line EXCEPT ![S] = @ + 1]
  /\ UNCHANGED <<vars, missing, place, reaped>>

EndForking(S) ==
  /\ place[S] = "fork" /\ line[S] = N + 1
  /\ place' = [place EXCEPT ![S] = "wait"]
  /\ line' = [line EXCEPT ![S] = 1]
  /\ UNCHANGED <<vars, missing, pid, reaped>>

(* The children waitpid(pid[line]) asks for: -1 and 0 ask for any.         *)
AskedFor(S) ==
  LET s == line[S] IN
  IF pid[S][s] \in {"zero", "error"} THEN Own(S) ELSE Own(S) \cap {s}

WaitNoHang(S) ==  \* bug: WNOHANG
  /\ place[S] = "wait" /\ line[S] <= N
  /\ line' = [line EXCEPT ![S] = @ + 1]
  /\ reaped' = [reaped EXCEPT ![S] = @ \cup {s \in AskedFor(S) : ChildEnded(S, s)}]
  /\ UNCHANGED <<vars, missing, place, pid>>

WaitUntilDone(S) ==  \* bug: waitpid() repeated until it returns pid[line]
  /\ place[S] = "wait" /\ line[S] <= N
  /\ \E s \in AskedFor(S) :
       /\ ChildEnded(S, s)
       /\ reaped' = [reaped EXCEPT ![S] = @ \cup {s}]
       /\ line' = [line EXCEPT ![S] = IF s = line[S] THEN @ + 1 ELSE @]
  /\ UNCHANGED <<vars, missing, place, pid>>

(* waitpid(pid[line], NULL, 0), or ECHILD at once if there is none to wait *)
(* for; either way on to the next line.                                    *)
WaitForServer(S) ==
  /\ place[S] = "wait" /\ line[S] <= N
  /\ IF AskedFor(S) = {}
       THEN UNCHANGED reaped
       ELSE \E s \in AskedFor(S) :
              /\ ChildEnded(S, s)
              /\ reaped' = [reaped EXCEPT ![S] = @ \cup {s}]
  /\ line' = [line EXCEPT ![S] = @ + 1]
  /\ UNCHANGED <<vars, missing, place, pid>>

EndWaiting(S) ==
  /\ place[S] = "wait" /\ line[S] = N + 1
  /\ place' = [place EXCEPT ![S] = "done"]
  /\ UNCHANGED <<vars, missing, line, pid, reaped>>

StarterStep(S) ==
  ForkServer(S) \/ ForkFails(S) \/ EndForking(S) \/ WaitForServer(S) \/ EndWaiting(S)

(* A step of the chain: only processes that were forked become servers.    *)
Chained(A) ==
  /\ A
  /\ \A s \in Servers : pc[s] = "boot" /\ pc'[s] # "boot" => Forked(s)
  /\ UNCHANGED starter

StarterNext ==
  \/ \E S \in Starters : StarterStep(S)
  \/ Chained(Next)

StarterSpec ==
  /\ StarterInit /\ [][StarterNext]_allVars
  /\ \A S \in Starters : WF_allVars(StarterStep(S))
  /\ \A p \in Peers : WF_allVars(Chained(Step(p)))

-----------------------------------------------------------------------------
(* No starter ends before every process it forked, although it waits for   *)
(* -1 where a fork failed and for 0 where it is itself the child, and so   *)
(* reaps another than the one whose turn it is (lines 61-63).              *)
DoneMeansAllEnded ==
  \A S \in Starters : place[S] = "done" =>
    /\ Own(S) = {}
    /\ \A s \in reaped[S] : ChildEnded(S, s)

(* A starter ends once the servers have: the failed forks and execs of     *)
(* others never leave it waiting (lines 49-63).                            *)
StartersEnd ==
  (\A s \in Servers : Forked(s) => Ended(s)) ~>
    \/ \A S \in Starters : place[S] \in {"none", "done"}
    \/ \E s \in Servers : Forked(s) /\ ~Ended(s)
=============================================================================
