-------------------------- MODULE CommandPipeline --------------------------
(***************************************************************************)
(* The program of 6/: tr | sort | uniq, in processes P0, P1 and P2 joined  *)
(* by two pipes the parent makes before it forks.  The parent forks one    *)
(* process, closes the pipe that is no longer used and waits for the       *)
(* process to end before it forks the next.                                *)
(*                                                                         *)
(* Each process has a set of pipe ends, <<0, "wr">> being fd_0[WR].  Who   *)
(* has which is what decides whether a reader ever sees the end of its     *)
(* input.  Data goes by lines, and a pipe holds Capacity of them.          *)
(***************************************************************************)
EXTENDS Integers, Sequences, FiniteSets, SequencesExt

CONSTANTS Lines,      \* lines of text, as numbers in the order of sort
          Strip,      \* what tr, called as it is, makes of each line
          ShellStrip, \* what it would make of it in the shell's command
          MaxInput,   \* bound of the length of the input file
          Capacity,   \* of a pipe, in lines
          MayFail     \* files that cannot be opened, forks that fail

ASSUME PipelineAssumption ==
  /\ Lines \subseteq Int
  /\ Strip \in [Lines -> Lines] /\ ShellStrip \in [Lines -> Lines]
  /\ MaxInput \in Nat
  /\ Capacity \in Nat \ {0}
  /\ MayFail \in BOOLEAN

PROCESS_COUNT == 3
Stages == 0..(PROCESS_COUNT - 1)
Pipes  == 0..(PROCESS_COUNT - 2)
Parent == PROCESS_COUNT
Ends   == Pipes \X {"rd", "wr"}
processPipe(i) == i - 1

VARIABLES
  input,   \* the input file
  output,  \* the output file
  held,    \* per stage, the text its utility has in memory
  pipe,    \* per pipe, the lines written and not read
  ends,    \* per process, the pipe ends it has open
  pc,      \* per stage, where it is; per parent, "fork", "wait" or "done"
  i,       \* the parent's loop variable
  lost     \* history: something failed
pipelineVars == <<input, output, held, pipe, ends, pc, i, lost>>

Texts == SeqOf(Lines, MaxInput)

StagePlaces  == {"unborn", "start", "read", "write", "exited", "failed"}
ParentPlaces == {"fork", "close", "wait", "done"}

PipelineTypeOK ==
  /\ input \in Texts
  /\ output \in Seq(Lines)
  /\ held \in [Stages -> Seq(Lines)]
  /\ pipe \in [Pipes -> Seq(Lines)]
  /\ \A k \in Pipes : Len(pipe[k]) <= Capacity
  /\ ends \in [Stages \cup {Parent} -> SUBSET Ends]
  /\ pc \in [Stages \cup {Parent} -> StagePlaces \cup ParentPlaces]
  /\ \A s \in Stages : pc[s] \in StagePlaces
  /\ pc[Parent] \in ParentPlaces
  /\ i \in Stages
  /\ lost \in BOOLEAN

PipelineInit ==
  /\ input \in Texts
  /\ output \in SeqOf(Lines, 1)
  /\ held = [s \in Stages |-> <<>>]
  /\ pipe = [k \in Pipes |-> <<>>]
  /\ ends = [p \in Stages \cup {Parent} |-> IF p = Parent THEN Ends ELSE {}]
  /\ pc = [p \in Stages \cup {Parent} |-> IF p = Parent THEN "fork" ELSE "unborn"]
  /\ i = 0
  /\ lost = FALSE

Goes(p, l) == pc' = [pc EXCEPT ![p] = l]
HasOpen(e) == \E p \in Stages \cup {Parent} : e \in ends[p]

-----------------------------------------------------------------------------
(* processMain                                                             *)

(* A fork gives the child the ends the parent has.  One that failed leaves *)
(* -1 in pid[i], and waitpid(-1) finds no child to wait for.               *)
Fork ==
  /\ pc[Parent] = "fork"
  /\ \/ /\ pc' = [pc EXCEPT ![i] = "start", ![Parent] = "close"]
        /\ ends' = [ends EXCEPT ![i] = ends[Parent]]
        /\ UNCHANGED lost
     \/ /\ MayFail
        /\ pc' = [pc EXCEPT ![i] = "failed", ![Parent] = "close"]
        /\ lost' = TRUE
        /\ UNCHANGED ends
  /\ UNCHANGED <<input, output, held, pipe, i>>

CloseReadEnd ==  \* bug: fd[WR] not closed
  /\ pc[Parent] = "close"
  /\ ends' = [ends EXCEPT ![Parent] = @ \ {<<processPipe(i), "rd">>}]
  /\ Goes(Parent, "wait")
  /\ UNCHANGED <<input, output, held, pipe, i, lost>>

(* From the second process on the pipe to it is closed.                    *)
Close ==
  /\ pc[Parent] = "close"
  /\ ends' = [ends EXCEPT ![Parent] = @ \ {<<processPipe(i), "rd">>, <<processPipe(i), "wr">>}]
  /\ Goes(Parent, "wait")
  /\ UNCHANGED <<input, output, held, pipe, i, lost>>

WaitForNothing ==  \* bug: waitpid(..., WNOHANG)
  /\ pc[Parent] = "wait"
  /\ \/ i < PROCESS_COUNT - 1 /\ i' = i + 1 /\ Goes(Parent, "fork")
     \/ i = PROCESS_COUNT - 1 /\ i' = i /\ Goes(Parent, "done")
  /\ UNCHANGED <<input, output, held, pipe, ends, lost>>

WaitFor ==
  /\ pc[Parent] = "wait"
  /\ pc[i] \in {"exited", "failed"}
  /\ \/ i < PROCESS_COUNT - 1 /\ i' = i + 1 /\ Goes(Parent, "fork")
     \/ i = PROCESS_COUNT - 1 /\ i' = i /\ Goes(Parent, "done")
  /\ UNCHANGED <<input, output, held, pipe, ends, lost>>

-----------------------------------------------------------------------------
(* The children: what each does up to execl().                             *)

(* The end of a process closes all it has.                                 *)
Exit(s) ==
  /\ pc' = [pc EXCEPT ![s] = "exited"]
  /\ ends' = [ends EXCEPT ![s] = {}]

(* open() or execl() fails.  The output file is emptied by an open() that  *)
(* works.                                                                  *)
GiveUp(s) ==
  /\ MayFail
  /\ pc[s] = "start"
  /\ Exit(s)
  /\ lost' = TRUE
  /\ output' = output \/ (s = 2 /\ output' = <<>>)
  /\ UNCHANGED <<input, held, pipe, i>>

(* processOne.  The ends of fd_1 are left open for tr.                     *)
BeTr ==
  /\ pc[0] = "start"
  /\ ends' = [ends EXCEPT ![0] = @ \ {<<0, "rd">>}]
  /\ Goes(0, "read")
  /\ UNCHANGED <<input, output, held, pipe, i, lost>>

BeSortOpen ==  \* bug: processTwo without close(fd[0][WR])
  /\ pc[1] = "start"
  /\ ends' = [ends EXCEPT ![1] = @ \ {<<1, "rd">>}]
  /\ Goes(1, "read")
  /\ UNCHANGED <<input, output, held, pipe, i, lost>>

(* processTwo                                                              *)
BeSort ==
  /\ pc[1] = "start"
  /\ ends' = [ends EXCEPT ![1] = @ \ {<<0, "wr">>, <<1, "rd">>}]
  /\ Goes(1, "read")
  /\ UNCHANGED <<input, output, held, pipe, i, lost>>

(* processThree: O_TRUNC empties the output file.                          *)
BeUniq ==
  /\ pc[2] = "start"
  /\ output' = <<>>
  /\ ends' = [ends EXCEPT ![2] = @ \ {<<1, "wr">>}]
  /\ Goes(2, "read")
  /\ UNCHANGED <<input, held, pipe, i, lost>>

-----------------------------------------------------------------------------
(* The utilities                                                           *)

(* tr reads its file and writes each line without digits and brackets.     *)
(* The argument of execl() holds the quotation marks that a shell would    *)
(* have removed, so that tr deletes those from the text, too.              *)
TrRead ==
  /\ pc[0] = "read"
  /\ held' = [held EXCEPT ![0] = [k \in DOMAIN input |-> Strip[input[k]]]]
  /\ Goes(0, "write")
  /\ UNCHANGED <<input, output, pipe, ends, i, lost>>

Sorted(t)    == \A a, b \in DOMAIN t : a < b => t[a] <= t[b]
Ascending(t) == \A a, b \in DOMAIN t : a < b => t[a] < t[b]
Reorderings(t) ==
  {[k \in DOMAIN t |-> t[p[k]]] : p \in Bijection(DOMAIN t, DOMAIN t)}

(* sort reads to the end of its input before it writes.                    *)
SortRead ==
  /\ pc[1] = "read"
  /\ \/ /\ pipe[0] # <<>>
        /\ held' = [held EXCEPT ![1] = Append(@, Head(pipe[0]))]
        /\ pipe' = [pipe EXCEPT ![0] = Tail(@)]
        /\ UNCHANGED pc
     \/ /\ pipe[0] = <<>> /\ ~HasOpen(<<0, "wr">>)
        /\ \E t \in Reorderings(held[1]) :
             Sorted(t) /\ held' = [held EXCEPT ![1] = t]
        /\ Goes(1, "write")
        /\ UNCHANGED pipe
  /\ UNCHANGED <<input, output, ends, i, lost>>

PipeWrite(s) ==
  /\ s \in {0, 1}
  /\ pc[s] = "write"
  /\ \/ /\ held[s] # <<>>
        /\ Len(pipe[s]) < Capacity
        /\ pipe' = [pipe EXCEPT ![s] = Append(@, Head(held[s]))]
        /\ held' = [held EXCEPT ![s] = Tail(@)]
        /\ UNCHANGED <<pc, ends>>
     \/ /\ held[s] = <<>>
        /\ Exit(s)
        /\ UNCHANGED <<pipe, held>>
  /\ UNCHANGED <<input, output, i, lost>>

(* uniq writes each line that is not like the one before.                  *)
UniqRead ==
  /\ pc[2] = "read"
  /\ \/ /\ pipe[1] # <<>>
        /\ output' = IF output # <<>> /\ Last(output) = Head(pipe[1])
                       THEN output ELSE Append(output, Head(pipe[1]))
        /\ pipe' = [pipe EXCEPT ![1] = Tail(@)]
        /\ UNCHANGED <<pc, ends>>
     \/ /\ pipe[1] = <<>> /\ ~HasOpen(<<1, "wr">>)
        /\ Exit(2)
        /\ UNCHANGED <<output, pipe>>
  /\ UNCHANGED <<input, held, i, lost>>

-----------------------------------------------------------------------------
ParentRuns == Fork \/ Close \/ WaitFor

StageStep(s) ==
  \/ GiveUp(s)
  \/ s = 0 /\ (BeTr \/ TrRead)
  \/ s = 1 /\ (BeSort \/ SortRead)
  \/ s = 2 /\ (BeUniq \/ UniqRead)
  \/ PipeWrite(s)

PipelineNext == ParentRuns \/ \E s \in Stages : StageStep(s)

PipelineSpec == PipelineInit /\ [][PipelineNext]_pipelineVars

(* Processes that can run are run.                                         *)
FairPipelineSpec ==
  /\ PipelineSpec
  /\ WF_pipelineVars(ParentRuns)
  /\ \A s \in Stages : WF_pipelineVars(StageStep(s))

-----------------------------------------------------------------------------
(* When the parent says that all processes are done the output file holds  *)
(* each of the lines that tr makes once, in ascending order, and nothing   *)
(* of what it held before, unless a fork or an open failed (lines 106-144).*)
DoneMeansResult ==
  pc[Parent] = "done" /\ ~lost =>
    Ascending(output) /\ Range(output) = {Strip[input[k]] : k \in DOMAIN input}

(* It holds what the command of the comment on line 152 computes (also     *)
(* README, task 6).                                                        *)
DoneMeansShellResult ==
  pc[Parent] = "done" /\ ~lost =>
    Range(output) = {ShellStrip[input[k]] : k \in DOMAIN input}

(* While the parent waits for a process that reads from a pipe nobody has  *)
(* the pipe open for writing, the reader and the parent included: the      *)
(* reader sees the end of its input (lines 62, 90, 129-138).               *)
EndOfInputIsSeen ==
  \A s \in Stages \ {0} :
    pc[s] = "read" /\ pc[Parent] = "wait" => ~HasOpen(<<processPipe(s), "wr">>)

(* An input that fits into a pipe goes through, whatever fails on the way  *)
(* (lines 115-141).                                                        *)
FittingInputPasses == Len(input) <= Capacity => <>(pc[Parent] = "done")

(* The pipeline passes every input, as that of a shell does (comment on    *)
(* lines 151-152).                                                         *)
PipelineEnds == <>(pc[Parent] = "done")
=============================================================================
