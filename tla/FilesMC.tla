------------------------------ MODULE FilesMC ------------------------------
(* The programs that work with files, one of them per behaviour: 4/2 with   *)
(* its ./.tmp, and the pipeline of 6/ between two files.                    *)
EXTENDS TempFileMC, CommandPipelineMC

VARIABLE program

TempFileIdle ==
  /\ Init
  /\ left = Absent /\ failed = {}
PipelineIdle ==
  /\ input = <<>> /\ output = <<>> /\ lost = FALSE
  /\ held = [s \in Stages |-> <<>>] /\ pipe = [k \in Pipes |-> <<>>]
  /\ ends = [p \in Stages \cup {Parent} |-> {}]
  /\ pc = [p \in Stages \cup {Parent} |-> IF p = Parent THEN "done" ELSE "exited"]
  /\ i = PROCESS_COUNT - 1

MCInit ==
  \/ program = "temp_file" /\ Init /\ PipelineIdle
  \/ program = "pipeline" /\ PipelineInit /\ TempFileIdle

MCVars == <<program, vars, pipelineVars>>

(* What a program does, while the other is not run.                         *)
InTempFile(A) == program = "temp_file" /\ A /\ UNCHANGED <<program, pipelineVars>>
InPipeline(A) == program = "pipeline" /\ A /\ UNCHANGED <<program, vars>>

MCNext == InTempFile(Next) \/ InPipeline(PipelineNext)

(* The fairness of FairSpec and FairPipelineSpec.                           *)
MCFairness ==
  /\ \A c \in Children : WF_MCVars(InTempFile(ChildStep(c))) /\ WF_MCVars(InTempFile(Deliver(c)))
  /\ WF_MCVars(InTempFile(ParentStep))
  /\ WF_MCVars(InPipeline(ParentRuns))
  /\ \A s \in Stages : WF_MCVars(InPipeline(StageStep(s)))

MCSpec == MCInit /\ [][MCNext]_MCVars /\ MCFairness
=============================================================================
