---------------------------- MODULE LaunchersMC ----------------------------
(* Programs whose children pass messages through the kernel, one of them    *)
(* per behaviour: 4/1 with its pipes, 5/ with its pipe and its signal, and  *)
(* both halves of 7/, the queue and the slots.                              *)
EXTENDS ProgramSlotsMC, ProgramQueueMC, MessageExchange, CombinationPipes

VARIABLE program

SlotsIdle ==
  /\ Init
  /\ total = 0 /\ size = 0 /\ ~scarce /\ ~missing
QueueIdle == QueueInit
ExchangeIdle ==
  /\ at = [p \in Writers |-> "done"]
  /\ pending = FALSE /\ pipe = <<>> /\ writeEnd = {} /\ printed = <<1, 0>>

PipesIdle ==
  /\ failing = TRUE /\ stage = "done" /\ index = PROCESS_COUNT
  /\ offspring = [c \in Offspring |-> "waited"]
  /\ writers = [c \in Offspring |-> {}]
  /\ content = [c \in Offspring |-> Unset]
  /\ fact = [c \in Offspring |-> c]
  /\ closed_processes = PROCESS_COUNT

MCInit ==
  \/ program = "slots" /\ Init /\ QueueIdle /\ ExchangeIdle /\ PipesIdle
  \/ program = "queue" /\ QueueInit /\ SlotsIdle /\ ExchangeIdle /\ PipesIdle
  \/ program = "exchange" /\ ExchangeInit /\ SlotsIdle /\ QueueIdle /\ PipesIdle
  \/ program = "pipes" /\ PipesInit /\ SlotsIdle /\ QueueIdle /\ ExchangeIdle

MCVars == <<program, vars, queueVars, exchangeVars, pipesVars>>

(* What a program does, while the others are not run.                       *)
Others(p) ==
  /\ UNCHANGED program
  /\ p # "slots" => UNCHANGED vars
  /\ p # "queue" => UNCHANGED queueVars
  /\ p # "exchange" => UNCHANGED exchangeVars
  /\ p # "pipes" => UNCHANGED pipesVars
In(p, A) == program = p /\ A /\ Others(p)

MCNext ==
  \/ In("slots", Next)
  \/ In("queue", QueueNext)
  \/ In("exchange", ExchangeNext)
  \/ In("pipes", PipesNext)

(* The fairness of FairSpec, FairQueueSpec, FairExchangeSpec, FairPipesSpec.*)
MCFairness ==
  /\ WF_MCVars(In("slots", Monitor))
  /\ \A p \in Pids : WF_MCVars(In("slots", ProgramEnds(p)))
  /\ \A l \in Launchers : WF_MCVars(In("queue", Step(l)))
  /\ WF_MCVars(In("exchange", Step0)) /\ WF_MCVars(In("exchange", Step1))
  /\ WF_MCVars(In("exchange", ParentStep))
  /\ WF_MCVars(In("pipes", Calculate))
  /\ \A c \in Offspring : WF_MCVars(In("pipes", WriteFactorial(c) \/ ExitChild(c)))

MCSpec == MCInit /\ [][MCNext]_MCVars /\ MCFairness
=============================================================================
