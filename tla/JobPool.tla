------------------------------ MODULE JobPool ------------------------------
(***************************************************************************)
(* What the monitor of 7/ promises (README, task 7): of a number of        *)
(* programs each is started once, at most "limit" of them are in           *)
(* existence at a time, and each ends.                                     *)
(***************************************************************************)
EXTENDS Naturals

CONSTANT MaxJobs

VARIABLES waiting, running, ended, limit
jobVars == <<waiting, running, ended, limit>>

PoolInit ==
  /\ waiting \in 0..MaxJobs
  /\ limit \in 0..MaxJobs
  /\ running = 0
  /\ ended = 0

StartJob ==
  /\ waiting > 0 /\ running < limit
  /\ waiting' = waiting - 1
  /\ running' = running + 1
  /\ UNCHANGED <<ended, limit>>

EndJob ==
  /\ running > 0
  /\ running' = running - 1
  /\ ended' = ended + 1
  /\ UNCHANGED <<waiting, limit>>

PoolNext == StartJob \/ EndJob

PoolSafe == PoolInit /\ [][PoolNext]_jobVars

PoolSpec == PoolSafe /\ WF_jobVars(StartJob) /\ WF_jobVars(EndJob)
=============================================================================
