----------------------------- MODULE TempFileMC -----------------------------
(* TempFile with the three children of calculateCombination, and a file     *)
(* that is not there, or is there with a record of the first child.  The     *)
(* fork of the first or the second child may fail.                           *)
EXTENDS TempFile

MCChildren == 0..2
MCLeftover == {Absent, [id |-> 0, fact |-> "stale"]}
NoLeftover == {Absent}
MCFailing == {{}, {0}, {1}}
NoneFails == {{}}
=============================================================================
