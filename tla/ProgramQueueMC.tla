--------------------------- MODULE ProgramQueueMC ---------------------------
(* ProgramQueue for two launchers in the same directory.                   *)
EXTENDS ProgramQueue

CONSTANTS l1, l2

Two == {l1, l2}
=============================================================================
