--------------------------- MODULE ProgramSlotsMC ---------------------------
(* ProgramSlots with as many process ids as there may be processes, so     *)
(* that ids are reused at once.                                            *)
EXTENDS ProgramSlots, TLC

MCPids   == 1..MaxCount
=============================================================================
