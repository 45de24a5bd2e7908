--------------------------- MODULE SystemWindowMC ---------------------------
(* SystemWindow on six processors.                                         *)
EXTENDS SystemWindow

Cpu(cpuid, levels, table, leaves) ==
  [cpuid |-> cpuid, levels |-> levels, leaves |-> leaves,
   table |-> [i \in 0..(TableSize - 1) |-> table]]

NoLeaf  == [level |-> 0, lineSize |-> 0, lines |-> 0]
L3Leaf  == [level |-> 3, lineSize |-> 64, lines |-> 65536]
Level(l) == [level |-> l, lineSize |-> 64, lines |-> 512]

(* No CPUID; a descriptor and no level 4; level 4 with a third level in the *)
(* last sublevel, in an earlier one, and without one.                       *)
MCCpus == {
  Cpu(FALSE, 0, 0, [s \in 0..3 |-> NoLeaf]),
  Cpu(TRUE, 1, 0, [s \in 0..3 |-> NoLeaf]),
  Cpu(TRUE, 2, 34, [s \in 0..3 |-> NoLeaf]),
  Cpu(TRUE, 4, 34, <<Level(1), Level(2), L3Leaf>> @@ (0 :> Level(1))),
  Cpu(TRUE, 4, 0, <<Level(2), L3Leaf, NoLeaf>> @@ (0 :> Level(1))),
  Cpu(TRUE, 4, 0, <<Level(1), Level(2), NoLeaf>> @@ (0 :> Level(1)))}
=============================================================================
