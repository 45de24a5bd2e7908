------------------------------ MODULE ProcInfo ------------------------------
(***************************************************************************)
(* RGZ/ProcInfo.h: what the library asks the processor.  A processor is a  *)
(* record of what CPUID answers:                                           *)
(*   cpuid   whether it has the instruction at all                         *)
(*   levels  the highest standard level (EAX of level 0)                   *)
(*   table   the descriptors of level 2, at 0..254, in the order in which  *)
(*           the code would read them                                      *)
(*   leaves  level 4 by sublevel: the level of the cache described, 0 for  *)
(*           none, its line size and the number of such lines              *)
(* Sizes are in bytes; those of caches are below 4 GB, which uint32_t holds*)
(***************************************************************************)
EXTENDS Integers, TLC

TableSize == 255  \* cache_table_size
LVL_2 == 2
LVL_4 == 4
L3_CACHE == 3

None == [size |-> 0, line |-> 0]
Empty(c) == c.size = 0 /\ c.line = 0

KB == 1024
MB == 1024 * KB

(* The switch: the descriptors of caches of the third level.               *)
DescribedSize ==
  (34 :> 512 * KB)  @@ (35 :> 1 * MB)   @@ (37 :> 2 * MB)  @@ (41 :> 4 * MB) @@
  (70 :> 4 * MB)    @@ (71 :> 8 * MB)   @@ (73 :> 4 * MB)  @@ (74 :> 3 * MB) @@
  (75 :> 8 * MB)    @@ (76 :> 12 * MB)  @@ (77 :> 16 * MB) @@
  (208 :> 512 * KB) @@ (209 :> 1 * MB)  @@ (210 :> 2 * MB) @@
  (214 :> 1 * MB)   @@ (215 :> 2 * MB)  @@ (216 :> 4 * MB) @@
  (220 :> 1536 * KB) @@ (221 :> 3 * MB) @@ (222 :> 6 * MB) @@
  (226 :> 2 * MB)   @@ (227 :> 4 * MB)  @@ (228 :> 8 * MB) @@
  (234 :> 12 * MB)  @@ (235 :> 18 * MB) @@ (236 :> 24 * MB)

(* cpuIdCheck(): the conditional jump goes to the line behind it, so the   *)
(* answer is true on any processor.                                        *)
CpuIdCheck(cpu) == TRUE

(* The search of the table goes on while the cache found is NOT empty: one *)
(* that begins with an empty cache ends at once, and any other finds what  *)
(* the last of the descriptors describes.                                  *)
SearchFrom(c, table) ==
  LET hits == {d \in 0..(TableSize - 1) : table[d] \in DOMAIN DescribedSize} IN
  IF Empty(c) \/ hits = {} THEN c
  ELSE [size |-> DescribedSize[table[CHOOSE d \in hits : \A e \in hits : e <= d]], line |-> 64]

TableSearch(cpu) == SearchFrom(None, cpu.table)

(* The first of the sublevels 0..3 that describes a cache of level 3.      *)
LeafSearchTo(cpu, last) ==
  LET hits == {s \in 0..last : cpu.leaves[s].level = L3_CACHE} IN
  IF hits = {} THEN None
  ELSE LET leaf == cpu.leaves[CHOOSE s \in hits : \A t \in hits : s <= t] IN
       [size |-> leaf.lineSize * leaf.lines, line |-> leaf.lineSize]

LeafSearchShort(cpu) == LeafSearchTo(cpu, LVL_4 - 2)  \* bug: the last one left out

LeafSearch(cpu) == LeafSearchTo(cpu, LVL_4 - 1)

GetL3Cache(cpu) ==
  IF ~CpuIdCheck(cpu) \/ cpu.levels < LVL_2 THEN None
  ELSE IF Empty(TableSearch(cpu)) /\ cpu.levels >= LVL_4 THEN LeafSearch(cpu)
  ELSE TableSearch(cpu)
=============================================================================
