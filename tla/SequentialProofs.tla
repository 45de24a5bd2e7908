-------------------------- MODULE SequentialProofs --------------------------
(***************************************************************************)
(* Theorems about the programs that keep to themselves: the script of 1/,  *)
(* the folders of 2/, the file tables of 3/, the vector of 8/ and the      *)
(* window of RGZ.                                                          *)
(***************************************************************************)
EXTENDS FileUnification, FolderList, FileTables, AddressVector, SystemWindow,
        FiniteSetTheorems, FunctionTheorems, SequenceTheorems,
        WellFoundedInduction, TLAPS

-----------------------------------------------------------------------------
(* AddressVector                                                           *)

(* The capacities the vector takes while they fit.                         *)
Capacities == {0, 1, 2, 3, 5, 8, 12, 18, 27, 41, 62, 93, 140, 210}

VectorInv ==
  /\ size \in Nat /\ capacity \in Nat /\ block \in Nat
  /\ ~outside => /\ capacity \in Capacities
                 /\ block = capacity
                 /\ size <= block
  /\ outside => size > 210

LEMMA GrowsByTheTable ==
  ASSUME NEW c \in Capacities, c # 210
  PROVE  Grown(c, c) \in Capacities /\ Grown(c, c) > c
<1>1. c = 0 \/ c = 1 \/ c = 2 \/ c = 3 \/ c = 5 \/ c = 8 \/ c = 12 \/ c = 18
      \/ c = 27 \/ c = 41 \/ c = 62 \/ c = 93 \/ c = 140
  BY DEF Capacities
<1> QED BY <1>1 DEF Grown, Rounded, Capacities

LEMMA VectorInitiallyInv == VectorInit => VectorInv
BY VectorAssumption DEF VectorInit, VectorInv, Capacities

LEMMA VectorAddKeeps == VectorInv /\ VectorAdd => VectorInv'
<1> SUFFICES ASSUME VectorInv, VectorAdd PROVE VectorInv'
  OBVIOUS
<1>1. ~outside /\ capacity \in Capacities /\ block = capacity /\ size <= capacity /\ size \in Nat
  BY DEF VectorInv, VectorAdd
<1>2. capacity \in 0..210
  BY <1>1 DEF Capacities
<1>3. size' = size + 1
  BY <1>1, <1>2 DEF VectorAdd
<1>4. outside' <=> size >= block'
  BY <1>1 DEF VectorAdd
<1>5. CASE size # capacity
  <2>1. capacity' = capacity /\ block' = capacity
    BY <1>1, <1>5 DEF VectorAdd
  <2>2. ~outside' /\ size' <= capacity
    BY <1>1, <1>2, <1>3, <1>4, <1>5, <2>1
  <2> QED BY <1>1, <1>2, <1>3, <2>1, <2>2 DEF VectorInv
<1>6. CASE size = capacity /\ capacity # 210
  <2>1. capacity' \in Capacities /\ capacity' > size /\ block' = capacity'
    BY <1>1, <1>6, GrowsByTheTable DEF VectorAdd
  <2>2. capacity' \in Nat
    BY <2>1 DEF Capacities
  <2>3. ~outside' /\ size' <= capacity'
    BY <1>1, <1>3, <1>4, <2>1, <2>2
  <2> QED BY <1>1, <1>3, <2>1, <2>2, <2>3 DEF VectorInv
<1>7. CASE size = 210 /\ capacity = 210
  <2>1. capacity' = 59 /\ block' = 59
    BY <1>7 DEF VectorAdd, Grown, Rounded
  <2>2. outside' /\ size' = 211
    BY <1>3, <1>4, <1>7, <2>1
  <2> QED BY <2>1, <2>2 DEF VectorInv
<1> QED BY <1>5, <1>6, <1>7

(* Whatever dns.url holds, 210 of its lines fit into the vector that       *)
(* fillServerAddressList fills (vector.c 19-28).                           *)
THEOREM VectorHoldsTheLines == VectorSpec => []HoldsTheLines
<1>1. VectorInv /\ UNCHANGED vectorVars => VectorInv'
  BY DEF VectorInv, vectorVars
<1>2. VectorInv => HoldsTheLines
  BY DEF VectorInv, HoldsTheLines
<1> QED BY <1>1, <1>2, VectorInitiallyInv, VectorAddKeeps, PTL DEF VectorSpec

-----------------------------------------------------------------------------
(* FolderList                                                              *)

Full == {e \in EntriesOf(Listed) : "dir" \in inside[e] /\
           (path = "./" \/ cwd[e] \in {"dir", "fifo"})}

FolderInv ==
  /\ path = "./" => other = cwd
  /\ path = "./" => \A e \in opened : cwd[e] = "dir"
  /\ \A e \in Entries \ opened : inside[e] = {}
  /\ unread \subseteq EntriesOf(Listed)
  /\ \A e \in printed : e \in EntriesOf(Listed) /\ inside[e] \ {"file"} # {}
  /\ Full \subseteq printed \cup unread

(* isDirectory() knows a folder when it is given one, and a regular file.  *)
LEMMA FoldersAreKnown ==
  /\ \A answer \in IsDirectory("dir") : answer
  /\ \A answer \in IsDirectory("fifo") : answer
  /\ \A answer \in IsDirectory("file") : ~answer
BY DEF IsDirectory

(* The search finds something in a folder that has a subdirectory, and     *)
(* nothing where there are only regular files.                             *)
LEMMA SearchFinds ==
  ASSUME NEW e, NEW finds \in HasSubfolder(e)
  PROVE  /\ "dir" \in inside[e] => finds
         /\ finds => inside[e] \ {"file"} # {}
<1>1. PICK answer \in [inside[e] -> BOOLEAN] :
        /\ \A k \in inside[e] : answer[k] \in IsDirectory(k)
        /\ finds = (\E k \in inside[e] : answer[k])
  BY DEF HasSubfolder
<1>2. "dir" \in inside[e] => finds
  BY <1>1, FoldersAreKnown
<1>3. ASSUME finds PROVE inside[e] \ {"file"} # {}
  <2>1. PICK k \in inside[e] : answer[k]
    BY <1>1, <1>3
  <2>2. k # "file"
    BY <1>1, <2>1, FoldersAreKnown
  <2> QED BY <2>1, <2>2
<1> QED BY <1>2, <1>3

LEMMA FolderInitiallyInv == FolderInit => FolderInv
BY DEF FolderInit, FolderInv, Full, Listed

LEMMA VisitKeeps ==
  ASSUME NEW e \in Entries, FolderInv, Visit(e) PROVE FolderInv'
<1>1. PICK isDir \in IsDirectory(cwd[e]), finds \in HasSubfolder(e) :
        printed' = IF isDir /\ e \in opened /\ finds
                   THEN printed \cup {e} ELSE printed
  BY DEF Visit
<1>2. /\ Listed' = Listed /\ Full' = Full
      /\ UNCHANGED <<path, cwd, other, opened, inside>>
      /\ e \in unread /\ unread' = unread \ {e}
  BY DEF Visit, Full, Listed, EntriesOf
<1>3. \A f \in printed' : f \in EntriesOf(Listed) /\ inside[f] \ {"file"} # {}
  BY <1>1, <1>2, SearchFinds DEF FolderInv
<1>4. ASSUME e \in Full PROVE e \in printed'
  <2>1. e \in opened
    BY <1>4 DEF FolderInv, Full
  <2>2. cwd[e] \in {"dir", "fifo"}
    BY <1>4, <2>1 DEF FolderInv, Full
  <2>3. isDir
    BY <2>2, FoldersAreKnown
  <2>4. finds
    BY <1>4, SearchFinds DEF Full
  <2> QED BY <1>1, <2>1, <2>3, <2>4
<1>5. printed \subseteq printed'
  BY <1>1
<1>6. Full' \subseteq printed' \cup unread'
  BY <1>2, <1>4, <1>5 DEF FolderInv
<1>7. EntriesOf(Listed)' = EntriesOf(Listed)
  BY <1>2 DEF EntriesOf
<1> QED BY <1>2, <1>3, <1>6, <1>7 DEF FolderInv

(* For any names in the directories, whatever isDirectory() says where     *)
(* stat() fails: a folder of the current directory that has a subdirectory *)
(* is printed, one of another directory if its name is a folder's, or the  *)
(* like, in the current one; and none is that holds regular files only     *)
(* (Functions.c 19-53).                                                    *)
THEOREM FoldersAreListed == FolderSpec => []ListsFolders
<1>1. FolderInv /\ [FolderNext]_folderVars => FolderInv'
  <2>1. FolderInv /\ UNCHANGED folderVars => FolderInv'
    BY DEF FolderInv, folderVars, Full, Listed, EntriesOf
  <2> QED BY <2>1, VisitKeeps DEF FolderNext
<1>2. FolderInv => ListsFolders
  BY DEF FolderInv, ListsFolders, Full
<1> QED BY <1>1, <1>2, FolderInitiallyInv, PTL DEF FolderSpec

-----------------------------------------------------------------------------
(* SystemWindow                                                            *)

Holding(S) == /\ \A s \in S : string[s] # "null"
              /\ \A s \in Strings \ S : string[s] = "null"

(* How far the thread has come, and what it has filled by then.            *)
ThreadInv ==
  /\ thread \in {"unborn", "load"} => Holding({})
  /\ thread = "name" => Holding({}) /\ dll
  /\ thread = "cache" => Holding({"proc_name"}) /\ dll /\ cpu.cpuid
  /\ thread = "time" => Holding({"proc_name", "cache"}) /\ dll /\ cpu.cpuid
  /\ thread = "ended" => \/ dll /\ cpu.cpuid /\ Holding(Strings)
                         \/ ~dll /\ Holding({})

(* Nothing is drawn, and nothing deleted, before the thread has ended.     *)
PaintInv ==
  /\ pc \in {"create", "none"} => thread = "unborn"
  /\ pc \in {"show", "loop", "done"} => thread = "ended"
  /\ pc # "loop" /\ pc # "done" => paints = 0
  /\ paints = 0 => /\ shown = "nothing" /\ ~dangling
                   /\ \A s \in Strings : string[s] # "freed"

WindowInv == WindowTypeOK /\ ThreadInv /\ PaintInv /\ FirstPaintIsTrue

LEMMA WindowInitiallyInv == WindowInit => WindowInv
<1> SUFFICES ASSUME WindowInit PROVE WindowInv
  OBVIOUS
<1>1. WindowTypeOK
  <2>1. string \in [Strings -> {"null", "held", "freed"}]
    BY DEF WindowInit
  <2>2. paints \in 0..MaxPaints
    BY WindowAssumption DEF WindowInit
  <2> QED BY <2>1, <2>2 DEF WindowInit, WindowTypeOK, ShownValues
<1>2. ThreadInv /\ PaintInv
  BY DEF WindowInit, ThreadInv, PaintInv, Holding
<1>3. FirstPaintIsTrue
  BY DEF WindowInit, FirstPaintIsTrue
<1> QED BY <1>1, <1>2, <1>3 DEF WindowInv

(* What a drawing shows when the thread has ended.                         *)
LEMMA DrawingKeeps ==
  ASSUME WindowInv, DrawAndDelete, thread = "ended", paints < MaxPaints,
         UNCHANGED <<machine, thread, found, quit>>, pc' = "loop"
  PROVE  WindowInv'
<1>1. paints \in Nat /\ paints' = paints + 1 /\ paints' \in 0..MaxPaints
  <2>1. paints \in 0..MaxPaints
    BY DEF WindowInv, WindowTypeOK
  <2>2. paints' = paints + 1
    BY DEF DrawAndDelete
  <2> QED BY <2>1, <2>2, WindowAssumption
<1>2. cpu' = cpu /\ dll' = dll /\ thread' = "ended" /\ pc' = "loop"
  BY DEF machine
<1>3. string' = [s \in Strings |-> IF string[s] = "null" THEN "null" ELSE "freed"]
  BY DEF DrawAndDelete
<1>4. string' \in [Strings -> {"null", "held", "freed"}]
  BY <1>3
<1>5. dangling' <=> \E s \in Strings : string[s] = "freed"
  BY DEF DrawAndDelete
<1>6. dangling' \in BOOLEAN /\ invalid' = FALSE /\ quit' = quit
  BY DEF DrawAndDelete
<1>7. CASE dll /\ cpu.cpuid /\ Holding(Strings)
  <2>1. shown' = IF \E s \in Strings : string[s] = "freed" THEN "freed" ELSE "data"
    BY <1>7 DEF DrawAndDelete, Holding
  <2>2. paints = 0 => shown' = "data" /\ ~dangling'
    BY <1>5, <2>1 DEF WindowInv, PaintInv
  <2>3. Holding(Strings)'
    BY <1>3, <1>7 DEF Holding
  <2>4. WindowTypeOK'
    BY <1>1, <1>2, <1>4, <1>6, <2>1 DEF WindowInv, WindowTypeOK, ShownValues
  <2>5. ThreadInv' /\ PaintInv'
    BY <1>1, <1>2, <1>7, <2>3 DEF ThreadInv, PaintInv
  <2>6. FirstPaintIsTrue'
    BY <1>1, <1>2, <1>7, <2>1, <2>2 DEF FirstPaintIsTrue
  <2> QED BY <2>4, <2>5, <2>6 DEF WindowInv
<1>8. CASE ~dll /\ Holding({})
  <2>1. shown' = "no DLL" /\ ~dangling'
    BY <1>5, <1>8 DEF DrawAndDelete, Holding, Strings
  <2>2. Holding({})'
    BY <1>3, <1>8 DEF Holding
  <2>3. WindowTypeOK'
    BY <1>1, <1>2, <1>4, <1>6, <2>1 DEF WindowInv, WindowTypeOK, ShownValues
  <2>4. ThreadInv' /\ PaintInv'
    BY <1>1, <1>2, <1>8, <2>2 DEF ThreadInv, PaintInv
  <2>5. FirstPaintIsTrue'
    BY <1>1, <1>2, <1>8, <2>1 DEF FirstPaintIsTrue
  <2> QED BY <2>3, <2>4, <2>5 DEF WindowInv
<1> QED BY <1>7, <1>8 DEF WindowInv, ThreadInv

LEMMA InfoThreadKeeps == WindowInv /\ InfoThread => WindowInv'
<1> SUFFICES ASSUME WindowInv, InfoThread PROVE WindowInv'
  OBVIOUS
<1> USE DEF WindowInv, WindowTypeOK, ThreadInv, PaintInv, FirstPaintIsTrue, Holding, Strings, machine
<1>1. CASE Load
  BY <1>1 DEF Load
<1>2. CASE ReadName
  BY <1>2 DEF ReadName, CpuIdCheck
<1>3. CASE ReadCache
  BY <1>3 DEF ReadCache
<1>4. CASE ReadTime
  BY <1>4 DEF ReadTime
<1> QED BY <1>1, <1>2, <1>3, <1>4 DEF InfoThread

LEMMA WinMainKeeps == WindowInv /\ (WinMain \/ Resize \/ Close) => WindowInv'
<1> SUFFICES ASSUME WindowInv, WinMain \/ Resize \/ Close PROVE WindowInv'
  OBVIOUS
<1>1. CASE Show
  BY <1>1, DrawingKeeps DEF Show, WindowInv, PaintInv
<1>2. CASE Paint
  BY <1>2, DrawingKeeps DEF Paint, WindowInv, PaintInv
<1> USE DEF WindowInv, WindowTypeOK, ThreadInv, PaintInv, FirstPaintIsTrue, Holding, Strings, machine
<1>3. CASE Create
  BY <1>3 DEF Create
<1>4. CASE CreateFails
  BY <1>4 DEF CreateFails
<1>5. CASE WaitForThread
  BY <1>5 DEF WaitForThread
<1>6. CASE EndLoop
  BY <1>6 DEF EndLoop
<1>7. CASE Resize
  BY <1>7 DEF Resize
<1>8. CASE Close
  BY <1>8 DEF Close
<1> QED BY <1>1, <1>2, <1>3, <1>4, <1>5, <1>6, <1>7, <1>8 DEF WinMain

LEMMA WindowStutters == WindowInv /\ UNCHANGED windowVars => WindowInv'
<1> SUFFICES ASSUME WindowInv, UNCHANGED windowVars PROVE WindowInv'
  OBVIOUS
<1> USE DEF windowVars
<1>1. WindowTypeOK'
  BY DEF WindowInv, WindowTypeOK
<1>2. ThreadInv' /\ PaintInv'
  BY DEF WindowInv, ThreadInv, PaintInv, Holding
<1>3. FirstPaintIsTrue'
  BY DEF WindowInv, FirstPaintIsTrue
<1> QED BY <1>1, <1>2, <1>3 DEF WindowInv

(* On any processor and however often the window is drawn, the first       *)
(* drawing waits for the thread (main.cpp 43-47, 88-90).                   *)
THEOREM FirstPaintShowsTheData == WindowSpec => []FirstPaintIsTrue
<1>1. WindowInv => FirstPaintIsTrue
  BY DEF WindowInv
<1> QED BY <1>1, WindowInitiallyInv, WindowStutters, InfoThreadKeeps, WinMainKeeps, PTL
        DEF WindowSpec, WindowNext

(* The string of the cache describes what was found on this processor, and *)
(* is what a drawing shows.                                                *)
CacheInv ==
  /\ thread = "time" => found = GetL3Cache(cpu)
  /\ thread = "ended" /\ dll => found = GetL3Cache(cpu)
  /\ shown = "data" => thread = "ended" /\ dll

(* The loop over the descriptors does not begin.                           *)
LEMMA TableIsNotSearched == ASSUME NEW c PROVE TableSearch(c) = None
<1>1. Empty(None)
  BY DEF Empty, None
<1> QED BY <1>1 DEF TableSearch, SearchFrom

(* The sublevel that is found is one of a cache of the third level.        *)
LEMMA LeafIsFound ==
  ASSUME NEW c
  PROVE  IF \E s \in 0..3 : c.leaves[s].level = L3_CACHE
           THEN \E s \in 0..3 : /\ c.leaves[s].level = L3_CACHE
                                /\ LeafSearch(c) = [size |-> c.leaves[s].lineSize * c.leaves[s].lines,
                                                    line |-> c.leaves[s].lineSize]
           ELSE LeafSearch(c) = None
<1> DEFINE hits == {s \in 0..3 : c.leaves[s].level = L3_CACHE}
           first == CHOOSE s \in hits : \A t \in hits : s <= t
<1>1. LeafSearch(c) =
        IF hits = {} THEN None
        ELSE [size |-> c.leaves[first].lineSize * c.leaves[first].lines,
              line |-> c.leaves[first].lineSize]
  BY DEF LeafSearch, LeafSearchTo, LVL_4
<1>2. ASSUME hits # {} PROVE first \in hits
  <2>1. hits \subseteq {0, 1, 2, 3}
    OBVIOUS
  <2>2. \E s \in hits : \A t \in hits : s <= t
    <3>1. CASE 0 \in hits
      BY <2>1, <3>1
    <3>2. CASE 0 \notin hits /\ 1 \in hits
      BY <2>1, <3>2
    <3>3. CASE 0 \notin hits /\ 1 \notin hits /\ 2 \in hits
      BY <2>1, <3>3
    <3>4. CASE 0 \notin hits /\ 1 \notin hits /\ 2 \notin hits
      BY <1>2, <2>1, <3>4
    <3> QED BY <3>1, <3>2, <3>3, <3>4
  <2> HIDE DEF hits
  <2> QED BY <2>2
<1>3. hits = {} <=> ~\E s \in 0..3 : c.leaves[s].level = L3_CACHE
  OBVIOUS
<1>4. \A s \in hits : s \in 0..3 /\ c.leaves[s].level = L3_CACHE
  OBVIOUS
<1> HIDE DEF hits, first
<1> QED BY <1>1, <1>2, <1>3, <1>4

LEMMA CacheStep ==
  ASSUME WindowInv, CacheInv, [WindowNext]_windowVars
  PROVE  CacheInv'
<1>1. CASE Load
  BY <1>1 DEF Load, machine, CacheInv
<1>2. CASE ReadName
  BY <1>2 DEF ReadName, machine, CacheInv
<1>3. CASE ReadCache
  BY <1>3 DEF ReadCache, machine, CacheInv
<1>4. CASE ReadTime
  BY <1>4 DEF ReadTime, machine, CacheInv
<1>5. CASE Create
  <2>1. paints = 0 /\ shown = "nothing"
    BY <1>5 DEF Create, WindowInv, PaintInv
  <2> QED BY <1>5, <2>1 DEF Create, machine, CacheInv
<1>6. CASE CreateFails \/ WaitForThread \/ EndLoop \/ Resize \/ Close
  BY <1>6 DEF CreateFails, WaitForThread, EndLoop, Resize, Close, machine, CacheInv
<1>7. CASE Show \/ Paint
  <2>1. thread = "ended" /\ DrawAndDelete /\ UNCHANGED <<machine, thread, found>>
    BY <1>7 DEF Show, Paint, WindowInv, PaintInv
  <2>2. shown' = "data" => \A s \in Strings : string[s] # "null"
    BY <2>1 DEF DrawAndDelete
  <2>3. ~dll => Holding({})
    BY <2>1 DEF WindowInv, ThreadInv
  <2>4. shown' = "data" => dll
    BY <2>2, <2>3 DEF Holding, Strings
  <2> QED BY <2>1, <2>4 DEF machine, CacheInv
<1>8. CASE UNCHANGED windowVars
  BY <1>8 DEF windowVars, CacheInv
<1> QED BY <1>1, <1>2, <1>3, <1>4, <1>5, <1>6, <1>7, <1>8
        DEF WindowNext, InfoThread, WinMain

(* On any processor the window shows the cache that one of the sublevels   *)
(* of level 4 describes, if one does, and none that nothing describes      *)
(* (RGZ/ProcInfo.h 97-119).                                                *)
THEOREM CacheIsShown == WindowSpec => []ShowsTheCache
<1>1. WindowInit => CacheInv
  BY DEF WindowInit, CacheInv
<1>2. WindowInv /\ CacheInv => ShowsTheCache
  <2> SUFFICES ASSUME WindowInv, CacheInv, shown = "data" PROVE ShowsTheCache
    BY DEF ShowsTheCache
  <2>1. found = GetL3Cache(cpu)
    BY DEF CacheInv
  <2>2. cpu.levels \in Nat
    BY WindowAssumption DEF WindowInv, WindowTypeOK
  <2>3. found = IF cpu.levels >= LVL_4 THEN LeafSearch(cpu) ELSE None
    <3>1. Empty(None)
      BY DEF Empty, None
    <3> QED BY <2>1, <2>2, <3>1, TableIsNotSearched DEF GetL3Cache, CpuIdCheck, LVL_2, LVL_4
  <2>4. CASE cpu.levels >= LVL_4 /\ \E s \in 0..3 : cpu.leaves[s].level = L3_CACHE
    <3>1. found \in LeafCaches
      BY <2>3, <2>4, LeafIsFound DEF LeafCaches
    <3> QED BY <3>1 DEF ShowsTheCache
  <2>5. CASE ~(cpu.levels >= LVL_4 /\ \E s \in 0..3 : cpu.leaves[s].level = L3_CACHE)
    <3>1. found = None
      BY <2>3, <2>5, LeafIsFound
    <3>2. LeafCaches = {}
      BY <2>5 DEF LeafCaches
    <3> QED BY <3>1, <3>2 DEF ShowsTheCache
  <2> QED BY <2>4, <2>5
<1>3. WindowSpec => []WindowInv
  BY WindowInitiallyInv, WindowStutters, InfoThreadKeeps, WinMainKeeps, PTL
     DEF WindowSpec, WindowNext
<1>4. WindowInv /\ CacheInv /\ [WindowNext]_windowVars => CacheInv'
  BY CacheStep
<1> QED BY <1>1, <1>2, <1>3, <1>4, PTL DEF WindowSpec

-----------------------------------------------------------------------------
(* FileUnification                                                         *)

(* Directories that loops have left, each of them once.                    *)
Waiting(lists) == UNION {Range(lists[a]) : a \in DOMAIN lists}
Once(list) == \A j, k \in DOMAIN list : list[j] = list[k] => j = k
EachOnce(lists) ==
  /\ \A a \in DOMAIN lists : Once(lists[a])
  /\ \A a, b \in DOMAIN lists : a # b => Range(lists[a]) \cap Range(lists[b]) = {}

(* The tree as FileInit gives it.                                          *)
There == {0} \cup {n \in 1..MaxNode : parent[n] # -1}
TreeInv ==
  /\ parent \in [1..MaxNode -> Int] /\ \A n \in 1..MaxNode : parent[n] < n
  /\ dirs \subseteq There /\ 0 \in dirs /\ \A n \in There \ {0} : parent[n] \in dirs
  /\ typed \subseteq There

(* What is searched: find does not enter a link.                           *)
IsLink == given.directory = "link"
Searched == IF IsLink THEN {0} ELSE dirs

(* U, the directories that were not searched yet, are W, those that wait,  *)
(* and all that is under them.                                             *)
Unsearched(U, W) ==
  /\ U \subseteq Searched /\ W \subseteq U
  /\ \A u \in U : /\ DirList(u) \subseteq U
                  /\ u \in W => u = 0 \/ parent[u] \notin U
                  /\ u \notin W => u # 0 /\ parent[u] \in U

(* What was printed is what the directories D have.                        *)
PrintedOf(D) ==
  /\ \A k \in 1..Len(output) : /\ output[k][1] \in D
                               /\ In(output[k][1]) # {}
                               /\ output[k][2] \in FileList(output[k][1])
  /\ \A d \in D : In(d) # {} =>
       \A n \in FileList(d) : \E k \in 1..Len(output) : output[k] = <<d, n>>

UnificationInv ==
  /\ TreeInv
  /\ calls \in Seq(Seq(Nodes)) /\ EachOnce(calls)
  /\ output \in Seq(Nodes \X Nodes) /\ Once(output)
  /\ InputOk => \E U \in SUBSET Searched : Unsearched(U, Waiting(calls)) /\ PrintedOf(Searched \ U)
  /\ ~InputOk => calls = <<>> /\ output = <<>>

(* Numbers that are there have a least one among them.                     *)
LEMMA LeastNode ==
  ASSUME NEW T \in SUBSET Nat, T # {}
  PROVE  \E x \in T : \A y \in T : ~(y < x)
<1> DEFINE R == OpToRel(<, Nat)
<1>1. IsWellFoundedOn(R, Nat)
  BY NatLessThanWellFounded
<1>2. \A x, y \in Nat : x < y => <<x, y>> \in R
  BY DEF OpToRel
<1> HIDE DEF R
<1>3. \E x \in T : \A y \in T : ~(<<y, x>> \in R)
  BY <1>1, WFMin
<1> QED BY <1>2, <1>3

(* A list in front of others.                                              *)
LEMMA InFront ==
  ASSUME NEW x \in Seq(Nodes), NEW s \in Seq(Seq(Nodes))
  PROVE  /\ <<x>> \o s \in Seq(Seq(Nodes))
         /\ Waiting(<<x>> \o s) = Range(x) \cup Waiting(s)
         /\ EachOnce(<<x>> \o s) <=>
              Once(x) /\ EachOnce(s) /\ Range(x) \cap Waiting(s) = {}
<1> DEFINE z == <<x>> \o s
<1>1. z \in Seq(Seq(Nodes)) /\ DOMAIN z = 1..(Len(s) + 1) /\ DOMAIN s = 1..Len(s) /\ Len(s) \in Nat
  OBVIOUS
<1>2. z[1] = x /\ \A a \in 1..Len(s) : z[a + 1] = s[a]
  OBVIOUS
<1>3. \A a \in DOMAIN z : a = 1 \/ (a - 1 \in DOMAIN s /\ z[a] = s[a - 1])
  BY <1>1, <1>2
<1>4. 1 \in DOMAIN z /\ \A a \in DOMAIN s : a + 1 \in DOMAIN z /\ a + 1 # 1
  BY <1>1
<1> HIDE DEF z
<1>5. Waiting(z) = Range(x) \cup Waiting(s)
  <2>1. ASSUME NEW v \in Waiting(z) PROVE v \in Range(x) \cup Waiting(s)
    <3>1. PICK a \in DOMAIN z : v \in Range(z[a])
      BY DEF Waiting
    <3> QED BY <1>2, <1>3, <3>1 DEF Waiting
  <2>2. ASSUME NEW v \in Range(x) PROVE v \in Waiting(z)
    BY <1>2, <1>4 DEF Waiting
  <2>3. ASSUME NEW v \in Waiting(s) PROVE v \in Waiting(z)
    <3>1. PICK a \in DOMAIN s : v \in Range(s[a])
      BY DEF Waiting
    <3> QED BY <1>1, <1>2, <1>4, <3>1 DEF Waiting
  <2> QED BY <2>1, <2>2, <2>3
<1>6. ASSUME EachOnce(z) PROVE Once(x) /\ EachOnce(s) /\ Range(x) \cap Waiting(s) = {}
  <2>1. Once(x)
    BY <1>2, <1>4, <1>6 DEF EachOnce
  <2>2. \A a \in DOMAIN s : Once(s[a]) /\ Range(x) \cap Range(s[a]) = {}
    BY <1>1, <1>2, <1>4, <1>6 DEF EachOnce
  <2>3. ASSUME NEW a \in DOMAIN s, NEW b \in DOMAIN s, a # b
        PROVE  Range(s[a]) \cap Range(s[b]) = {}
    <3>1. a \in 1..Len(s) /\ b \in 1..Len(s)
      BY <1>1
    <3>2. z[a + 1] = s[a] /\ z[b + 1] = s[b]
      BY <1>2, <3>1
    <3>3. a + 1 # b + 1
      BY <1>1, <2>3, <3>1
    <3> QED BY <1>4, <1>6, <3>2, <3>3 DEF EachOnce
  <2> QED BY <2>1, <2>2, <2>3 DEF EachOnce, Waiting
<1>7. ASSUME Once(x), EachOnce(s), Range(x) \cap Waiting(s) = {} PROVE EachOnce(z)
  <2>1. \A a \in DOMAIN s : Range(x) \cap Range(s[a]) = {}
    BY <1>7 DEF Waiting
  <2>2. ASSUME NEW a \in DOMAIN z PROVE Once(z[a])
    BY <1>2, <1>3, <1>7 DEF EachOnce
  <2>3. ASSUME NEW a \in DOMAIN z, NEW b \in DOMAIN z, a # b
        PROVE  Range(z[a]) \cap Range(z[b]) = {}
    <3>1. CASE a = 1
      BY <1>2, <1>3, <2>1, <2>3, <3>1
    <3>2. CASE b = 1
      BY <1>2, <1>3, <2>1, <2>3, <3>2
    <3>3. CASE a # 1 /\ b # 1
      <4>1. a - 1 # b - 1 /\ a - 1 \in DOMAIN s /\ b - 1 \in DOMAIN s /\ z[a] = s[a - 1] /\ z[b] = s[b - 1]
        BY <1>1, <1>3, <2>3, <3>3
      <4> QED BY <1>7, <4>1 DEF EachOnce
    <3> QED BY <3>1, <3>2, <3>3
  <2> QED BY <2>2, <2>3 DEF EachOnce
<1> QED BY <1>1, <1>5, <1>6, <1>7 DEF z

(* A list without its first element.                                       *)
LEMMA FirstTaken ==
  ASSUME NEW S, NEW x \in Seq(S), x # <<>>
  PROVE  /\ Head(x) \in S /\ Tail(x) \in Seq(S) /\ x = <<Head(x)>> \o Tail(x)
         /\ Head(x) \in Range(x)
         /\ Once(x) => Once(Tail(x)) /\ Range(Tail(x)) = Range(x) \ {Head(x)}
<1> DEFINE y == Tail(x)
<1>1. Head(x) = x[1] /\ Head(x) \in S /\ y \in Seq(S) /\ x = <<Head(x)>> \o y /\ Len(x) \in Nat
  OBVIOUS
<1>2. DOMAIN x = 1..Len(x) /\ DOMAIN y = 1..(Len(x) - 1) /\ 1 \in DOMAIN x
  OBVIOUS
<1>3. \A k \in DOMAIN y : k + 1 \in DOMAIN x /\ y[k] = x[k + 1] /\ k + 1 # 1
  OBVIOUS
<1>4. Range(x) = {x[k] : k \in DOMAIN x} /\ Range(y) = {y[k] : k \in DOMAIN y}
  BY DEF Range
<1>5. \A k \in DOMAIN x : k = 1 \/ (k - 1 \in DOMAIN y /\ x[k] = y[k - 1])
  OBVIOUS
<1> HIDE DEF y
<1>6. ASSUME Once(x) PROVE Once(y) /\ Range(y) = Range(x) \ {Head(x)}
  <2>1. Once(y)
    BY <1>2, <1>3, <1>6 DEF Once
  <2>2. Range(y) \subseteq Range(x) \ {Head(x)}
    BY <1>1, <1>2, <1>3, <1>4, <1>6 DEF Once
  <2>3. Range(x) \ {Head(x)} \subseteq Range(y)
    BY <1>1, <1>4, <1>5
  <2> QED BY <2>1, <2>2, <2>3
<1> QED BY <1>1, <1>2, <1>4, <1>6 DEF y

(* What find lists has every element once.                                 *)
LEMMA ListedOnce ==
  ASSUME NEW S \in SUBSET Nodes, NEW f \in SetToSeqs(S)
  PROVE  /\ f \in Seq(Nodes) /\ Once(f)
         /\ \A k \in DOMAIN f : f[k] \in S
         /\ \A s \in S : \E k \in DOMAIN f : f[k] = s
<1> DEFINE D == 1..Cardinality(S)
<1>1. IsFiniteSet(S) /\ Cardinality(S) \in Nat
  <2>1. IsFiniteSet(Nodes)
    BY NodesAssumption, FS_Interval DEF Nodes
  <2> QED BY <2>1, FS_Subset, FS_CardinalityType
<1>2. f \in [D -> S] /\ \A j, k \in D : j # k => f[j] # f[k]
  BY DEF SetToSeqs
<1>3. IsFiniteSet(D) /\ Cardinality(D) = Cardinality(S)
  <2>1. Cardinality(S) \in Int /\ 1 \in Int
    BY <1>1
  <2> QED BY <1>1, <2>1, FS_Interval
<1> HIDE DEF D
<1>4. f \in Injection(D, S)
  BY <1>2 DEF Injection, IsInjective
<1>5. f \in Surjection(D, S)
  BY <1>1, <1>3, <1>4, FS_Injection
<1> QED BY <1>1, <1>2, <1>5 DEF Surjection, Once, D

LEMMA TreeIsThere ==
  ASSUME TreeInv
  PROVE  /\ Searched \subseteq dirs /\ dirs \subseteq Nodes /\ There \subseteq Nodes /\ There \subseteq Nat
         /\ \A d \in dirs : \A n \in In(d) : n \in 1..MaxNode /\ n # 0 /\ n # d /\ parent[n] = d
         /\ \A u \in dirs : u # 0 => u \in 1..MaxNode
         /\ \A d \in dirs : In(d) \subseteq There /\ DirList(d) \subseteq Nodes /\ FileList(d) \subseteq Nodes
<1>1. There \subseteq Nodes /\ \A u \in There : u # 0 => u \in 1..MaxNode
  BY NodesAssumption DEF There, Nodes
<1>2. dirs \subseteq Nodes /\ Nodes \subseteq Nat
  BY <1>1 DEF TreeInv, Nodes
<1>3. ASSUME NEW d \in dirs, NEW n \in In(d)
      PROVE  n \in 1..MaxNode /\ n # 0 /\ n # d /\ parent[n] = d /\ n \in There
  <2>1. n \in 1..MaxNode /\ parent[n] = d /\ parent[n] < n /\ n # 0
    BY <1>3 DEF In, TreeInv
  <2>2. d \in Nat
    BY <1>2
  <2> QED BY <2>1, <2>2 DEF There
<1>4. Searched \subseteq dirs /\ \A d : Seen(d) \subseteq In(d)
  BY DEF Searched, Seen, TreeInv
<1> QED BY <1>1, <1>2, <1>3, <1>4 DEF TreeInv, DirList, FileList

(* Searching d takes it from those that were not searched, and its         *)
(* directories wait in its place.                                          *)
LEMMA OneSearched ==
  ASSUME TreeInv, NEW U, NEW W, NEW d \in W, Unsearched(U, W)
  PROVE  /\ d \in dirs /\ DirList(d) \cap W = {}
         /\ Unsearched(U \ {d}, DirList(d) \cup (W \ {d}))
<1> DEFINE V == U \ {d}
           X == DirList(d) \cup (W \ {d})
<1>1. /\ d \in U /\ d \in dirs /\ U \subseteq Searched /\ U \subseteq dirs
      /\ W \subseteq U /\ DirList(d) \subseteq U
  BY TreeIsThere DEF Unsearched
<1>2. \A u \in dirs : \A n \in DirList(u) : n # 0 /\ n # u /\ parent[n] = u
  BY TreeIsThere DEF DirList, Seen
<1>3. DirList(d) \cap W = {}
  BY <1>1, <1>2 DEF Unsearched
<1>4. V \subseteq Searched /\ X \subseteq V
  BY <1>1, <1>2
<1>5. ASSUME NEW u \in V
      PROVE  /\ DirList(u) \subseteq V
             /\ u \in X => u = 0 \/ parent[u] \notin V
             /\ u \notin X => u # 0 /\ parent[u] \in V
  <2>1. u \in U /\ u # d /\ u \in dirs
    BY <1>1
  <2>2. DirList(u) \subseteq V
    <3>1. DirList(u) \subseteq U
      BY <2>1 DEF Unsearched
    <3>2. d \notin DirList(u)
      BY <1>1, <1>2, <2>1 DEF Unsearched
    <3> QED BY <3>1, <3>2
  <2>3. ASSUME u \in X PROVE u = 0 \/ parent[u] \notin V
    <3>1. CASE u \in DirList(d)
      BY <1>1, <1>2, <3>1
    <3>2. CASE u \in W
      BY <2>1, <3>2 DEF Unsearched
    <3> QED BY <2>3, <3>1, <3>2
  <2>4. ASSUME u \notin X PROVE u # 0 /\ parent[u] \in V
    <3>1. u \notin W /\ u \notin DirList(d)
      BY <2>1, <2>4
    <3>2. u # 0 /\ parent[u] \in U
      BY <2>1, <3>1 DEF Unsearched
    <3>3. ~IsLink
      BY <1>1, <2>1, <3>2 DEF Searched
    <3>4. u \in dirs /\ u \in 1..MaxNode /\ (parent[u] = d => u \in In(d))
      BY <2>1, <3>2, TreeIsThere DEF In
    <3>5. parent[u] # d
      BY <3>1, <3>3, <3>4 DEF DirList, Seen, IsLink
    <3> QED BY <3>2, <3>5
  <2> QED BY <2>2, <2>3, <2>4
<1> HIDE DEF V, X
<1>6. Unsearched(V, X)
  BY <1>4, <1>5 DEF Unsearched
<1> QED BY <1>1, <1>3, <1>6 DEF V, X

LEMMA UnificationInitially == FileInit => UnificationInv
<1> SUFFICES ASSUME FileInit PROVE UnificationInv
  OBVIOUS
<1>1. TreeInv
  <2>1. parent \in [1..MaxNode -> -1..(MaxNode - 1)] /\ \A n \in 1..MaxNode : parent[n] < n
    BY DEF FileInit
  <2>2. dirs \subseteq There /\ 0 \in dirs /\ (\A n \in There \ {0} : parent[n] \in dirs) /\ typed \subseteq There
    BY DEF FileInit, There
  <2>3. parent \in [1..MaxNode -> Int]
    BY <2>1
  <2> QED BY <2>1, <2>2, <2>3 DEF TreeInv
<1>2. output = <<>> /\ output \in Seq(Nodes \X Nodes) /\ Once(output)
  BY DEF FileInit, Once
<1>3. <<>> \in Seq(Seq(Nodes)) /\ EachOnce(<<>>) /\ Waiting(<<>>) = {}
  BY DEF EachOnce, Waiting
<1>4. CASE ~InputOk
  BY <1>1, <1>2, <1>3, <1>4 DEF FileInit, UnificationInv
<1>5. CASE InputOk
  <2>1. calls = <<<<0>>>> \o <<>>
    BY <1>5 DEF FileInit
  <2>2. <<0>> \in Seq(Nodes) /\ Once(<<0>>) /\ Range(<<0>>) = {0}
    BY NodesAssumption DEF Nodes, Once, Range
  <2>3. calls \in Seq(Seq(Nodes)) /\ EachOnce(calls) /\ Waiting(calls) = {0}
    BY <1>3, <2>1, <2>2, InFront
  <2>4. Unsearched(Searched, {0})
    <3>1. \A u \in dirs : u # 0 => parent[u] \in dirs
      BY <1>1 DEF TreeInv
    <3>2. 0 \in Searched /\ (IsLink => DirList(0) = {})
      BY <1>1 DEF TreeInv, Searched, IsLink, DirList, Seen
    <3>3. \A u \in Searched : DirList(u) \subseteq Searched
      BY <3>2 DEF Searched, DirList
    <3> QED BY <1>1, <3>1, <3>2, <3>3 DEF Unsearched, Searched
  <2>5. PrintedOf(Searched \ Searched)
    BY <1>2 DEF PrintedOf
  <2> QED BY <1>1, <1>2, <1>5, <2>3, <2>4, <2>5 DEF UnificationInv
<1> QED BY <1>4, <1>5

(* The tree does not change, so that what is said of it stays true.        *)
LEMMA TreeStays ==
  ASSUME UNCHANGED <<given, parent, dirs, typed>>
  PROVE  /\ InputOk' = InputOk /\ Searched' = Searched
         /\ TreeInv => TreeInv'
         /\ \A d : In(d)' = In(d) /\ DirList(d)' = DirList(d) /\ FileList(d)' = FileList(d)
BY DEF InputOk, TreeInv, There, Searched, IsLink, In, Seen, DirList, FileList

LEMMA EndCallKeeps == UnificationInv /\ EndCall => UnificationInv'
<1> SUFFICES ASSUME UnificationInv, EndCall PROVE UnificationInv'
  OBVIOUS
<1>1. calls \in Seq(Seq(Nodes)) /\ EachOnce(calls) /\ InputOk
  BY DEF UnificationInv, EndCall
<1>2. calls = <<<<>>>> \o calls' /\ calls' \in Seq(Seq(Nodes))
  BY <1>1, FirstTaken DEF EndCall
<1>3. <<>> \in Seq(Nodes) /\ Range(<<>>) = {}
  BY DEF Range
<1>4. EachOnce(calls') /\ Waiting(calls) = Waiting(calls')
  <2>1. EachOnce(<<<<>>>> \o calls') /\ Waiting(calls) = Waiting(<<<<>>>> \o calls')
    BY <1>1, <1>2
  <2>2. /\ EachOnce(<<<<>>>> \o calls') => EachOnce(calls')
        /\ Waiting(<<<<>>>> \o calls') = Range(<<>>) \cup Waiting(calls')
    BY <1>2, <1>3, InFront
  <2> QED BY <1>3, <2>1, <2>2
<1>5. output' = output /\ UNCHANGED <<given, parent, dirs, typed>>
  BY DEF EndCall
<1>6. TreeInv' /\ InputOk'
  BY <1>1, <1>5, TreeStays DEF UnificationInv
<1>7. PICK U \in SUBSET Searched : Unsearched(U, Waiting(calls)) /\ PrintedOf(Searched \ U)
  BY <1>1 DEF UnificationInv
<1>8. U \in SUBSET Searched' /\ Unsearched(U, Waiting(calls))'
  BY <1>4, <1>5, <1>7, TreeStays DEF Unsearched
<1>9. PrintedOf(Searched \ U)'
  BY <1>5, <1>7, TreeStays DEF PrintedOf
<1>10. output' \in Seq(Nodes \X Nodes) /\ Once(output')
  BY <1>5 DEF UnificationInv
<1> QED BY <1>2, <1>4, <1>6, <1>8, <1>9, <1>10 DEF UnificationInv

(* What one directory has is printed after what others have.               *)
LEMMA PrintedAfter ==
  ASSUME TreeInv, NEW D \in SUBSET dirs, NEW d \in dirs \ D, In(d) # {},
         NEW listed \in SetToSeqs(FileList(d)),
         output \in Seq(Nodes \X Nodes), Once(output), PrintedOf(D),
         output' = output \o [k \in 1..Len(listed) |-> <<d, listed[k]>>],
         UNCHANGED <<given, parent, dirs, typed>>
  PROVE  output' \in Seq(Nodes \X Nodes) /\ Once(output') /\ PrintedOf(D \cup {d})'
<1> DEFINE new == [k \in 1..Len(listed) |-> <<d, listed[k]>>]
           o == output'
<1>1. FileList(d) \in SUBSET Nodes /\ d \in Nodes
  BY TreeIsThere
<1>2. /\ listed \in Seq(Nodes) /\ Once(listed)
      /\ \A k \in DOMAIN listed : listed[k] \in FileList(d)
      /\ \A n \in FileList(d) : \E k \in DOMAIN listed : listed[k] = n
  BY <1>1, ListedOnce
<1>3. DOMAIN listed = 1..Len(listed) /\ Len(listed) \in Nat /\ Len(output) \in Nat
  BY <1>2
<1>4. new \in Seq(Nodes \X Nodes) /\ Len(new) = Len(listed)
  BY <1>1, <1>2, <1>3
<1>5. /\ o \in Seq(Nodes \X Nodes) /\ Len(o) = Len(output) + Len(listed)
      /\ \A k \in 1..Len(output) : o[k] = output[k]
      /\ \A k \in 1..Len(listed) : o[Len(output) + k] = new[k]
  BY <1>3, <1>4
<1>6. \A k \in 1..Len(listed) : o[Len(output) + k] = <<d, listed[k]>>
  BY <1>5
<1>7. DOMAIN o = 1..Len(o) /\ DOMAIN output = 1..Len(output)
  BY <1>5
<1> HIDE DEF new, o
<1>8. \A k \in 1..Len(o) : \/ k \in 1..Len(output)
                           \/ k - Len(output) \in 1..Len(listed) /\ k = Len(output) + (k - Len(output))
  BY <1>3, <1>5
<1>9. \A k \in 1..Len(o) : k \in 1..Len(output) \/ \E j \in 1..Len(listed) : k = Len(output) + j
  BY <1>8
<1>10. \A k \in 1..Len(output) : k \in 1..Len(o)
  BY <1>3, <1>5
<1>11. \A k \in 1..Len(listed) : Len(output) + k \in 1..Len(o)
  BY <1>3, <1>5
<1>12. Once(o)
  <2> SUFFICES ASSUME NEW j \in 1..Len(o), NEW k \in 1..Len(o), o[j] = o[k] PROVE j = k
    BY <1>7 DEF Once
  <2>1. ASSUME NEW a \in 1..Len(output), NEW b \in 1..Len(listed)
        PROVE  o[a] # o[Len(output) + b]
    <3>1. o[a][1] \in D
      BY <1>5 DEF PrintedOf
    <3>2. o[Len(output) + b][1] = d
      BY <1>6
    <3> QED BY <3>1, <3>2
  <2>2. CASE j \in 1..Len(output)
    <3>1. k \in 1..Len(output)
      BY <1>9, <2>1, <2>2
    <3> QED BY <1>5, <1>7, <2>2, <3>1 DEF Once
  <2>3. CASE j \notin 1..Len(output)
    <3>1. PICK a \in 1..Len(listed) : j = Len(output) + a
      BY <1>9, <2>3
    <3>2. k \notin 1..Len(output)
      BY <2>1, <3>1
    <3>3. PICK b \in 1..Len(listed) : k = Len(output) + b
      BY <1>9, <3>2
    <3>4. listed[a] = listed[b]
      BY <1>6, <3>1, <3>3
    <3> QED BY <1>2, <1>3, <3>1, <3>3, <3>4 DEF Once
  <2> QED BY <2>2, <2>3
<1>13. ASSUME NEW k \in 1..Len(o)
       PROVE  o[k][1] \in D \cup {d} /\ In(o[k][1]) # {} /\ o[k][2] \in FileList(o[k][1])
  <2>1. CASE k \in 1..Len(output)
    BY <1>5, <2>1 DEF PrintedOf
  <2>2. ASSUME NEW j \in 1..Len(listed), k = Len(output) + j
        PROVE  o[k][1] \in D \cup {d} /\ In(o[k][1]) # {} /\ o[k][2] \in FileList(o[k][1])
    <3>1. o[k] = <<d, listed[j]>> /\ listed[j] \in FileList(d)
      BY <1>2, <1>3, <1>6, <2>2
    <3> QED BY <3>1
  <2> QED BY <1>9, <2>1, <2>2
<1>14. ASSUME NEW e \in D \cup {d}, In(e) # {}, NEW n \in FileList(e)
       PROVE  \E k \in 1..Len(o) : o[k] = <<e, n>>
  <2>1. CASE e \in D
    BY <1>5, <1>10, <1>14, <2>1 DEF PrintedOf
  <2>2. CASE e = d
    BY <1>2, <1>3, <1>6, <1>11, <2>2
  <2> QED BY <2>1, <2>2
<1>15. \A e : In(e)' = In(e) /\ FileList(e)' = FileList(e)
  BY TreeStays
<1>16. PrintedOf(D \cup {d})'
  BY <1>13, <1>14, <1>15 DEF PrintedOf, o
<1> QED BY <1>5, <1>12, <1>16 DEF o

LEMMA FileSearchKeeps == UnificationInv /\ FileSearch => UnificationInv'
<1> SUFFICES ASSUME UnificationInv, FileSearch PROVE UnificationInv'
  OBVIOUS
<1> DEFINE h == Head(calls)
           t == Tail(calls)
           rest == <<Tail(h)>> \o t
<1>0. PICK d : d = Head(h)
  OBVIOUS
<1>1. calls # <<>> /\ h # <<>> /\ UNCHANGED <<given, parent, dirs, typed>>
  BY DEF FileSearch
<1>2. TreeInv /\ calls \in Seq(Seq(Nodes)) /\ EachOnce(calls) /\ InputOk
  BY <1>1 DEF UnificationInv
<1>3. h \in Seq(Nodes) /\ t \in Seq(Seq(Nodes)) /\ calls = <<h>> \o t
  BY <1>1, <1>2, FirstTaken
<1>4. \/ In(d) = {} /\ calls' = rest /\ output' = output
      \/ /\ In(d) # {}
         /\ \E listed \in SetToSeqs(FileList(d)), list \in SetToSeqs(DirList(d)) :
              /\ output' = output \o [k \in 1..Len(listed) |-> <<d, listed[k]>>]
              /\ calls' = <<list>> \o rest
  BY <1>0 DEF FileSearch
<1> HIDE DEF h, t
<1>5. /\ Once(h) /\ EachOnce(t) /\ Range(h) \cap Waiting(t) = {}
      /\ Waiting(calls) = Range(h) \cup Waiting(t)
  BY <1>2, <1>3, InFront
<1>6. /\ d \in Range(h) /\ Tail(h) \in Seq(Nodes) /\ Once(Tail(h))
      /\ Range(Tail(h)) = Range(h) \ {d}
  BY <1>0, <1>1, <1>3, <1>5, FirstTaken
<1>7. rest \in Seq(Seq(Nodes)) /\ EachOnce(rest) /\ Waiting(rest) = Waiting(calls) \ {d}
  <2>1. /\ rest \in Seq(Seq(Nodes)) /\ Waiting(rest) = Range(Tail(h)) \cup Waiting(t)
        /\ EachOnce(rest) <=> Once(Tail(h)) /\ EachOnce(t) /\ Range(Tail(h)) \cap Waiting(t) = {}
    BY <1>3, <1>6, InFront
  <2> HIDE DEF rest
  <2> QED BY <1>5, <1>6, <2>1
<1> HIDE DEF rest
<1>8. PICK U \in SUBSET Searched : Unsearched(U, Waiting(calls)) /\ PrintedOf(Searched \ U)
  BY <1>2 DEF UnificationInv
<1>9. /\ d \in dirs /\ d \in U /\ DirList(d) \cap Waiting(calls) = {}
      /\ Unsearched(U \ {d}, DirList(d) \cup (Waiting(calls) \ {d}))
  <2>1. d \in Waiting(calls)
    BY <1>5, <1>6
  <2>2. d \in U
    BY <1>8, <2>1 DEF Unsearched
  <2> QED BY <1>2, <1>8, <2>1, <2>2, OneSearched
<1>10. TreeInv' /\ InputOk' /\ U \ {d} \in SUBSET Searched'
  BY <1>1, <1>2, <1>8, TreeStays
<1>11. /\ Searched \ (U \ {d}) = (Searched \ U) \cup {d} /\ Searched' = Searched
       /\ Searched \ U \in SUBSET dirs /\ d \in dirs \ (Searched \ U)
  BY <1>1, <1>2, <1>8, <1>9, TreeStays, TreeIsThere
<1>12. CASE In(d) = {} /\ calls' = rest /\ output' = output
  <2>1. DirList(d) = {}
    BY <1>12 DEF DirList, Seen
  <2>2. Unsearched(U \ {d}, Waiting(calls'))
    BY <1>7, <1>9, <1>12, <2>1
  <2>3. Unsearched(U \ {d}, Waiting(calls))'
    BY <1>1, <2>2, TreeStays DEF Unsearched
  <2>4. PrintedOf((Searched \ U) \cup {d})
    BY <1>8, <1>12 DEF PrintedOf
  <2>5. PrintedOf(Searched \ (U \ {d}))'
    BY <1>1, <1>11, <1>12, <2>4, TreeStays DEF PrintedOf
  <2>6. output' \in Seq(Nodes \X Nodes) /\ Once(output')
    BY <1>12 DEF UnificationInv
  <2> QED BY <1>7, <1>10, <1>12, <2>3, <2>5, <2>6 DEF UnificationInv
<1>13. ASSUME In(d) # {},
              NEW listed \in SetToSeqs(FileList(d)), NEW list \in SetToSeqs(DirList(d)),
              output' = output \o [k \in 1..Len(listed) |-> <<d, listed[k]>>],
              calls' = <<list>> \o rest
       PROVE  UnificationInv'
  <2>1. DirList(d) \in SUBSET Nodes
    BY <1>2, <1>9, TreeIsThere
  <2>2. list \in Seq(Nodes) /\ Once(list) /\ Range(list) = DirList(d)
    BY <2>1, ListedOnce DEF Range
  <2>3. /\ calls' \in Seq(Seq(Nodes)) /\ EachOnce(calls')
        /\ Waiting(calls') = DirList(d) \cup (Waiting(calls) \ {d})
    BY <1>7, <1>9, <1>13, <2>2, InFront
  <2>4. Unsearched(U \ {d}, Waiting(calls))'
    BY <1>1, <1>9, <2>3, TreeStays DEF Unsearched
  <2>5. output \in Seq(Nodes \X Nodes) /\ Once(output)
    BY DEF UnificationInv
  <2>6. output' \in Seq(Nodes \X Nodes) /\ Once(output') /\ PrintedOf((Searched \ U) \cup {d})'
    BY <1>1, <1>2, <1>8, <1>11, <1>13, <2>5, PrintedAfter
  <2>7. PrintedOf(Searched \ (U \ {d}))'
    BY <1>11, <2>6
  <2> QED BY <1>10, <2>3, <2>4, <2>6, <2>7 DEF UnificationInv
<1> QED BY <1>4, <1>12, <1>13

LEMMA EachIsFound == UnificationInv => EveryFileOnce
<1> SUFFICES ASSUME UnificationInv PROVE EveryFileOnce
  OBVIOUS
<1>1. TreeInv /\ output \in Seq(Nodes \X Nodes) /\ Once(output)
  BY DEF UnificationInv
<1>2. CASE ~InputOk
  BY <1>2 DEF UnificationInv, EveryFileOnce
<1>3. CASE InputOk
  <2>1. PICK U \in SUBSET Searched : Unsearched(U, Waiting(calls)) /\ PrintedOf(Searched \ U)
    BY <1>3 DEF UnificationInv
  <2>2. \A k \in 1..Len(output) :
          /\ output[k] = <<output[k][1], output[k][2]>>
          /\ output[k][1] \in Searched /\ output[k][1] \in dirs
          /\ In(output[k][1]) # {} /\ output[k][2] \in FileList(output[k][1])
    BY <1>1, <2>1, TreeIsThere DEF PrintedOf
  <2>3. ASSUME NEW k \in 1..Len(output), NEW n, n = output[k][2]
        PROVE  n \in typed /\ output[k][1] \in ({n} \cap dirs) \cup
                                (IF n = 0 THEN {} ELSE {parent[n]})
    <3>1. n \in typed /\ (n \in In(output[k][1]) \/ n = output[k][1])
      BY <2>2, <2>3 DEF FileList, Seen
    <3> QED BY <1>1, <2>2, <3>1, TreeIsThere
  <2>4. ASSUME ~IsLink, calls = <<>>, NEW n \in (1..MaxNode) \cap typed, parent[n] # -1
        PROVE  \E k \in Times(n) :
                 /\ output[k][1] = parent[n]
                 /\ n \notin dirs \/ In(n) = {} => Times(n) = {k}
    <3>1. Waiting(calls) = {}
      BY <2>4 DEF Waiting
    <3>0. Searched = dirs /\ \A d : Seen(d) = In(d)
      BY <2>4 DEF Searched, Seen, IsLink
    <3>2. U = {}
      <4> SUFFICES ASSUME U # {} PROVE FALSE
        OBVIOUS
      <4>1. U \in SUBSET Nat /\ \A u \in U : u \in dirs
        BY <1>1, <2>1, TreeIsThere DEF Unsearched, TreeInv
      <4>2. PICK u \in U : \A v \in U : ~(v < u)
        BY <4>1, LeastNode
      <4>3. u # 0 /\ parent[u] \in U
        BY <2>1, <3>1 DEF Unsearched
      <4>4. parent[u] < u
        BY <1>1, <4>1, <4>3, TreeIsThere DEF TreeInv
      <4> QED BY <4>2, <4>3, <4>4
    <3>3. parent[n] \in dirs /\ n # 0 /\ n \in In(parent[n])
      <4>1. n \in There /\ n # 0
        BY <2>4, NodesAssumption DEF There
      <4> QED BY <1>1, <2>4, <4>1 DEF TreeInv, In
    <3>4. PICK k \in 1..Len(output) : output[k] = <<parent[n], n>>
      BY <2>1, <2>4, <3>0, <3>2, <3>3 DEF PrintedOf, FileList
    <3>5. k \in Times(n) /\ output[k][1] = parent[n]
      BY <3>4 DEF Times
    <3>6. ASSUME n \notin dirs \/ In(n) = {}, NEW j \in Times(n) PROVE j = k
      <4>1. j \in 1..Len(output) /\ output[j][2] = n
        BY DEF Times
      <4>2. output[j][1] # n
        BY <2>2, <3>6, <4>1
      <4>3. n \in In(output[j][1])
        BY <2>2, <3>0, <4>1, <4>2 DEF FileList
      <4>4. output[j] = <<parent[n], n>>
        BY <2>2, <4>1, <4>3 DEF In
      <4>5. DOMAIN output = 1..Len(output)
        BY <1>1
      <4> QED BY <1>1, <3>4, <4>1, <4>4, <4>5 DEF Once
    <3> QED BY <3>5, <3>6
  <2>5. ASSUME IsLink PROVE output \in {<<>>, <<<<0, 0>>>>}
    <3>1. \A k \in 1..Len(output) : output[k] = <<0, 0>>
      BY <2>2, <2>5 DEF Searched, FileList, Seen, IsLink
    <3>2. Len(output) \in Nat /\ DOMAIN output = 1..Len(output)
      BY <1>1
    <3>3. Len(output) <= 1
      <4> SUFFICES ASSUME Len(output) > 1 PROVE FALSE
        BY <3>2
      <4>1. 1 \in DOMAIN output /\ 2 \in DOMAIN output /\ output[1] = output[2]
        BY <3>1, <3>2
      <4> QED BY <1>1, <4>1 DEF Once
    <3>4. CASE Len(output) = 0
      BY <1>1, <3>4
    <3>5. CASE Len(output) = 1
      BY <1>1, <3>1, <3>5
    <3> QED BY <3>2, <3>3, <3>4, <3>5
  <2> QED BY <2>3, <2>4, <2>5 DEF EveryFileOnce, IsLink
<1> QED BY <1>2, <1>3

(* Whatever the tree, every file of the type is printed once, and a        *)
(* directory of that name under its parent and under itself, although the  *)
(* calls of fileSearch overwrite each other's variables.                   *)
THEOREM FilesAreFoundOnce == FileSpec => []EveryFileOnce
<1>1. FileInit => UnificationInv
  BY UnificationInitially
<1>2. UnificationInv /\ [FileNext]_fileVars => UnificationInv'
  <2> SUFFICES ASSUME UnificationInv, [FileNext]_fileVars PROVE UnificationInv'
    OBVIOUS
  <2>1. CASE FileSearch
    BY <2>1, FileSearchKeeps
  <2>2. CASE EndCall
    BY <2>2, EndCallKeeps
  <2>3. CASE UNCHANGED fileVars
    <3>1. UNCHANGED <<given, parent, dirs, typed>> /\ calls' = calls /\ output' = output
      BY <2>3 DEF fileVars
    <3>2. TreeInv' /\ InputOk' = InputOk
      BY <3>1, TreeStays DEF UnificationInv
    <3>3. ASSUME NEW U, Unsearched(U, Waiting(calls)), PrintedOf(Searched \ U)
          PROVE  Unsearched(U, Waiting(calls))' /\ PrintedOf(Searched \ U)'
      <4>1. Unsearched(U, Waiting(calls))'
        BY <3>1, <3>3, TreeStays DEF Unsearched
      <4>2. PrintedOf(Searched \ U)'
        BY <3>1, <3>3, TreeStays DEF PrintedOf
      <4> QED BY <3>1, <4>1, <4>2
    <3>4. Searched' = Searched
      BY <3>1, TreeStays
    <3> QED BY <3>1, <3>2, <3>3, <3>4 DEF UnificationInv
  <2> QED BY <2>1, <2>2, <2>3 DEF FileNext
<1> QED BY <1>1, <1>2, EachIsFound, PTL DEF FileSpec

-----------------------------------------------------------------------------
(* FileTables                                                              *)

(* Rows of the open file table for some names, with some flags.            *)
On(o, names, F) == {k \in DOMAIN o : o[k].flags \in F /\ o[k].filename \in names}
Count(o, names, F) == Cardinality(On(o, names, F))
NamesOf(layout, ino) == {a \in Names : layout[a] = ino}

(* The place in a table that the row at k had before row r was removed.    *)
Place(k, r) == IF k < r THEN k ELSE k + 1

LEMMA RowRemoved ==
  ASSUME NEW S, NEW t \in Seq(S), NEW r \in DOMAIN t,
         NEW u, u = RemoveAt(t, r)
  PROVE  /\ u \in Seq(S)
         /\ Len(u) = Len(t) - 1
         /\ \A k \in DOMAIN u : Place(k, r) \in DOMAIN t \ {r} /\ u[k] = t[Place(k, r)]
         /\ \A j \in DOMAIN t \ {r} : \E k \in DOMAIN u : j = Place(k, r)
         /\ \A k, l \in DOMAIN u : Place(k, r) = Place(l, r) => k = l
<1> DEFINE a == SubSeq(t, 1, r - 1)
           b == SubSeq(t, r + 1, Len(t))
<1>1. r \in 1..Len(t) /\ Len(t) \in Nat /\ DOMAIN t = 1..Len(t)
  OBVIOUS
<1>2. a \in Seq(S) /\ Len(a) = r - 1 /\ \A k \in 1..(r - 1) : a[k] = t[k]
  BY <1>1
<1>3. b \in Seq(S) /\ Len(b) = Len(t) - r /\ \A k \in 1..(Len(t) - r) : b[k] = t[r + k]
  BY <1>1
<1>4. u = a \o b
  BY DEF RemoveAt
<1> HIDE DEF a, b
<1>5. /\ u \in Seq(S) /\ Len(u) = Len(t) - 1
      /\ \A k \in 1..(r - 1) : u[k] = a[k]
      /\ \A k \in 1..(Len(t) - r) : u[r - 1 + k] = b[k]
  <2>1. u \in Seq(S) /\ Len(u) = Len(a) + Len(b)
    BY <1>2, <1>3, <1>4, ConcatProperties
  <2>2. \A k \in 1..Len(u) : u[k] = IF k <= Len(a) THEN a[k] ELSE b[k - Len(a)]
    BY <1>2, <1>3, <1>4
  <2>3. Len(u) = Len(t) - 1
    BY <1>1, <1>2, <1>3, <2>1
  <2>4. ASSUME NEW k \in 1..(r - 1) PROVE u[k] = a[k]
    BY <1>1, <1>2, <2>2, <2>3
  <2>5. ASSUME NEW k \in 1..(Len(t) - r) PROVE u[r - 1 + k] = b[k]
    <3>1. r - 1 + k \in 1..Len(u) /\ ~(r - 1 + k <= Len(a)) /\ r - 1 + k - Len(a) = k
      BY <1>1, <1>2, <2>3
    <3> QED BY <2>2, <3>1
  <2> QED BY <2>1, <2>3, <2>4, <2>5
<1>6. DOMAIN u = 1..(Len(t) - 1)
  <2>1. u \in Seq(S)
    BY <1>5
  <2>2. DOMAIN u = 1..Len(u)
    BY <2>1, LenProperties
  <2> QED BY <1>5, <2>2
<1>7. ASSUME NEW k \in DOMAIN u PROVE Place(k, r) \in DOMAIN t \ {r} /\ u[k] = t[Place(k, r)]
  <2>1. CASE k < r
    <3>1. k \in 1..(r - 1)
      BY <1>1, <1>6, <2>1
    <3> QED BY <1>1, <1>2, <1>5, <2>1, <3>1 DEF Place
  <2>2. CASE ~(k < r)
    <3>1. k - r + 1 \in 1..(Len(t) - r) /\ k = r - 1 + (k - r + 1) /\ k + 1 = r + (k - r + 1)
      BY <1>1, <1>6, <2>2
    <3>2. u[k] = t[k + 1]
      BY <1>3, <1>5, <3>1
    <3> QED BY <1>1, <1>6, <2>2, <3>2 DEF Place
  <2> QED BY <2>1, <2>2
<1>8. ASSUME NEW j \in DOMAIN t \ {r} PROVE \E k \in DOMAIN u : j = Place(k, r)
  <2>1. CASE j < r
    <3>1. j \in DOMAIN u
      BY <1>1, <1>6, <2>1
    <3> QED BY <2>1, <3>1 DEF Place
  <2>2. CASE ~(j < r)
    <3>1. j - 1 \in DOMAIN u /\ ~(j - 1 < r) /\ j = (j - 1) + 1
      BY <1>1, <1>6, <2>2
    <3> QED BY <3>1 DEF Place
  <2> QED BY <2>1, <2>2
<1>9. \A k, l \in DOMAIN u : Place(k, r) = Place(l, r) => k = l
  BY <1>1, <1>6 DEF Place
<1> QED BY <1>5, <1>7, <1>8, <1>9

LEMMA FirstOf ==
  ASSUME NEW I \in SUBSET Nat, NEW at, at = (IF I # {} THEN Min(I) ELSE 0)
  PROVE  IF I = {} THEN at = 0 ELSE at \in I
<1>1. CASE I # {}
  <2>1. \E x \in I : \A y \in I : x <= y
    BY <1>1, LeastNode
  <2> QED BY <1>1, <2>1 DEF Min
<1> QED BY <1>1

(* Where the searches of the code find a row.                              *)
FdAt(t, fd) == SelectInSeq(t, LAMBDA row : row.fd = fd)
FileAt(t, i, m) == SelectInSeq(t, LAMBDA row : row.ino = i /\ row.flags = m)
InodeAt(t, i) == SelectInSeq(t, LAMBDA row : row.ino = i)
NameAndFlagsAt(t, name, m) == SelectInSeq(t, LAMBDA row : row.filename = name /\ row.flags = m)
NameAt(t, name) == SelectInSeq(t, LAMBDA row : row.filename = name)

(* The row that a search finds, or 0 when no row is the one.               *)
LEMMA FoundByFd ==
  ASSUME NEW S, NEW t \in Seq(S), NEW fd,
         NEW at, at = FdAt(t, fd)
  PROVE  IF at = 0 THEN \A k \in DOMAIN t : t[k].fd # fd
         ELSE at \in DOMAIN t /\ t[at].fd = fd
<1> DEFINE I == {k \in 1..Len(t) : t[k].fd = fd}
<1>1. at = IF I # {} THEN Min(I) ELSE 0
  BY DEF SelectInSeq, FdAt
<1>2. I \in SUBSET Nat /\ I \subseteq DOMAIN t /\ DOMAIN t = 1..Len(t) /\ 0 \notin I
  OBVIOUS
<1> HIDE DEF I
<1>3. IF I = {} THEN at = 0 ELSE at \in I
  BY <1>1, <1>2, FirstOf
<1> QED BY <1>2, <1>3 DEF I

LEMMA FoundByFile ==
  ASSUME NEW S, NEW t \in Seq(S), NEW i, NEW m,
         NEW at, at = FileAt(t, i, m)
  PROVE  IF at = 0 THEN \A k \in DOMAIN t : ~(t[k].ino = i /\ t[k].flags = m)
         ELSE at \in DOMAIN t /\ t[at].ino = i /\ t[at].flags = m
<1> DEFINE I == {k \in 1..Len(t) : t[k].ino = i /\ t[k].flags = m}
<1>1. at = IF I # {} THEN Min(I) ELSE 0
  BY DEF SelectInSeq, FileAt
<1>2. I \in SUBSET Nat /\ I \subseteq DOMAIN t /\ DOMAIN t = 1..Len(t) /\ 0 \notin I
  OBVIOUS
<1> HIDE DEF I
<1>3. IF I = {} THEN at = 0 ELSE at \in I
  BY <1>1, <1>2, FirstOf
<1> QED BY <1>2, <1>3 DEF I

LEMMA FoundByInode ==
  ASSUME NEW S, NEW t \in Seq(S), NEW i,
         NEW at, at = InodeAt(t, i)
  PROVE  IF at = 0 THEN \A k \in DOMAIN t : t[k].ino # i
         ELSE at \in DOMAIN t /\ t[at].ino = i
<1> DEFINE I == {k \in 1..Len(t) : t[k].ino = i}
<1>1. at = IF I # {} THEN Min(I) ELSE 0
  BY DEF SelectInSeq, InodeAt
<1>2. I \in SUBSET Nat /\ I \subseteq DOMAIN t /\ DOMAIN t = 1..Len(t) /\ 0 \notin I
  OBVIOUS
<1> HIDE DEF I
<1>3. IF I = {} THEN at = 0 ELSE at \in I
  BY <1>1, <1>2, FirstOf
<1> QED BY <1>2, <1>3 DEF I

LEMMA FoundByNameAndFlags ==
  ASSUME NEW S, NEW t \in Seq(S), NEW name, NEW m,
         NEW at, at = NameAndFlagsAt(t, name, m)
  PROVE  IF at = 0 THEN \A k \in DOMAIN t : ~(t[k].filename = name /\ t[k].flags = m)
         ELSE at \in DOMAIN t /\ t[at].filename = name /\ t[at].flags = m
<1> DEFINE I == {k \in 1..Len(t) : t[k].filename = name /\ t[k].flags = m}
<1>1. at = IF I # {} THEN Min(I) ELSE 0
  BY DEF SelectInSeq, NameAndFlagsAt
<1>2. I \in SUBSET Nat /\ I \subseteq DOMAIN t /\ DOMAIN t = 1..Len(t) /\ 0 \notin I
  OBVIOUS
<1> HIDE DEF I
<1>3. IF I = {} THEN at = 0 ELSE at \in I
  BY <1>1, <1>2, FirstOf
<1> QED BY <1>2, <1>3 DEF I

LEMMA FoundByName ==
  ASSUME NEW S, NEW t \in Seq(S), NEW name,
         NEW at, at = NameAt(t, name)
  PROVE  IF at = 0 THEN \A k \in DOMAIN t : t[k].filename # name
         ELSE at \in DOMAIN t /\ t[at].filename = name
<1> DEFINE I == {k \in 1..Len(t) : t[k].filename = name}
<1>1. at = IF I # {} THEN Min(I) ELSE 0
  BY DEF SelectInSeq, NameAt
<1>2. I \in SUBSET Nat /\ I \subseteq DOMAIN t /\ DOMAIN t = 1..Len(t) /\ 0 \notin I
  OBVIOUS
<1> HIDE DEF I
<1>3. IF I = {} THEN at = 0 ELSE at \in I
  BY <1>1, <1>2, FirstOf
<1> QED BY <1>2, <1>3 DEF I

(* An opening counts one more, a closing one less.                         *)
LEMMA CountAppended ==
  ASSUME NEW o \in Seq(OpenFileTable), NEW row, NEW names, NEW F
  PROVE  /\ Count(o, names, F) \in Nat
         /\ Count(Append(o, row), names, F) = Count(o, names, F)
              + (IF row.flags \in F /\ row.filename \in names THEN 1 ELSE 0)
<1> DEFINE p == Append(o, row)
           I == On(o, names, F)
           n == Len(o) + 1
<1>1. /\ DOMAIN o = 1..Len(o) /\ Len(o) \in Nat /\ DOMAIN p = (1..Len(o)) \cup {n} /\ n \notin 1..Len(o)
      /\ p[n] = row /\ \A k \in 1..Len(o) : p[k] = o[k]
  OBVIOUS
<1>2. IsFiniteSet(I) /\ Count(o, names, F) = Cardinality(I) /\ Cardinality(I) \in Nat
  <2>1. Len(o) \in Int /\ 1 \in Int /\ I \in SUBSET (1..Len(o))
    BY <1>1 DEF On
  <2>2. IsFiniteSet(1..Len(o))
    BY <2>1, FS_Interval
  <2> QED BY <2>1, <2>2, FS_Subset, FS_CardinalityType DEF Count
<1> HIDE DEF p, n
<1>3. CASE row.flags \in F /\ row.filename \in names
  <2>1. On(p, names, F) = I \cup {n} /\ n \notin I
    BY <1>1, <1>3 DEF On
  <2> QED BY <1>2, <1>3, <2>1, FS_AddElement DEF Count, p
<1>4. CASE ~(row.flags \in F /\ row.filename \in names)
  <2>1. On(p, names, F) = I
    BY <1>1, <1>4 DEF On
  <2> QED BY <1>2, <1>4, <2>1 DEF Count, p
<1> QED BY <1>2, <1>3, <1>4

LEMMA CountRemoved ==
  ASSUME NEW o \in Seq(OpenFileTable), NEW r \in DOMAIN o, NEW names, NEW F
  PROVE  /\ Count(o, names, F) \in Nat
         /\ Count(RemoveAt(o, r), names, F) \in Nat
         /\ Count(RemoveAt(o, r), names, F) = Count(o, names, F)
              - (IF o[r].flags \in F /\ o[r].filename \in names THEN 1 ELSE 0)
<1> DEFINE u == RemoveAt(o, r)
           I == On(o, names, F)
           J == On(u, names, F)
           f == [k \in J |-> Place(k, r)]
<1>1. IsFiniteSet(I) /\ Count(o, names, F) = Cardinality(I) /\ Cardinality(I) \in Nat
  <2>1. Len(o) \in Int /\ 1 \in Int /\ I \in SUBSET (1..Len(o))
    BY DEF On
  <2>2. IsFiniteSet(1..Len(o))
    BY <2>1, FS_Interval
  <2> QED BY <2>1, <2>2, FS_Subset, FS_CardinalityType DEF Count
<1> HIDE DEF u
<1>2. /\ \A k \in DOMAIN u : Place(k, r) \in DOMAIN o \ {r} /\ u[k] = o[Place(k, r)]
      /\ \A j \in DOMAIN o \ {r} : \E k \in DOMAIN u : j = Place(k, r)
      /\ \A k, l \in DOMAIN u : Place(k, r) = Place(l, r) => k = l
  BY RowRemoved DEF u
<1>3. IsFiniteSet(I \ {r}) /\ Cardinality(I \ {r}) \in Nat
      /\ Cardinality(I \ {r}) = IF r \in I THEN Cardinality(I) - 1 ELSE Cardinality(I)
  BY <1>1, FS_RemoveElement, FS_CardinalityType
<1>4. r \in I <=> o[r].flags \in F /\ o[r].filename \in names
  BY DEF On
<1>5. f \in Bijection(J, I \ {r})
  <2>1. f \in [J -> I \ {r}]
    BY <1>2 DEF On
  <2>2. \A k, l \in J : f[k] = f[l] => k = l
    BY <1>2 DEF On
  <2>3. \A j \in I \ {r} : \E k \in J : f[k] = j
    BY <1>2 DEF On
  <2> QED BY <2>1, <2>2, <2>3, Fun_IsBij
<1>6. Cardinality(J) = Cardinality(I \ {r})
  <2>1. Len(u) \in Int /\ 1 \in Int /\ J \in SUBSET (1..Len(u))
    <3>1. u \in Seq(OpenFileTable)
      BY RowRemoved DEF u
    <3> QED BY <3>1 DEF On
  <2>2. IsFiniteSet(1..Len(u))
    BY <2>1, FS_Interval
  <2>3. IsFiniteSet(J)
    BY <2>1, <2>2, FS_Subset
  <2> QED BY <1>5, <2>3, FS_Bijection DEF ExistsBijection
<1> QED BY <1>1, <1>3, <1>4, <1>6 DEF Count, u

(* What happens to a table, and to what its counts are compared with.      *)
Gains(t, u, n, row) ==
  /\ n \notin DOMAIN t /\ DOMAIN u = DOMAIN t \cup {n}
  /\ \A k \in DOMAIN t : u[k] = t[k]
  /\ u[n] = row
Recounts(t, u, at, n) ==
  /\ DOMAIN u = DOMAIN t
  /\ \A k \in DOMAIN t : /\ u[k].filename = t[k].filename /\ u[k].ino = t[k].ino
                        /\ u[k].nlink = IF k = at THEN n ELSE t[k].nlink
SameFlags(t, u) == \A k \in DOMAIN t : u[k].flags = t[k].flags
Counted(t) == \A k \in DOMAIN t : t[k].nlink \in Nat
NoneOf(t, ino, m) == \A k \in DOMAIN t : ~(t[k].ino = ino /\ t[k].flags = m)
NoneOn(t, ino) == \A k \in DOMAIN t : t[k].ino # ino
FileMoves(c, d, ino, m, e) == \A i \in Inodes, f \in Flags :
  d[i][f] = IF i = ino /\ f = m THEN c[i][f] + e ELSE c[i][f]
DescMoves(c, d, ino, e) == \A i \in Inodes : d[i] = IF i = ino THEN c[i] + e ELSE c[i]

LEMMA RowAppended ==
  ASSUME NEW S, NEW t \in Seq(S), NEW row \in S, NEW u, u = Append(t, row)
  PROVE  u \in Seq(S) /\ Gains(t, u, Len(t) + 1, row)
<1> USE DEF Gains
<1>1. Len(t) \in Nat /\ DOMAIN t = 1..Len(t) /\ u \in Seq(S) /\ Len(u) = Len(t) + 1
  OBVIOUS
<1>2. DOMAIN u = 1..(Len(t) + 1)
  BY <1>1
<1> QED BY <1>1, <1>2

(* A row with another count.                                               *)
LEMMA FileRelinked ==
  ASSUME NEW t \in Seq(FileTable), NEW at \in DOMAIN t, NEW n \in Nat,
         NEW u, u = [t EXCEPT ![at].nlink = n]
  PROVE  u \in Seq(FileTable) /\ Recounts(t, u, at, n) /\ SameFlags(t, u)
<1>1. t[at] \in FileTable
  OBVIOUS
<1>2. [t[at] EXCEPT !.nlink = n] \in FileTable
  BY <1>1 DEF FileTable
<1>3. u = [t EXCEPT ![at] = [t[at] EXCEPT !.nlink = n]]
  OBVIOUS
<1>4. u \in Seq(FileTable) /\ DOMAIN u = DOMAIN t
  BY <1>2, <1>3
<1>5. \A k \in DOMAIN t : t[k] \in FileTable
  OBVIOUS
<1>6. \A k \in DOMAIN t : u[k] = IF k = at THEN [t[at] EXCEPT !.nlink = n] ELSE t[k]
  BY <1>3
<1> QED BY <1>1, <1>4, <1>5, <1>6 DEF FileTable, Recounts, SameFlags

LEMMA DescRelinked ==
  ASSUME NEW t \in Seq(FileDescTable), NEW at \in DOMAIN t, NEW n \in Nat,
         NEW u, u = [t EXCEPT ![at].nlink = n]
  PROVE  u \in Seq(FileDescTable) /\ Recounts(t, u, at, n)
<1>1. t[at] \in FileDescTable
  OBVIOUS
<1>2. [t[at] EXCEPT !.nlink = n] \in FileDescTable
  BY <1>1 DEF FileDescTable
<1>3. u = [t EXCEPT ![at] = [t[at] EXCEPT !.nlink = n]]
  OBVIOUS
<1>4. u \in Seq(FileDescTable) /\ DOMAIN u = DOMAIN t
  BY <1>2, <1>3
<1>5. \A k \in DOMAIN t : t[k] \in FileDescTable
  OBVIOUS
<1>6. \A k \in DOMAIN t : u[k] = IF k = at THEN [t[at] EXCEPT !.nlink = n] ELSE t[k]
  BY <1>3
<1> QED BY <1>1, <1>4, <1>5, <1>6 DEF FileDescTable, Recounts

(* No row stays with a count of 0, so that a count is never taken below it. *)
Linked(t) == \A k \in DOMAIN t : t[k].nlink > 0

LEMMA FileRefers ==
  ASSUME NEW t \in Seq(FileTable), Linked(t), NEW at \in DOMAIN t \cup {0},
         NEW row \in FileTable, row.nlink > 0
  PROVE  Refer(t, at, row) \in Seq(FileTable) /\ Linked(Refer(t, at, row))
<1>1. CASE at = 0
  <2>1. Refer(t, at, row) = Append(t, row)
    BY <1>1 DEF Refer
  <2> QED BY <2>1, RowAppended DEF Linked, Gains
<1>2. CASE at # 0
  <2>1. at \in DOMAIN t /\ t[at] \in FileTable
    BY <1>2
  <2>2. PICK n \in Nat : n = t[at].nlink + 1 /\ n > 0
    BY <2>1 DEF FileTable
  <2>3. Refer(t, at, row) = [t EXCEPT ![at].nlink = n]
    BY <1>2, <2>2 DEF Refer
  <2> QED BY <2>1, <2>2, <2>3, FileRelinked DEF Linked, Recounts
<1> QED BY <1>1, <1>2

LEMMA DescRefers ==
  ASSUME NEW t \in Seq(FileDescTable), Linked(t), NEW at \in DOMAIN t \cup {0},
         NEW row \in FileDescTable, row.nlink > 0
  PROVE  Refer(t, at, row) \in Seq(FileDescTable) /\ Linked(Refer(t, at, row))
<1>1. CASE at = 0
  <2>1. Refer(t, at, row) = Append(t, row)
    BY <1>1 DEF Refer
  <2> QED BY <2>1, RowAppended DEF Linked, Gains
<1>2. CASE at # 0
  <2>1. at \in DOMAIN t /\ t[at] \in FileDescTable
    BY <1>2
  <2>2. PICK n \in Nat : n = t[at].nlink + 1 /\ n > 0
    BY <2>1 DEF FileDescTable
  <2>3. Refer(t, at, row) = [t EXCEPT ![at].nlink = n]
    BY <1>2, <2>2 DEF Refer
  <2> QED BY <2>1, <2>2, <2>3, DescRelinked DEF Linked, Recounts
<1> QED BY <1>1, <1>2

LEMMA RowDropped ==
  ASSUME NEW S, NEW t \in Seq(S), Linked(t), NEW at \in DOMAIN t \cup {0}
  PROVE  Drop(t, at) \in Seq(S) /\ Linked(Drop(t, at))
<1>1. CASE at = 0
  BY <1>1 DEF Drop
<1>2. CASE at # 0
  <2>1. at \in DOMAIN t /\ Drop(t, at) = RemoveAt(t, at)
    BY <1>2 DEF Drop
  <2> DEFINE u == RemoveAt(t, at)
  <2>2. /\ u \in Seq(S)
        /\ \A k \in DOMAIN u : Place(k, at) \in DOMAIN t \ {at} /\ u[k] = t[Place(k, at)]
    BY <2>1, RowRemoved
  <2> HIDE DEF u
  <2>3. Linked(u)
    BY <2>2 DEF Linked
  <2> QED BY <2>1, <2>2, <2>3 DEF u
<1> QED BY <1>1, <1>2

LEMMA FileReleases ==
  ASSUME NEW t \in Seq(FileTable), Linked(t), NEW at \in DOMAIN t \cup {0}
  PROVE  Release(t, at) \in Seq(FileTable) /\ Linked(Release(t, at))
<1>1. CASE at = 0
  BY <1>1 DEF Release
<1>2. CASE at # 0
  <2>1. at \in DOMAIN t /\ t[at] \in FileTable /\ t[at].nlink > 0
    BY <1>2 DEF Linked
  <2>2. t[at].nlink \in Nat
    BY <2>1 DEF FileTable
  <2>3. CASE t[at].nlink - 1 # 0
    <3>1. PICK n \in Nat : n = t[at].nlink - 1 /\ n > 0
      BY <2>1, <2>2, <2>3
    <3>2. Release(t, at) = [t EXCEPT ![at].nlink = n]
      BY <1>2, <2>3, <3>1 DEF Release
    <3> QED BY <2>1, <3>1, <3>2, FileRelinked DEF Linked, Recounts
  <2>4. CASE t[at].nlink - 1 = 0
    <3>1. Release(t, at) = Drop(t, at)
      BY <1>2, <2>4 DEF Release, Drop
    <3> QED BY <3>1, RowDropped
  <2> QED BY <2>3, <2>4
<1> QED BY <1>1, <1>2

LEMMA DescReleases ==
  ASSUME NEW t \in Seq(FileDescTable), Linked(t), NEW at \in DOMAIN t \cup {0}
  PROVE  Release(t, at) \in Seq(FileDescTable) /\ Linked(Release(t, at))
<1>1. CASE at = 0
  BY <1>1 DEF Release
<1>2. CASE at # 0
  <2>1. at \in DOMAIN t /\ t[at] \in FileDescTable /\ t[at].nlink > 0
    BY <1>2 DEF Linked
  <2>2. t[at].nlink \in Nat
    BY <2>1 DEF FileDescTable
  <2>3. CASE t[at].nlink - 1 # 0
    <3>1. PICK n \in Nat : n = t[at].nlink - 1 /\ n > 0
      BY <2>1, <2>2, <2>3
    <3>2. Release(t, at) = [t EXCEPT ![at].nlink = n]
      BY <1>2, <2>3, <3>1 DEF Release
    <3> QED BY <2>1, <3>1, <3>2, DescRelinked DEF Linked, Recounts
  <2>4. CASE t[at].nlink - 1 = 0
    <3>1. Release(t, at) = Drop(t, at)
      BY <1>2, <2>4 DEF Release, Drop
    <3> QED BY <3>1, RowDropped
  <2> QED BY <2>3, <2>4
<1> QED BY <1>1, <1>2

OneName(layout) == \A a, b \in Names : layout[a] = layout[b] => a = b

(* What the rows t of the file table say while streams S are open: a file  *)
(* has one row per flags, a stream one.                                    *)
FileRows(t, S, layout) ==
  /\ \A k \in DOMAIN t : t[k].filename \in Names =>
       t[k].ino = layout[t[k].filename] /\ t[k].flags \in Flags
  /\ \A k \in DOMAIN t : t[k].filename \notin Names =>
       t[k].flags = STD_FLAG /\ \E s \in S \cap Streams : t[k].filename = getSTDName[s]
  /\ \A k, l \in DOMAIN t :
       /\ t[k].filename \in Names /\ t[l].filename \in Names
       /\ t[k].ino = t[l].ino /\ t[k].flags = t[l].flags
      => k = l
  /\ \A k, l \in DOMAIN t :
       t[k].filename \notin Names /\ t[k].filename = t[l].filename => k = l

(* Openings with some flags, by the names of an inode.                     *)
Opened(o, layout, ino, F) == Count(o, NamesOf(layout, ino), F)

(* The counts of the rows, where c[ino][m] is what they count.             *)
FileCounts(t, c, layout) ==
  /\ \A k \in DOMAIN t : t[k].filename \in Names =>
       /\ t[k].nlink >= c[t[k].ino][t[k].flags]
       /\ OneName(layout) => t[k].nlink = c[t[k].ino][t[k].flags]
  /\ \A a \in Names, m \in Flags : c[layout[a]][m] > 0 =>
       \E k \in DOMAIN t : t[k].ino = layout[a] /\ t[k].flags = m

LEMMA FileFlags == /\ Flags \subseteq Nat /\ STD_FLAG \notin Flags /\ Closed.flags # STD_FLAG
                   /\ \A s \in Streams : getSTDName[s] \notin Names /\ s \in 0..2
BY FilesAssumption DEF STD_FLAG, Closed

LEMMA StreamNames == \A y, z \in Streams : getSTDName[y] = getSTDName[z] => y = z
<1>1. getSTDName[0] = "stdin" /\ getSTDName[1] = "stdout" /\ getSTDName[2] = "stderr"
  BY DEF getSTDName
<1>2. \A y \in Streams : y = 0 \/ y = 1 \/ y = 2
  BY FilesAssumption
<1> QED BY <1>1, <1>2

LEMMA OpenedMore ==
  ASSUME NEW o \in Seq(OpenFileTable), NEW layout, NEW row, row.filename \in Names,
         NEW ino, NEW F
  PROVE  /\ Opened(o, layout, ino, F) \in Nat
         /\ Opened(Append(o, row), layout, ino, F) = Opened(o, layout, ino, F)
              + (IF row.flags \in F /\ layout[row.filename] = ino THEN 1 ELSE 0)
<1>1. row.filename \in NamesOf(layout, ino) <=> layout[row.filename] = ino
  BY DEF NamesOf
<1> QED BY <1>1, CountAppended DEF Opened

LEMMA OpenedLess ==
  ASSUME NEW o \in Seq(OpenFileTable), NEW layout, NEW r \in DOMAIN o, o[r].filename \in Names,
         NEW p, p = RemoveAt(o, r), NEW ino, NEW F
  PROVE  /\ Opened(o, layout, ino, F) \in Nat /\ Opened(p, layout, ino, F) \in Nat
         /\ Opened(p, layout, ino, F) = Opened(o, layout, ino, F)
              - (IF o[r].flags \in F /\ layout[o[r].filename] = ino THEN 1 ELSE 0)
<1>1. o[r].filename \in NamesOf(layout, ino) <=> layout[o[r].filename] = ino
  BY DEF NamesOf
<1> QED BY <1>1, CountRemoved DEF Opened

(* A stream is no opening of a file.                                       *)
LEMMA OpenedSame ==
  ASSUME NEW o \in Seq(OpenFileTable), NEW layout, NEW p,
         \/ \E row : row.filename \notin Names /\ p = Append(o, row)
         \/ \E r \in DOMAIN o : o[r].filename \notin Names /\ p = RemoveAt(o, r),
         NEW ino, NEW F
  PROVE  Opened(o, layout, ino, F) \in Nat /\ Opened(p, layout, ino, F) = Opened(o, layout, ino, F)
<1>1. CASE \E row : row.filename \notin Names /\ p = Append(o, row)
  <2>1. PICK row : row.filename \notin Names /\ p = Append(o, row)
    BY <1>1
  <2>2. row.filename \notin NamesOf(layout, ino)
    BY <2>1 DEF NamesOf
  <2>3. /\ Count(o, NamesOf(layout, ino), F) \in Nat
        /\ Count(p, NamesOf(layout, ino), F) = Count(o, NamesOf(layout, ino), F) + 0
    BY <2>1, <2>2, CountAppended
  <2> QED BY <2>3 DEF Opened
<1>2. CASE \E r \in DOMAIN o : o[r].filename \notin Names /\ p = RemoveAt(o, r)
  <2>1. PICK r \in DOMAIN o : o[r].filename \notin Names /\ p = RemoveAt(o, r)
    BY <1>2
  <2>2. o[r].filename \notin NamesOf(layout, ino)
    BY <2>1 DEF NamesOf
  <2>3. /\ Count(o, NamesOf(layout, ino), F) \in Nat
        /\ Count(p, NamesOf(layout, ino), F) = Count(o, NamesOf(layout, ino), F) - 0
    BY <2>1, <2>2, CountRemoved
  <2> QED BY <2>3 DEF Opened
<1> QED BY <1>1, <1>2

LEMMA FileRowAdded ==
  ASSUME NEW layout \in [Names -> Inodes], NEW S, NEW t, FileRows(t, S, layout),
         NEW c \in [Inodes -> [Flags -> Nat]], FileCounts(t, c, layout),
         NEW name \in Names, NEW m \in Flags,
         NoneOf(t, layout[name], m),
         NEW u, NEW n, NEW row, Gains(t, u, n, row),
         row.filename = name, row.ino = layout[name], row.flags = m, row.nlink = 1,
         NEW d, FileMoves(c, d, layout[name], m, 1)
  PROVE  FileRows(u, S, layout) /\ FileCounts(u, d, layout)
<1> USE DEF Gains, NoneOf, FileMoves
<1>1. FileRows(u, S, layout)
  <2>1. \A k \in DOMAIN u : u[k].filename \in Names =>
          u[k].ino = layout[u[k].filename] /\ u[k].flags \in Flags
    BY DEF FileRows
  <2>2. \A k \in DOMAIN u : u[k].filename \notin Names =>
          u[k].flags = STD_FLAG /\ \E s \in S \cap Streams : u[k].filename = getSTDName[s]
    BY DEF FileRows
  <2>3. \A k, l \in DOMAIN u :
          /\ u[k].filename \in Names /\ u[l].filename \in Names
          /\ u[k].ino = u[l].ino /\ u[k].flags = u[l].flags
         => k = l
    BY DEF FileRows
  <2>4. \A k, l \in DOMAIN u :
          u[k].filename \notin Names /\ u[k].filename = u[l].filename => k = l
    BY DEF FileRows
  <2> QED BY <2>1, <2>2, <2>3, <2>4 DEF FileRows
<1>2. c[layout[name]][m] = 0 /\ d[layout[name]][m] = 1
  <2>1. c[layout[name]][m] \in Nat /\ layout[name] \in Inodes
    OBVIOUS
  <2>2. ~(c[layout[name]][m] > 0)
    BY DEF FileCounts
  <2> QED BY <2>1, <2>2
<1>3. ASSUME NEW k \in DOMAIN u, u[k].filename \in Names
      PROVE  /\ u[k].nlink >= d[u[k].ino][u[k].flags]
             /\ OneName(layout) => u[k].nlink = d[u[k].ino][u[k].flags]
  <2>1. CASE k \in DOMAIN t
    <3>1. u[k] = t[k] /\ t[k].ino \in Inodes /\ t[k].flags \in Flags
      BY <1>3, <2>1 DEF FileRows
    <3>2. d[t[k].ino][t[k].flags] = c[t[k].ino][t[k].flags]
      BY <2>1, <3>1
    <3> QED BY <1>3, <2>1, <3>1, <3>2 DEF FileCounts
  <2>2. CASE k = n
    BY <1>2, <2>2
  <2> QED BY <2>1, <2>2
<1>4. ASSUME NEW a \in Names, NEW f \in Flags, d[layout[a]][f] > 0
      PROVE  \E k \in DOMAIN u : u[k].ino = layout[a] /\ u[k].flags = f
  <2>1. CASE layout[a] = layout[name] /\ f = m
    BY <2>1
  <2>2. CASE ~(layout[a] = layout[name] /\ f = m)
    <3>1. d[layout[a]][f] = c[layout[a]][f]
      BY <2>2
    <3>2. PICK k \in DOMAIN t : t[k].ino = layout[a] /\ t[k].flags = f
      BY <1>4, <3>1 DEF FileCounts
    <3> QED BY <3>2
  <2> QED BY <2>1, <2>2
<1> QED BY <1>1, <1>3, <1>4 DEF FileCounts

(* One opening more, or one less, of those that a row counts.              *)
LEMMA FileRecounted ==
  ASSUME NEW layout \in [Names -> Inodes], NEW S, NEW t, FileRows(t, S, layout),
         Counted(t),
         NEW c \in [Inodes -> [Flags -> Nat]], FileCounts(t, c, layout),
         NEW name \in Names, NEW m \in Flags,
         NEW at \in DOMAIN t, t[at].ino = layout[name], t[at].flags = m,
         NEW e \in {1, -1},
         NEW u, NEW n, n = t[at].nlink + e, Recounts(t, u, at, n), SameFlags(t, u),
         NEW d, FileMoves(c, d, layout[name], m, e)
  PROVE  FileRows(u, S, layout) /\ FileCounts(u, d, layout)
<1> USE DEF Counted, Recounts, SameFlags, FileMoves
<1>1. FileRows(u, S, layout)
  <2>1. \A k \in DOMAIN u : u[k].filename \in Names =>
          u[k].ino = layout[u[k].filename] /\ u[k].flags \in Flags
    BY DEF FileRows
  <2>2. \A k \in DOMAIN u : u[k].filename \notin Names =>
          u[k].flags = STD_FLAG /\ \E s \in S \cap Streams : u[k].filename = getSTDName[s]
    BY DEF FileRows
  <2>3. \A k, l \in DOMAIN u :
          /\ u[k].filename \in Names /\ u[l].filename \in Names
          /\ u[k].ino = u[l].ino /\ u[k].flags = u[l].flags
         => k = l
    BY DEF FileRows
  <2>4. \A k, l \in DOMAIN u :
          u[k].filename \notin Names /\ u[k].filename = u[l].filename => k = l
    BY DEF FileRows
  <2> QED BY <2>1, <2>2, <2>3, <2>4 DEF FileRows
<1>2. t[at].filename \in Names
  BY FileFlags DEF FileRows
<1>3. ASSUME NEW k \in DOMAIN u, u[k].filename \in Names
      PROVE  /\ u[k].nlink >= d[u[k].ino][u[k].flags]
             /\ OneName(layout) => u[k].nlink = d[u[k].ino][u[k].flags]
  <2>1. /\ k \in DOMAIN t /\ t[k].filename \in Names
        /\ u[k].ino = t[k].ino /\ u[k].flags = t[k].flags
        /\ t[k].ino \in Inodes /\ t[k].flags \in Flags
    BY <1>3 DEF FileRows
  <2> DEFINE y == c[t[k].ino][t[k].flags]
             x == t[k].nlink
  <2>2. x \in Nat /\ y \in Nat /\ x >= y /\ (OneName(layout) => x = y)
    BY <2>1 DEF FileCounts
  <2>3. CASE k = at
    <3>1. u[k].nlink = x + e /\ d[t[k].ino][t[k].flags] = y + e
      BY <2>1, <2>3
    <3> HIDE DEF x, y
    <3> QED BY <2>1, <2>2, <3>1
  <2>4. CASE k # at
    <3>1. ~(t[k].ino = layout[name] /\ t[k].flags = m)
      BY <1>2, <2>1, <2>4 DEF FileRows
    <3>2. u[k].nlink = x /\ d[t[k].ino][t[k].flags] = y
      BY <2>1, <2>4, <3>1
    <3> HIDE DEF x, y
    <3> QED BY <2>1, <2>2, <3>2
  <2> QED BY <2>3, <2>4
<1>4. ASSUME NEW a \in Names, NEW f \in Flags, d[layout[a]][f] > 0
      PROVE  \E k \in DOMAIN u : u[k].ino = layout[a] /\ u[k].flags = f
  <2>1. CASE layout[a] = layout[name] /\ f = m
    BY <2>1
  <2>2. CASE ~(layout[a] = layout[name] /\ f = m)
    <3>1. d[layout[a]][f] = c[layout[a]][f]
      BY <2>2
    <3>2. PICK k \in DOMAIN t : t[k].ino = layout[a] /\ t[k].flags = f
      BY <1>4, <3>1 DEF FileCounts
    <3> QED BY <3>2
  <2> QED BY <2>1, <2>2
<1> QED BY <1>1, <1>3, <1>4 DEF FileCounts

(* Rows stay what they are when others go.                                 *)
LEMMA FileRowsRemoved ==
  ASSUME NEW layout, NEW S, NEW t \in Seq(FileTable), FileRows(t, S, layout),
         NEW at \in DOMAIN t, NEW u, u = RemoveAt(t, at)
  PROVE  FileRows(u, S, layout)
<1>0. \A k \in DOMAIN u : Place(k, at) \in DOMAIN t \ {at} /\ u[k] = t[Place(k, at)]
  BY RowRemoved
<1>1. /\ \A k \in DOMAIN u : Place(k, at) \in DOMAIN t \ {at} /\ u[k] = t[Place(k, at)]
      /\ \A k, l \in DOMAIN u : Place(k, at) = Place(l, at) => k = l
  <2>1. \A k, l \in DOMAIN u : Place(k, at) = Place(l, at) => k = l
    BY RowRemoved
  <2> QED BY <1>0, <2>1
<1>2. \A k \in DOMAIN u : u[k].filename \in Names =>
        u[k].ino = layout[u[k].filename] /\ u[k].flags \in Flags
  BY <1>1 DEF FileRows
<1>3. \A k \in DOMAIN u : u[k].filename \notin Names =>
        u[k].flags = STD_FLAG /\ \E s \in S \cap Streams : u[k].filename = getSTDName[s]
  BY <1>1 DEF FileRows
<1>4. \A k, l \in DOMAIN u :
        /\ u[k].filename \in Names /\ u[l].filename \in Names
        /\ u[k].ino = u[l].ino /\ u[k].flags = u[l].flags
       => k = l
  BY <1>1 DEF FileRows
<1>5. \A k, l \in DOMAIN u :
        u[k].filename \notin Names /\ u[k].filename = u[l].filename => k = l
  BY <1>1 DEF FileRows
<1> QED BY <1>2, <1>3, <1>4, <1>5 DEF FileRows

(* The last opening that a row counts is closed.                           *)
LEMMA FileRowGone ==
  ASSUME NEW layout \in [Names -> Inodes], NEW S, NEW t \in Seq(FileTable), FileRows(t, S, layout),
         NEW c \in [Inodes -> [Flags -> Nat]], FileCounts(t, c, layout),
         NEW name \in Names, NEW m \in Flags,
         NEW at \in DOMAIN t, t[at].ino = layout[name], t[at].flags = m, t[at].nlink = 1,
         NEW u, u = RemoveAt(t, at),
         NEW d, FileMoves(c, d, layout[name], m, -1)
  PROVE  FileCounts(u, d, layout)
<1> USE DEF FileMoves
<1>1. /\ \A k \in DOMAIN u : Place(k, at) \in DOMAIN t \ {at} /\ u[k] = t[Place(k, at)]
      /\ \A j \in DOMAIN t \ {at} : \E k \in DOMAIN u : j = Place(k, at)
  BY RowRemoved
<1>2. t[at].filename \in Names
  BY FileFlags DEF FileRows
<1>3. ASSUME NEW k \in DOMAIN u, u[k].filename \in Names
      PROVE  /\ u[k].nlink >= d[u[k].ino][u[k].flags]
             /\ OneName(layout) => u[k].nlink = d[u[k].ino][u[k].flags]
  <2>1. PICK j \in DOMAIN t \ {at} : u[k] = t[j]
    BY <1>1
  <2>2. t[j].ino \in Inodes /\ t[j].flags \in Flags
    BY <1>3, <2>1 DEF FileRows
  <2>3. ~(t[j].ino = layout[name] /\ t[j].flags = m)
    BY <1>2, <1>3, <2>1 DEF FileRows
  <2>4. d[t[j].ino][t[j].flags] = c[t[j].ino][t[j].flags]
    BY <2>2, <2>3
  <2> QED BY <1>3, <2>1, <2>4 DEF FileCounts
<1>4. ASSUME NEW a \in Names, NEW f \in Flags, d[layout[a]][f] > 0
      PROVE  \E k \in DOMAIN u : u[k].ino = layout[a] /\ u[k].flags = f
  <2>1. CASE layout[a] = layout[name] /\ f = m
    <3>1. 1 >= c[layout[name]][m] /\ c[layout[name]][m] \in Nat
      BY <1>2 DEF FileCounts
    <3>2. d[layout[a]][f] = c[layout[name]][m] - 1
      BY <2>1
    <3> QED BY <1>4, <3>1, <3>2
  <2>2. CASE ~(layout[a] = layout[name] /\ f = m)
    <3>1. d[layout[a]][f] = c[layout[a]][f]
      BY <2>2
    <3>2. PICK j \in DOMAIN t : t[j].ino = layout[a] /\ t[j].flags = f
      BY <1>4, <3>1 DEF FileCounts
    <3>3. j # at
      BY <2>2, <3>2
    <3> QED BY <1>1, <3>2, <3>3
  <2> QED BY <2>1, <2>2
<1> QED BY <1>3, <1>4 DEF FileCounts

(* An opening that no row counts by this name is closed.                   *)
LEMMA FileNotFound ==
  ASSUME NEW layout \in [Names -> Inodes], NEW S, NEW t, FileRows(t, S, layout),
         Counted(t),
         NEW c \in [Inodes -> [Flags -> Nat]], FileCounts(t, c, layout),
         NEW name \in Names, NEW m \in Flags,
         \A k \in DOMAIN t : ~(t[k].filename = name /\ t[k].flags = m),
         NEW d, FileMoves(c, d, layout[name], m, -1)
  PROVE  FileCounts(t, d, layout)
<1> USE DEF Counted, FileMoves
<1>1. ASSUME NEW k \in DOMAIN t, t[k].filename \in Names
      PROVE  /\ t[k].nlink >= d[t[k].ino][t[k].flags]
             /\ OneName(layout) => t[k].nlink = d[t[k].ino][t[k].flags]
  <2>1. t[k].ino = layout[t[k].filename] /\ t[k].ino \in Inodes /\ t[k].flags \in Flags
    BY <1>1 DEF FileRows
  <2> DEFINE y == c[t[k].ino][t[k].flags]
             x == t[k].nlink
  <2>2. x \in Nat /\ y \in Nat /\ x >= y /\ (OneName(layout) => x = y)
    BY <1>1, <2>1 DEF FileCounts
  <2>3. CASE t[k].ino = layout[name] /\ t[k].flags = m
    <3>1. d[t[k].ino][t[k].flags] = y - 1
      BY <2>1, <2>3
    <3>2. ~OneName(layout)
      BY <1>1, <2>1, <2>3 DEF OneName
    <3> HIDE DEF x, y
    <3> QED BY <2>2, <3>1, <3>2 DEF x
  <2>4. CASE ~(t[k].ino = layout[name] /\ t[k].flags = m)
    <3>1. d[t[k].ino][t[k].flags] = y
      BY <2>1, <2>4
    <3> QED BY <2>2, <3>1
  <2> QED BY <2>3, <2>4
<1>2. ASSUME NEW a \in Names, NEW f \in Flags, d[layout[a]][f] > 0
      PROVE  \E k \in DOMAIN t : t[k].ino = layout[a] /\ t[k].flags = f
  <2>1. c[layout[a]][f] \in Nat /\ d[layout[a]][f] \in {c[layout[a]][f], c[layout[a]][f] - 1}
    OBVIOUS
  <2>2. c[layout[a]][f] > 0
    BY <1>2, <2>1
  <2> QED BY <2>2 DEF FileCounts
<1> QED BY <1>1, <1>2 DEF FileCounts

(* A stream's row.                                                         *)
LEMMA FileStreamAdded ==
  ASSUME NEW layout, NEW S, NEW t, FileRows(t, S, layout),
         NEW c, FileCounts(t, c, layout),
         NEW s \in Streams, s \notin S,
         NEW u, NEW n, NEW row, Gains(t, u, n, row), row.filename = getSTDName[s], row.flags = STD_FLAG
  PROVE  FileRows(u, S \cup {s}, layout) /\ FileCounts(u, c, layout)
<1> USE DEF Gains
<1>1. getSTDName[s] \notin Names
  BY FileFlags
<1>3. \A k \in DOMAIN t : t[k].filename # getSTDName[s]
  BY <1>1, StreamNames DEF FileRows
<1>4. \A k \in DOMAIN u : u[k].filename \in Names =>
        u[k].ino = layout[u[k].filename] /\ u[k].flags \in Flags
  BY <1>1 DEF FileRows
<1>5. ASSUME NEW k \in DOMAIN u, u[k].filename \notin Names
      PROVE  /\ u[k].flags = STD_FLAG
             /\ \E z \in (S \cup {s}) \cap Streams : u[k].filename = getSTDName[z]
  BY <1>5 DEF FileRows
<1>6. \A k, l \in DOMAIN u :
        /\ u[k].filename \in Names /\ u[l].filename \in Names
        /\ u[k].ino = u[l].ino /\ u[k].flags = u[l].flags
       => k = l
  <2> SUFFICES ASSUME NEW k \in DOMAIN u, NEW l \in DOMAIN u,
                      u[k].filename \in Names, u[l].filename \in Names,
                      u[k].ino = u[l].ino, u[k].flags = u[l].flags
               PROVE  k = l
    BY Zenon
  <2>1. k \in DOMAIN t /\ u[k] = t[k] /\ l \in DOMAIN t /\ u[l] = t[l]
    BY <1>1
  <2> QED BY <2>1 DEF FileRows
<1>7. \A k, l \in DOMAIN u :
        u[k].filename \notin Names /\ u[k].filename = u[l].filename => k = l
  BY <1>3 DEF FileRows
<1>8. FileRows(u, S \cup {s}, layout)
  <2>1. \A k \in DOMAIN u : u[k].filename \notin Names =>
          u[k].flags = STD_FLAG /\ \E z \in (S \cup {s}) \cap Streams : u[k].filename = getSTDName[z]
    BY <1>5
  <2> QED BY <1>4, <1>6, <1>7, <2>1 DEF FileRows
<1>9. FileCounts(u, c, layout)
  <2>1. \A k \in DOMAIN u : u[k].filename \in Names => k \in DOMAIN t
    BY <1>1
  <2> QED BY <2>1 DEF FileCounts
<1> QED BY <1>8, <1>9

LEMMA FileStreamDropped ==
  ASSUME NEW layout, NEW S, NEW t \in Seq(FileTable), FileRows(t, S, layout),
         NEW c, FileCounts(t, c, layout),
         NEW s \in Streams, NEW at,
         IF at = 0 THEN \A k \in DOMAIN t : t[k].filename # getSTDName[s]
         ELSE at \in DOMAIN t /\ t[at].filename = getSTDName[s],
         NEW u, u = Drop(t, at)
  PROVE  FileRows(u, S \ {s}, layout) /\ FileCounts(u, c, layout)
<1>1. getSTDName[s] \notin Names
  BY FileFlags
<1>2. FileRows(u, S, layout) /\ FileCounts(u, c, layout) /\ \A k \in DOMAIN u : u[k].filename # getSTDName[s]
  <2>1. CASE at = 0
    BY <2>1 DEF Drop
  <2>2. CASE at # 0
    <3>1. at \in DOMAIN t /\ t[at].filename = getSTDName[s] /\ u = RemoveAt(t, at)
      BY <2>2 DEF Drop
    <3>2. /\ \A k \in DOMAIN u : Place(k, at) \in DOMAIN t \ {at} /\ u[k] = t[Place(k, at)]
          /\ \A j \in DOMAIN t \ {at} : \E k \in DOMAIN u : j = Place(k, at)
      BY <3>1, RowRemoved
    <3>3. FileRows(u, S, layout)
      BY <3>1, FileRowsRemoved
    <3>4. \A k \in DOMAIN u : u[k].filename # getSTDName[s]
      BY <1>1, <3>1, <3>2 DEF FileRows
    <3>5. t[at].flags \notin Flags
      BY <1>1, <3>1, FileFlags DEF FileRows
    <3>6. FileCounts(u, c, layout)
      <4>1. ASSUME NEW k \in DOMAIN u, u[k].filename \in Names
            PROVE  /\ u[k].nlink >= c[u[k].ino][u[k].flags]
                   /\ OneName(layout) => u[k].nlink = c[u[k].ino][u[k].flags]
        BY <3>2, <4>1 DEF FileCounts
      <4>2. ASSUME NEW a \in Names, NEW f \in Flags, c[layout[a]][f] > 0
            PROVE  \E k \in DOMAIN u : u[k].ino = layout[a] /\ u[k].flags = f
        <5>1. PICK j \in DOMAIN t : t[j].ino = layout[a] /\ t[j].flags = f
          BY <4>2 DEF FileCounts
        <5>2. j # at
          BY <3>5, <5>1
        <5> QED BY <3>2, <5>1, <5>2
      <4> QED BY <4>1, <4>2 DEF FileCounts
    <3> QED BY <3>3, <3>4, <3>6
  <2> QED BY <2>1, <2>2
<1>3. FileRows(u, S \ {s}, layout)
  BY <1>2 DEF FileRows
<1> QED BY <1>2, <1>3
Apart(d, layout) == \A s \in Streams : \A a \in Names : d[s].flags = STD_FLAG => d[s].ino # layout[a]

(* The same of the file descriptor table, which does not ask for flags.    *)
DescRows(t, S, d, layout) ==
  /\ \A k \in DOMAIN t : t[k].filename \in Names => t[k].ino = layout[t[k].filename]
  /\ \A k \in DOMAIN t : t[k].filename \notin Names =>
       \E s \in S \cap Streams : /\ t[k].filename = getSTDName[s]
                               /\ t[k].ino = d[s].ino /\ d[s].flags = STD_FLAG
  /\ \A k, l \in DOMAIN t :
       t[k].filename \in Names /\ t[l].filename \in Names /\ t[k].ino = t[l].ino => k = l
  /\ \A k, l \in DOMAIN t :
       t[k].filename \notin Names /\ t[k].filename = t[l].filename => k = l

DescCounts(t, c, layout) ==
  /\ \A k \in DOMAIN t : t[k].filename \in Names =>
       t[k].nlink = Links[t[k].ino] - 1 + c[t[k].ino]
  /\ \A a \in Names : c[layout[a]] > 0 => \E k \in DOMAIN t : t[k].ino = layout[a]

LEMMA DescRowAdded ==
  ASSUME NEW layout \in [Names -> Inodes], NEW S, NEW e, NEW t, DescRows(t, S, e, layout),
         NEW c \in [Inodes -> Nat], NEW name \in Names,
         NoneOn(t, layout[name]),
         NEW u, NEW n, NEW row, Gains(t, u, n, row),
         row.filename = name, row.ino = layout[name], row.nlink = Links[layout[name]],
         NEW d, DescMoves(c, d, layout[name], 1)
  PROVE  DescRows(u, S, e, layout) /\ (DescCounts(t, c, layout) => DescCounts(u, d, layout))
<1> USE DEF Gains, NoneOn, DescMoves
<1>1. DescRows(u, S, e, layout)
  <2>1. \A k \in DOMAIN u : u[k].filename \in Names => u[k].ino = layout[u[k].filename]
    BY DEF DescRows
  <2>2. \A k \in DOMAIN u : u[k].filename \notin Names =>
          \E s \in S \cap Streams : /\ u[k].filename = getSTDName[s]
                                  /\ u[k].ino = e[s].ino /\ e[s].flags = STD_FLAG
    BY DEF DescRows
  <2>3. \A k, l \in DOMAIN u :
          u[k].filename \in Names /\ u[l].filename \in Names /\ u[k].ino = u[l].ino => k = l
    BY DEF DescRows
  <2>4. \A k, l \in DOMAIN u :
          u[k].filename \notin Names /\ u[k].filename = u[l].filename => k = l
    BY DEF DescRows
  <2> QED BY <2>1, <2>2, <2>3, <2>4 DEF DescRows
<1>2. ASSUME DescCounts(t, c, layout) PROVE DescCounts(u, d, layout)
  <2>1. d[layout[name]] = 1
    <3>1. c[layout[name]] \in Nat /\ ~(c[layout[name]] > 0)
      BY <1>2 DEF DescCounts
    <3> QED BY <3>1
  <2>2. ASSUME NEW k \in DOMAIN u, u[k].filename \in Names
        PROVE  u[k].nlink = Links[u[k].ino] - 1 + d[u[k].ino]
    <3>1. CASE k \in DOMAIN t
      <4>1. u[k] = t[k] /\ t[k].ino \in Inodes
        BY <2>2, <3>1 DEF DescRows
      <4>2. d[t[k].ino] = c[t[k].ino]
        BY <3>1, <4>1
      <4> QED BY <1>2, <2>2, <3>1, <4>1, <4>2 DEF DescCounts
    <3>2. CASE k = n
      <4>1. Links[layout[name]] \in Nat
        BY FilesAssumption
      <4> QED BY <2>1, <3>2, <4>1
    <3> QED BY <3>1, <3>2
  <2>3. ASSUME NEW a \in Names, d[layout[a]] > 0
        PROVE  \E k \in DOMAIN u : u[k].ino = layout[a]
    <3>1. CASE layout[a] = layout[name]
      BY <3>1
    <3>2. CASE layout[a] # layout[name]
      <4>1. d[layout[a]] = c[layout[a]]
        BY <3>2
      <4>2. PICK k \in DOMAIN t : t[k].ino = layout[a]
        BY <1>2, <2>3, <4>1 DEF DescCounts
      <4> QED BY <4>2
    <3> QED BY <3>1, <3>2
  <2> QED BY <2>2, <2>3 DEF DescCounts
<1> QED BY <1>1, <1>2

LEMMA DescRowsRecounted ==
  ASSUME NEW layout \in [Names -> Inodes], NEW S, NEW q, NEW t, DescRows(t, S, q, layout),
         NEW at, NEW u, NEW n, Recounts(t, u, at, n)
  PROVE  DescRows(u, S, q, layout)
<1> USE DEF Recounts
<1>1. \A k \in DOMAIN u : u[k].filename \in Names => u[k].ino = layout[u[k].filename]
  BY DEF DescRows
<1>2. \A k \in DOMAIN u : u[k].filename \notin Names =>
        \E s \in S \cap Streams : /\ u[k].filename = getSTDName[s]
                                /\ u[k].ino = q[s].ino /\ q[s].flags = STD_FLAG
  BY DEF DescRows
<1>3. \A k, l \in DOMAIN u :
        u[k].filename \in Names /\ u[l].filename \in Names /\ u[k].ino = u[l].ino => k = l
  BY DEF DescRows
<1>4. \A k, l \in DOMAIN u :
        u[k].filename \notin Names /\ u[k].filename = u[l].filename => k = l
  BY DEF DescRows
<1> QED BY <1>1, <1>2, <1>3, <1>4 DEF DescRows

LEMMA DescRecounted ==
  ASSUME NEW layout \in [Names -> Inodes], NEW S, NEW q, Apart(q, layout),
         NEW t, DescRows(t, S, q, layout), Counted(t),
         NEW c \in [Inodes -> Nat], DescCounts(t, c, layout), NEW name \in Names,
         NEW at \in DOMAIN t, t[at].ino = layout[name],
         NEW e \in {1, -1},
         NEW u, NEW n, n = t[at].nlink + e, Recounts(t, u, at, n),
         NEW d, DescMoves(c, d, layout[name], e)
  PROVE  DescCounts(u, d, layout)
<1> USE DEF Counted, Recounts, DescMoves
<1>1. t[at].filename \in Names
  BY DEF DescRows, Apart
<1>2. ASSUME NEW k \in DOMAIN u, u[k].filename \in Names
      PROVE  u[k].nlink = Links[u[k].ino] - 1 + d[u[k].ino]
  <2> DEFINE x == t[k].nlink
             y == c[t[k].ino]
             z == Links[t[k].ino]
  <2>1. /\ k \in DOMAIN t /\ t[k].filename \in Names
        /\ u[k].ino = t[k].ino /\ t[k].ino \in Inodes
    BY <1>2 DEF DescRows
  <2>2. x \in Nat /\ y \in Nat /\ z \in Nat /\ x = z - 1 + y
    <3>1. z \in Nat
      BY <2>1, FilesAssumption
    <3> QED BY <2>1, <3>1 DEF DescCounts
  <2>3. CASE k = at
    <3>1. u[k].nlink = x + e /\ d[t[k].ino] = y + e
      BY <2>1, <2>3
    <3> HIDE DEF x, y
    <3> QED BY <2>1, <2>2, <3>1
  <2>4. CASE k # at
    <3>1. t[k].ino # layout[name]
      BY <1>1, <2>1, <2>4 DEF DescRows
    <3>2. u[k].nlink = x /\ d[t[k].ino] = y
      BY <2>1, <2>4, <3>1
    <3> HIDE DEF x, y
    <3> QED BY <2>1, <2>2, <3>2
  <2> QED BY <2>3, <2>4
<1>3. ASSUME NEW a \in Names, d[layout[a]] > 0
      PROVE  \E k \in DOMAIN u : u[k].ino = layout[a]
  <2>1. CASE layout[a] = layout[name]
    BY <2>1
  <2>2. CASE layout[a] # layout[name]
    <3>1. d[layout[a]] = c[layout[a]]
      BY <2>2
    <3>2. PICK k \in DOMAIN t : t[k].ino = layout[a]
      BY <1>3, <3>1 DEF DescCounts
    <3> QED BY <3>2
  <2> QED BY <2>1, <2>2
<1> QED BY <1>2, <1>3 DEF DescCounts

LEMMA DescRowsRemoved ==
  ASSUME NEW layout, NEW S, NEW q, NEW t \in Seq(FileDescTable), DescRows(t, S, q, layout),
         NEW at \in DOMAIN t, NEW u, u = RemoveAt(t, at)
  PROVE  DescRows(u, S, q, layout)
<1>0. \A k \in DOMAIN u : Place(k, at) \in DOMAIN t \ {at} /\ u[k] = t[Place(k, at)]
  BY RowRemoved
<1>1. /\ \A k \in DOMAIN u : Place(k, at) \in DOMAIN t \ {at} /\ u[k] = t[Place(k, at)]
      /\ \A k, l \in DOMAIN u : Place(k, at) = Place(l, at) => k = l
  <2>1. \A k, l \in DOMAIN u : Place(k, at) = Place(l, at) => k = l
    BY RowRemoved
  <2> QED BY <1>0, <2>1
<1>2. \A k \in DOMAIN u : u[k].filename \in Names => u[k].ino = layout[u[k].filename]
  BY <1>1 DEF DescRows
<1>3. \A k \in DOMAIN u : u[k].filename \notin Names =>
        \E s \in S \cap Streams : /\ u[k].filename = getSTDName[s]
                                /\ u[k].ino = q[s].ino /\ q[s].flags = STD_FLAG
  BY <1>1 DEF DescRows
<1>4. \A k, l \in DOMAIN u :
        u[k].filename \in Names /\ u[l].filename \in Names /\ u[k].ino = u[l].ino => k = l
  BY <1>1 DEF DescRows
<1>5. \A k, l \in DOMAIN u :
        u[k].filename \notin Names /\ u[k].filename = u[l].filename => k = l
  BY <1>1 DEF DescRows
<1> QED BY <1>2, <1>3, <1>4, <1>5 DEF DescRows

(* The last descriptor of a file without other links is closed.            *)
LEMMA DescRowGone ==
  ASSUME NEW layout \in [Names -> Inodes], NEW S, NEW q, NEW t \in Seq(FileDescTable),
         DescRows(t, S, q, layout),
         NEW c \in [Inodes -> Nat], DescCounts(t, c, layout),
         NEW name \in Names, c[layout[name]] > 0,
         NEW at \in DOMAIN t, t[at].filename = name, t[at].nlink = 1,
         NEW u, u = RemoveAt(t, at),
         NEW d, DescMoves(c, d, layout[name], -1)
  PROVE  DescCounts(u, d, layout)
<1> USE DEF DescMoves
<1>1. /\ \A k \in DOMAIN u : Place(k, at) \in DOMAIN t \ {at} /\ u[k] = t[Place(k, at)]
      /\ \A j \in DOMAIN t \ {at} : \E k \in DOMAIN u : j = Place(k, at)
  BY RowRemoved
<1>2. t[at].ino = layout[name]
  BY DEF DescRows
<1>3. ASSUME NEW k \in DOMAIN u, u[k].filename \in Names
      PROVE  u[k].nlink = Links[u[k].ino] - 1 + d[u[k].ino]
  <2>1. PICK j \in DOMAIN t \ {at} : u[k] = t[j]
    BY <1>1
  <2>2. t[j].ino \in Inodes /\ t[j].ino # layout[name]
    BY <1>2, <1>3, <2>1 DEF DescRows
  <2>3. d[t[j].ino] = c[t[j].ino]
    BY <2>2
  <2> QED BY <1>3, <2>1, <2>3 DEF DescCounts
<1>4. ASSUME NEW a \in Names, d[layout[a]] > 0
      PROVE  \E k \in DOMAIN u : u[k].ino = layout[a]
  <2>1. CASE layout[a] = layout[name]
    <3>1. 1 = Links[layout[name]] - 1 + c[layout[name]]
      BY <1>2 DEF DescCounts
    <3>2. Links[layout[name]] \in Nat \ {0} /\ c[layout[name]] \in Nat
      BY FilesAssumption
    <3>3. c[layout[name]] = 1
      BY <3>1, <3>2
    <3>4. d[layout[a]] = c[layout[name]] - 1
      BY <2>1
    <3> QED BY <1>4, <3>3, <3>4
  <2>2. CASE layout[a] # layout[name]
    <3>1. d[layout[a]] = c[layout[a]]
      BY <2>2
    <3>2. PICK j \in DOMAIN t : t[j].ino = layout[a]
      BY <1>4, <3>1 DEF DescCounts
    <3>3. j # at
      BY <1>2, <2>2, <3>2
    <3> QED BY <1>1, <3>2, <3>3
  <2> QED BY <2>1, <2>2
<1> QED BY <1>3, <1>4 DEF DescCounts

LEMMA DescNotFound ==
  ASSUME NEW layout \in [Names -> Inodes], OneName(layout),
         NEW S, NEW q, NEW t, DescRows(t, S, q, layout),
         NEW c \in [Inodes -> Nat], DescCounts(t, c, layout),
         NEW name \in Names, \A k \in DOMAIN t : t[k].filename # name,
         NEW d, DescMoves(c, d, layout[name], -1)
  PROVE  DescCounts(t, d, layout)
<1> USE DEF DescMoves
<1>1. ASSUME NEW k \in DOMAIN t, t[k].filename \in Names
      PROVE  t[k].nlink = Links[t[k].ino] - 1 + d[t[k].ino]
  <2>1. t[k].ino = layout[t[k].filename] /\ t[k].ino \in Inodes
    BY <1>1 DEF DescRows
  <2>2. t[k].ino # layout[name]
    BY <1>1, <2>1 DEF OneName
  <2>3. d[t[k].ino] = c[t[k].ino]
    BY <2>1, <2>2
  <2> QED BY <1>1, <2>3 DEF DescCounts
<1>2. ASSUME NEW a \in Names, d[layout[a]] > 0
      PROVE  \E k \in DOMAIN t : t[k].ino = layout[a]
  <2>1. c[layout[a]] \in Nat /\ d[layout[a]] \in {c[layout[a]], c[layout[a]] - 1}
    OBVIOUS
  <2>2. c[layout[a]] > 0
    BY <1>2, <2>1
  <2> QED BY <2>2 DEF DescCounts
<1> QED BY <1>1, <1>2 DEF DescCounts

LEMMA DescStreamAdded ==
  ASSUME NEW layout, NEW S, NEW q, NEW t, DescRows(t, S, q, layout),
         NEW c, NEW s \in Streams, s \notin S, q[s].flags = STD_FLAG,
         NEW u, NEW n, NEW row, Gains(t, u, n, row), row.filename = getSTDName[s], row.ino = q[s].ino
  PROVE  /\ DescRows(u, S \cup {s}, q, layout)
         /\ DescCounts(t, c, layout) => DescCounts(u, c, layout)
<1> USE DEF Gains
<1>1. getSTDName[s] \notin Names
  BY FileFlags
<1>2. \A k \in DOMAIN t : t[k].filename # getSTDName[s]
  BY <1>1, StreamNames DEF DescRows
<1>3. \A k \in DOMAIN u : u[k].filename \in Names => k \in DOMAIN t /\ u[k] = t[k]
  BY <1>1
<1>4. \A k \in DOMAIN u : u[k].filename \in Names => u[k].ino = layout[u[k].filename]
  BY <1>3 DEF DescRows
<1>5. \A k \in DOMAIN u : u[k].filename \notin Names =>
        \E z \in (S \cup {s}) \cap Streams : /\ u[k].filename = getSTDName[z]
                                         /\ u[k].ino = q[z].ino /\ q[z].flags = STD_FLAG
  <2> SUFFICES ASSUME NEW k \in DOMAIN u, u[k].filename \notin Names
               PROVE  \E z \in (S \cup {s}) \cap Streams :
                        /\ u[k].filename = getSTDName[z]
                        /\ u[k].ino = q[z].ino /\ q[z].flags = STD_FLAG
    OBVIOUS
  <2> QED BY DEF DescRows
<1>6. \A k, l \in DOMAIN u :
        u[k].filename \in Names /\ u[l].filename \in Names /\ u[k].ino = u[l].ino => k = l
  BY <1>3 DEF DescRows
<1>7. \A k, l \in DOMAIN u :
        u[k].filename \notin Names /\ u[k].filename = u[l].filename => k = l
  BY <1>2 DEF DescRows
<1>8. DescRows(u, S \cup {s}, q, layout)
  BY <1>4, <1>5, <1>6, <1>7 DEF DescRows
<1>9. ASSUME DescCounts(t, c, layout) PROVE DescCounts(u, c, layout)
  BY <1>3, <1>9 DEF DescCounts
<1> QED BY <1>8, <1>9

LEMMA DescStreamDropped ==
  ASSUME NEW layout, NEW S, NEW q, NEW t \in Seq(FileDescTable), DescRows(t, S, q, layout),
         NEW c, NEW s \in Streams, NEW at,
         IF at = 0 THEN \A k \in DOMAIN t : t[k].filename # getSTDName[s]
         ELSE at \in DOMAIN t /\ t[at].filename = getSTDName[s],
         NEW u, u = Drop(t, at)
  PROVE  /\ DescRows(u, S \ {s}, q, layout)
         /\ Apart(q, layout) /\ DescCounts(t, c, layout) => DescCounts(u, c, layout)
<1>1. getSTDName[s] \notin Names
  BY FileFlags
<1>2. /\ DescRows(u, S, q, layout)
      /\ Apart(q, layout) /\ DescCounts(t, c, layout) => DescCounts(u, c, layout)
      /\ \A k \in DOMAIN u : u[k].filename # getSTDName[s]
  <2>1. CASE at = 0
    BY <2>1 DEF Drop
  <2>2. CASE at # 0
    <3>1. at \in DOMAIN t /\ t[at].filename = getSTDName[s] /\ u = RemoveAt(t, at)
      BY <2>2 DEF Drop
    <3>2. /\ \A k \in DOMAIN u : Place(k, at) \in DOMAIN t \ {at} /\ u[k] = t[Place(k, at)]
          /\ \A j \in DOMAIN t \ {at} : \E k \in DOMAIN u : j = Place(k, at)
      BY <3>1, RowRemoved
    <3>3. DescRows(u, S, q, layout)
      BY <3>1, DescRowsRemoved
    <3>4. \A k \in DOMAIN u : u[k].filename # getSTDName[s]
      BY <1>1, <3>1, <3>2 DEF DescRows
    <3>5. ASSUME Apart(q, layout), DescCounts(t, c, layout) PROVE DescCounts(u, c, layout)
      <4>1. \A a \in Names : t[at].ino # layout[a]
        BY <1>1, <3>1, <3>5 DEF DescRows, Apart
      <4>2. ASSUME NEW k \in DOMAIN u, u[k].filename \in Names
            PROVE  u[k].nlink = Links[u[k].ino] - 1 + c[u[k].ino]
        BY <3>2, <3>5, <4>2 DEF DescCounts
      <4>3. ASSUME NEW a \in Names, c[layout[a]] > 0
            PROVE  \E k \in DOMAIN u : u[k].ino = layout[a]
        <5>1. PICK j \in DOMAIN t : t[j].ino = layout[a]
          BY <3>5, <4>3 DEF DescCounts
        <5>2. j # at
          BY <4>1, <5>1
        <5> QED BY <3>2, <5>1, <5>2
      <4> QED BY <4>2, <4>3 DEF DescCounts
    <3> QED BY <3>3, <3>4, <3>5
  <2> QED BY <2>1, <2>2
<1>3. DescRows(u, S \ {s}, q, layout)
  BY <1>2 DEF DescRows
<1> QED BY <1>2, <1>3

(* The open file table, and that without failures the caller holds what is *)
(* in it, as a file or as a stream.                                        *)
RowsAreOpen(o, d, layout) ==
  /\ \A k, l \in DOMAIN o : o[k].fd = o[l].fd => k = l
  /\ \A k \in DOMAIN o : d[o[k].fd] # Closed
  /\ \A k \in DOMAIN o : o[k].filename \in Names =>
       d[o[k].fd] = [ino |-> layout[o[k].filename], flags |-> o[k].flags]

RowsAreHeld(o, d, F, S) ==
  /\ F \cap S = {}
  /\ \A k \in DOMAIN o : o[k].fd \in F \cup S
  /\ \A f \in F \cup S : \E k \in DOMAIN o : o[k].fd = f
  /\ \A k \in DOMAIN o : o[k].fd \in F => o[k].filename \in Names /\ o[k].flags \in Flags
  /\ \A k \in DOMAIN o : o[k].fd \in S => o[k].filename \notin Names
  /\ \A f \in Fds : d[f] # Closed /\ f \notin F => d[f].flags = STD_FLAG

LEMMA RowsOpened ==
  ASSUME NEW layout \in [Names -> Inodes], NEW F, NEW S, NEW o, NEW d,
         RowsAreOpen(o, d, layout), \A k \in DOMAIN o : o[k].fd \in Fds,
         NEW name \in Names, NEW m \in Flags, NEW fd \in Fds, d[fd] = Closed,
         NEW e, \A f \in Fds : e[f] = IF f = fd THEN [ino |-> layout[name], flags |-> m] ELSE d[f],
         NEW p, NEW n, NEW row, Gains(o, p, n, row),
         row.filename = name, row.fd = fd, row.flags = m
  PROVE  /\ RowsAreOpen(p, e, layout)
         /\ RowsAreHeld(o, d, F, S) => RowsAreHeld(p, e, F \cup {fd}, S)
<1> USE DEF Gains
<1>1. \A k \in DOMAIN o : o[k].fd # fd
  BY DEF RowsAreOpen
<1>2. e[fd] # Closed
  <2>1. layout[name] # 0 /\ e[fd].ino = layout[name] /\ Closed.ino = 0
    BY FilesAssumption DEF Closed
  <2> QED BY <2>1
<1>3. RowsAreOpen(p, e, layout)
  <2>1. \A k, l \in DOMAIN p : p[k].fd = p[l].fd => k = l
    BY <1>1 DEF RowsAreOpen
  <2>2. \A k \in DOMAIN p : e[p[k].fd] # Closed
    BY <1>1, <1>2 DEF RowsAreOpen
  <2>3. \A k \in DOMAIN p : p[k].filename \in Names =>
          e[p[k].fd] = [ino |-> layout[p[k].filename], flags |-> p[k].flags]
    BY <1>1 DEF RowsAreOpen
  <2> QED BY <2>1, <2>2, <2>3 DEF RowsAreOpen
<1>4. ASSUME RowsAreHeld(o, d, F, S) PROVE RowsAreHeld(p, e, F \cup {fd}, S)
  <2>1. fd \notin F \cup S
    BY <1>1, <1>4 DEF RowsAreHeld
  <2>2. /\ (F \cup {fd}) \cap S = {}
        /\ \A k \in DOMAIN p : p[k].fd \in F \cup {fd} \cup S
        /\ \A f \in F \cup {fd} \cup S : \E k \in DOMAIN p : p[k].fd = f
    BY <1>4, <2>1 DEF RowsAreHeld
  <2>3. \A k \in DOMAIN p : p[k].fd \in F \cup {fd} => p[k].filename \in Names /\ p[k].flags \in Flags
    BY <1>1, <1>4 DEF RowsAreHeld
  <2>4. \A k \in DOMAIN p : p[k].fd \in S => p[k].filename \notin Names
    BY <1>4, <2>1 DEF RowsAreHeld
  <2>5. \A f \in Fds : e[f] # Closed /\ f \notin F \cup {fd} => e[f].flags = STD_FLAG
    BY <1>4 DEF RowsAreHeld
  <2> QED BY <2>2, <2>3, <2>4, <2>5 DEF RowsAreHeld
<1> QED BY <1>3, <1>4

LEMMA RowsStreamOpened ==
  ASSUME NEW layout, NEW F, NEW S, NEW o, NEW d,
         RowsAreOpen(o, d, layout),
         NEW s \in Streams, d[s] # Closed, \A k \in DOMAIN o : o[k].fd # s,
         NEW p, NEW n, NEW row, Gains(o, p, n, row),
         row.filename = getSTDName[s], row.fd = s
  PROVE  /\ RowsAreOpen(p, d, layout)
         /\ RowsAreHeld(o, d, F, S) => s \notin F \cup S /\ RowsAreHeld(p, d, F, S \cup {s})
<1> USE DEF Gains
<1>1. getSTDName[s] \notin Names
  BY FileFlags
<1>2. RowsAreOpen(p, d, layout)
  <2>1. \A k, l \in DOMAIN p : p[k].fd = p[l].fd => k = l
    BY DEF RowsAreOpen
  <2>2. \A k \in DOMAIN p : d[p[k].fd] # Closed
    BY DEF RowsAreOpen
  <2>3. \A k \in DOMAIN p : p[k].filename \in Names =>
          d[p[k].fd] = [ino |-> layout[p[k].filename], flags |-> p[k].flags]
    BY <1>1 DEF RowsAreOpen
  <2> QED BY <2>1, <2>2, <2>3 DEF RowsAreOpen
<1>3. ASSUME RowsAreHeld(o, d, F, S) PROVE s \notin F \cup S /\ RowsAreHeld(p, d, F, S \cup {s})
  <2>1. s \notin F \cup S
    BY <1>3 DEF RowsAreHeld
  <2>2. /\ F \cap (S \cup {s}) = {}
        /\ \A k \in DOMAIN p : p[k].fd \in F \cup (S \cup {s})
        /\ \A f \in F \cup (S \cup {s}) : \E k \in DOMAIN p : p[k].fd = f
    BY <1>3, <2>1 DEF RowsAreHeld
  <2>3. \A k \in DOMAIN p : p[k].fd \in F => p[k].filename \in Names /\ p[k].flags \in Flags
    BY <1>3, <2>1 DEF RowsAreHeld
  <2>4. \A k \in DOMAIN p : p[k].fd \in S \cup {s} => p[k].filename \notin Names
    BY <1>1, <1>3 DEF RowsAreHeld
  <2> QED BY <1>3, <2>1, <2>2, <2>3, <2>4 DEF RowsAreHeld
<1> QED BY <1>2, <1>3

LEMMA RowsClosed ==
  ASSUME NEW layout, NEW F, NEW S, NEW o \in Seq(OpenFileTable), NEW d,
         RowsAreOpen(o, d, layout),
         NEW r \in DOMAIN o, NEW p, p = RemoveAt(o, r),
         NEW e, \/ \A f \in Fds : e[f] = IF f = o[r].fd THEN Closed ELSE d[f]
                \/ e = d
  PROVE  /\ RowsAreOpen(p, e, layout)
         /\ RowsAreHeld(o, d, F, S) /\ (e = d => o[r].fd \notin F)
              => RowsAreHeld(p, e, F \ {o[r].fd}, S \ {o[r].fd})
<1>1. \A k \in DOMAIN o : o[k].fd \in Fds
  <2>1. \A k \in DOMAIN o : o[k] \in OpenFileTable
    OBVIOUS
  <2> QED BY <2>1 DEF OpenFileTable
<1>2. /\ \A k \in DOMAIN p : Place(k, r) \in DOMAIN o \ {r} /\ p[k] = o[Place(k, r)]
      /\ \A j \in DOMAIN o \ {r} : \E k \in DOMAIN p : j = Place(k, r)
      /\ \A k, l \in DOMAIN p : Place(k, r) = Place(l, r) => k = l
  BY RowRemoved
<1>3. PICK fd : fd = o[r].fd
  OBVIOUS
<1>4. \A k \in DOMAIN o \ {r} : o[k].fd # fd
  BY <1>3 DEF RowsAreOpen
<1>5. \A k \in DOMAIN p : p[k].fd \in Fds /\ p[k].fd # fd
  BY <1>1, <1>2, <1>4
<1>6. \A k \in DOMAIN p : e[p[k].fd] = d[p[k].fd]
  BY <1>3, <1>5
<1>7. RowsAreOpen(p, e, layout)
  <2>1. \A k, l \in DOMAIN p : p[k].fd = p[l].fd => k = l
    BY <1>2 DEF RowsAreOpen
  <2>2. \A k \in DOMAIN p : d[p[k].fd] # Closed
    BY <1>2 DEF RowsAreOpen
  <2>3. \A k \in DOMAIN p : p[k].filename \in Names =>
          d[p[k].fd] = [ino |-> layout[p[k].filename], flags |-> p[k].flags]
    BY <1>2 DEF RowsAreOpen
  <2> QED BY <1>6, <2>1, <2>2, <2>3 DEF RowsAreOpen
<1>8. ASSUME RowsAreHeld(o, d, F, S), e = d => fd \notin F
      PROVE  RowsAreHeld(p, e, F \ {fd}, S \ {fd})
  <2>1. (F \ {fd}) \cap (S \ {fd}) = {}
    BY <1>8 DEF RowsAreHeld
  <2>2. \A k \in DOMAIN p : p[k].fd \in (F \ {fd}) \cup (S \ {fd})
    BY <1>2, <1>5, <1>8 DEF RowsAreHeld
  <2>3. ASSUME NEW f \in (F \ {fd}) \cup (S \ {fd}) PROVE \E k \in DOMAIN p : p[k].fd = f
    <3>1. PICK j \in DOMAIN o : o[j].fd = f
      BY <1>8 DEF RowsAreHeld
    <3>2. j # r
      BY <1>3, <3>1
    <3> QED BY <1>2, <3>1, <3>2
  <2>4. \A k \in DOMAIN p : p[k].fd \in F \ {fd} => p[k].filename \in Names /\ p[k].flags \in Flags
    BY <1>2, <1>8 DEF RowsAreHeld
  <2>5. \A k \in DOMAIN p : p[k].fd \in S \ {fd} => p[k].filename \notin Names
    BY <1>2, <1>8 DEF RowsAreHeld
  <2>6. ASSUME NEW f \in Fds, e[f] # Closed, f \notin F \ {fd} PROVE e[f].flags = STD_FLAG
    <3>1. CASE e = d
      BY <1>8, <2>6, <3>1 DEF RowsAreHeld
    <3>2. CASE \A g \in Fds : e[g] = IF g = o[r].fd THEN Closed ELSE d[g]
      <4>1. f # fd /\ e[f] = d[f]
        BY <1>3, <2>6, <3>2
      <4> QED BY <1>8, <2>6, <4>1 DEF RowsAreHeld
    <3> QED BY <3>1, <3>2
  <2> QED BY <2>1, <2>2, <2>3, <2>4, <2>5, <2>6 DEF RowsAreHeld
<1> QED BY <1>3, <1>7, <1>8

(* A descriptor that no row has is opened or closed.                       *)
LEMMA RowsUnlisted ==
  ASSUME NEW layout, NEW o, NEW d, RowsAreOpen(o, d, layout), \A k \in DOMAIN o : o[k].fd \in Fds,
         NEW fd, \A k \in DOMAIN o : o[k].fd # fd,
         NEW e, \A f \in Fds : f # fd => e[f] = d[f]
  PROVE  RowsAreOpen(o, e, layout)
<1>1. \A k \in DOMAIN o : e[o[k].fd] = d[o[k].fd]
  OBVIOUS
<1> QED BY <1>1 DEF RowsAreOpen

(* Openings, per flags and for all flags.                                  *)
FileOpens(o, layout) == [i \in Inodes |-> [f \in Flags |-> Opened(o, layout, i, {f})]]
DescOpens(o, layout) == [i \in Inodes |-> Opened(o, layout, i, Flags)]

TablesInv ==
  /\ TypeOK
  /\ Linked(ft) /\ Linked(fdt)
  /\ RowsAreOpen(oft, descriptor, inode)
  /\ failures = 0 =>
       /\ RowsAreHeld(oft, descriptor, files, streams)
       /\ FileRows(ft, streams, inode)
       /\ FileCounts(ft, FileOpens(oft, inode), inode)
       /\ DescRows(fdt, streams, descriptor, inode)
       /\ OneName(inode) /\ Apart(descriptor, inode) => DescCounts(fdt, DescOpens(oft, inode), inode)

LEMMA OpensMore ==
  ASSUME NEW layout \in [Names -> Inodes], NEW o \in Seq(OpenFileTable),
         NEW row, row.filename \in Names, row.flags \in Flags, NEW p, p = Append(o, row)
  PROVE  /\ FileOpens(o, layout) \in [Inodes -> [Flags -> Nat]]
         /\ DescOpens(o, layout) \in [Inodes -> Nat]
         /\ FileMoves(FileOpens(o, layout), FileOpens(p, layout), layout[row.filename], row.flags, 1)
         /\ DescMoves(DescOpens(o, layout), DescOpens(p, layout), layout[row.filename], 1)
<1>1. \A i, F : /\ Opened(o, layout, i, F) \in Nat
                /\ Opened(p, layout, i, F) = Opened(o, layout, i, F)
                     + (IF row.flags \in F /\ layout[row.filename] = i THEN 1 ELSE 0)
  BY OpenedMore
<1>2. FileOpens(o, layout) \in [Inodes -> [Flags -> Nat]] /\ DescOpens(o, layout) \in [Inodes -> Nat]
  BY <1>1 DEF FileOpens, DescOpens
<1>3. FileMoves(FileOpens(o, layout), FileOpens(p, layout), layout[row.filename], row.flags, 1)
  <2> SUFFICES ASSUME NEW i \in Inodes, NEW f \in Flags
               PROVE  FileOpens(p, layout)[i][f] =
                        IF i = layout[row.filename] /\ f = row.flags
                          THEN FileOpens(o, layout)[i][f] + 1 ELSE FileOpens(o, layout)[i][f]
    BY DEF FileMoves
  <2>1. /\ FileOpens(p, layout)[i][f] = Opened(p, layout, i, {f})
        /\ FileOpens(o, layout)[i][f] = Opened(o, layout, i, {f})
    BY DEF FileOpens
  <2>2. /\ Opened(o, layout, i, {f}) \in Nat
        /\ Opened(p, layout, i, {f}) = Opened(o, layout, i, {f})
             + (IF row.flags \in {f} /\ layout[row.filename] = i THEN 1 ELSE 0)
    BY <1>1
  <2> QED BY <2>1, <2>2
<1>4. DescMoves(DescOpens(o, layout), DescOpens(p, layout), layout[row.filename], 1)
  <2> SUFFICES ASSUME NEW i \in Inodes
               PROVE  DescOpens(p, layout)[i] =
                        IF i = layout[row.filename] THEN DescOpens(o, layout)[i] + 1
                        ELSE DescOpens(o, layout)[i]
    BY DEF DescMoves
  <2>1. /\ DescOpens(p, layout)[i] = Opened(p, layout, i, Flags)
        /\ DescOpens(o, layout)[i] = Opened(o, layout, i, Flags)
    BY DEF DescOpens
  <2>2. /\ Opened(o, layout, i, Flags) \in Nat
        /\ Opened(p, layout, i, Flags) = Opened(o, layout, i, Flags)
             + (IF row.flags \in Flags /\ layout[row.filename] = i THEN 1 ELSE 0)
    BY <1>1
  <2> QED BY <2>1, <2>2
<1> QED BY <1>2, <1>3, <1>4

LEMMA OpensLess ==
  ASSUME NEW layout \in [Names -> Inodes], NEW o \in Seq(OpenFileTable),
         NEW r \in DOMAIN o, o[r].filename \in Names, o[r].flags \in Flags,
         NEW p, p = RemoveAt(o, r)
  PROVE  /\ FileOpens(o, layout) \in [Inodes -> [Flags -> Nat]]
         /\ DescOpens(o, layout) \in [Inodes -> Nat] /\ DescOpens(o, layout)[layout[o[r].filename]] > 0
         /\ FileMoves(FileOpens(o, layout), FileOpens(p, layout), layout[o[r].filename], o[r].flags, -1)
         /\ DescMoves(DescOpens(o, layout), DescOpens(p, layout), layout[o[r].filename], -1)
<1>1. \A i, F : /\ Opened(o, layout, i, F) \in Nat /\ Opened(p, layout, i, F) \in Nat
                /\ Opened(p, layout, i, F) = Opened(o, layout, i, F)
                     - (IF o[r].flags \in F /\ layout[o[r].filename] = i THEN 1 ELSE 0)
  BY OpenedLess
<1>2. FileOpens(o, layout) \in [Inodes -> [Flags -> Nat]] /\ DescOpens(o, layout) \in [Inodes -> Nat]
  BY <1>1 DEF FileOpens, DescOpens
<1>3. FileMoves(FileOpens(o, layout), FileOpens(p, layout), layout[o[r].filename], o[r].flags, -1)
  <2> SUFFICES ASSUME NEW i \in Inodes, NEW f \in Flags
               PROVE  FileOpens(p, layout)[i][f] =
                        IF i = layout[o[r].filename] /\ f = o[r].flags
                          THEN FileOpens(o, layout)[i][f] + (-1) ELSE FileOpens(o, layout)[i][f]
    BY DEF FileMoves
  <2>1. /\ FileOpens(p, layout)[i][f] = Opened(p, layout, i, {f})
        /\ FileOpens(o, layout)[i][f] = Opened(o, layout, i, {f})
    BY DEF FileOpens
  <2>2. /\ Opened(o, layout, i, {f}) \in Nat
        /\ Opened(p, layout, i, {f}) = Opened(o, layout, i, {f})
             - (IF o[r].flags \in {f} /\ layout[o[r].filename] = i THEN 1 ELSE 0)
    BY <1>1
  <2> QED BY <2>1, <2>2
<1>4. ASSUME NEW i \in Inodes
      PROVE  /\ DescOpens(p, layout)[i] \in Nat
             /\ DescOpens(p, layout)[i] =
                  IF i = layout[o[r].filename] THEN DescOpens(o, layout)[i] + (-1)
                  ELSE DescOpens(o, layout)[i]
  <2>1. /\ DescOpens(p, layout)[i] = Opened(p, layout, i, Flags)
        /\ DescOpens(o, layout)[i] = Opened(o, layout, i, Flags)
    BY DEF DescOpens
  <2>2. /\ Opened(o, layout, i, Flags) \in Nat /\ Opened(p, layout, i, Flags) \in Nat
        /\ Opened(p, layout, i, Flags) = Opened(o, layout, i, Flags)
             - (IF o[r].flags \in Flags /\ layout[o[r].filename] = i THEN 1 ELSE 0)
    BY <1>1
  <2> QED BY <2>1, <2>2
<1>5. DescOpens(o, layout)[layout[o[r].filename]] > 0
  <2>1. layout[o[r].filename] \in Inodes
    OBVIOUS
  <2> DEFINE x == DescOpens(o, layout)[layout[o[r].filename]]
  <2>2. x \in Nat /\ x + (-1) \in Nat
    BY <1>2, <1>4, <2>1
  <2> HIDE DEF x
  <2>3. x > 0
    BY <2>2
  <2> QED BY <2>3 DEF x
<1>6. DescMoves(DescOpens(o, layout), DescOpens(p, layout), layout[o[r].filename], -1)
  BY <1>4 DEF DescMoves
<1> QED BY <1>2, <1>3, <1>5, <1>6

LEMMA OpensSame ==
  ASSUME NEW layout, NEW o \in Seq(OpenFileTable), NEW p,
         \/ \E row : row.filename \notin Names /\ p = Append(o, row)
         \/ \E r \in DOMAIN o : o[r].filename \notin Names /\ p = RemoveAt(o, r)
  PROVE  FileOpens(p, layout) = FileOpens(o, layout) /\ DescOpens(p, layout) = DescOpens(o, layout)
<1>1. \A i, F : Opened(p, layout, i, F) = Opened(o, layout, i, F)
  BY OpenedSame
<1> QED BY <1>1 DEF FileOpens, DescOpens

(* What myOpen and myClose do to the file table ...                        *)
LEMMA FileOpened ==
  ASSUME NEW layout \in [Names -> Inodes], NEW S, NEW t \in Seq(FileTable), FileRows(t, S, layout),
         NEW c \in [Inodes -> [Flags -> Nat]], FileCounts(t, c, layout),
         NEW name \in Names, NEW m \in Flags, NEW at,
         IF at = 0 THEN NoneOf(t, layout[name], m)
         ELSE at \in DOMAIN t /\ t[at].ino = layout[name] /\ t[at].flags = m,
         NEW row \in FileTable, row.filename = name, row.ino = layout[name], row.flags = m, row.nlink = 1,
         NEW d, FileMoves(c, d, layout[name], m, 1)
  PROVE  FileRows(Refer(t, at, row), S, layout) /\ FileCounts(Refer(t, at, row), d, layout)
<1>1. CASE at = 0
  <2>1. Refer(t, at, row) = Append(t, row) /\ NoneOf(t, layout[name], m)
    BY <1>1 DEF Refer
  <2>2. Gains(t, Append(t, row), Len(t) + 1, row)
    BY RowAppended
  <2> QED BY <2>1, <2>2, FileRowAdded
<1>2. CASE at # 0
  <2>1. at \in DOMAIN t /\ t[at].ino = layout[name] /\ t[at].flags = m
    BY <1>2
  <2>2. Counted(t)
    <3>1. \A k \in DOMAIN t : t[k] \in FileTable
      OBVIOUS
    <3> QED BY <3>1 DEF FileTable, Counted
  <2>3. PICK n \in Nat : n = t[at].nlink + 1
    BY <2>1, <2>2 DEF Counted
  <2>4. PICK u : u = Refer(t, at, row)
    OBVIOUS
  <2>5. u = [t EXCEPT ![at].nlink = n]
    BY <1>2, <2>3, <2>4 DEF Refer
  <2>6. Recounts(t, u, at, n) /\ SameFlags(t, u)
    BY <2>1, <2>5, FileRelinked
  <2> QED BY <2>1, <2>2, <2>3, <2>4, <2>6, FileRecounted
<1> QED BY <1>1, <1>2

LEMMA FileClosed ==
  ASSUME NEW layout \in [Names -> Inodes], NEW S, NEW t \in Seq(FileTable), Linked(t),
         FileRows(t, S, layout),
         NEW c \in [Inodes -> [Flags -> Nat]], FileCounts(t, c, layout),
         NEW name \in Names, NEW m \in Flags, NEW at,
         IF at = 0 THEN \A k \in DOMAIN t : ~(t[k].filename = name /\ t[k].flags = m)
         ELSE at \in DOMAIN t /\ t[at].filename = name /\ t[at].flags = m,
         NEW d, FileMoves(c, d, layout[name], m, -1)
  PROVE  FileRows(Release(t, at), S, layout) /\ FileCounts(Release(t, at), d, layout)
<1>1. Counted(t)
  <2>1. \A k \in DOMAIN t : t[k] \in FileTable
    OBVIOUS
  <2> QED BY <2>1 DEF FileTable, Counted
<1>2. CASE at = 0
  <2>1. Release(t, at) = t /\ \A k \in DOMAIN t : ~(t[k].filename = name /\ t[k].flags = m)
    BY <1>2 DEF Release
  <2> QED BY <1>1, <2>1, FileNotFound
<1>3. CASE at # 0
  <2>1. at \in DOMAIN t /\ t[at].ino = layout[name] /\ t[at].flags = m
    BY <1>3 DEF FileRows
  <2>2. t[at].nlink \in Nat /\ t[at].nlink > 0
    BY <1>1, <2>1 DEF Linked, Counted
  <2>3. PICK u : u = Release(t, at)
    OBVIOUS
  <2>4. CASE t[at].nlink - 1 # 0
    <3>1. PICK n \in Nat : n = t[at].nlink - 1 /\ n = t[at].nlink + (-1)
      <4>1. \A x \in Nat : x > 0 => x - 1 \in Nat /\ x - 1 = x + (-1)
        OBVIOUS
      <4> QED BY <2>2, <4>1
    <3>2. u = [t EXCEPT ![at].nlink = n]
      BY <1>3, <2>3, <2>4, <3>1 DEF Release
    <3>3. Recounts(t, u, at, n) /\ SameFlags(t, u)
      BY <2>1, <3>2, FileRelinked
    <3>4. -1 \in {1, -1}
      OBVIOUS
    <3> QED BY <1>1, <2>1, <2>3, <3>1, <3>3, <3>4, FileRecounted
  <2>5. CASE t[at].nlink - 1 = 0
    <3>1. u = RemoveAt(t, at) /\ t[at].nlink = 1
      BY <1>3, <2>2, <2>3, <2>5 DEF Release
    <3>2. FileRows(u, S, layout)
      BY <2>1, <3>1, FileRowsRemoved
    <3>3. FileCounts(u, d, layout)
      BY <2>1, <3>1, FileRowGone
    <3> QED BY <2>3, <3>2, <3>3
  <2> QED BY <2>4, <2>5
<1> QED BY <1>2, <1>3

(* ... and to the file descriptor table.                                   *)
LEMMA DescOpened ==
  ASSUME NEW layout \in [Names -> Inodes], NEW S, NEW q, NEW t \in Seq(FileDescTable),
         DescRows(t, S, q, layout),
         NEW c \in [Inodes -> Nat], NEW name \in Names, NEW at,
         IF at = 0 THEN NoneOn(t, layout[name])
         ELSE at \in DOMAIN t /\ t[at].ino = layout[name],
         NEW row \in FileDescTable, row.filename = name, row.ino = layout[name],
         row.nlink = Links[layout[name]],
         NEW d, DescMoves(c, d, layout[name], 1)
  PROVE  /\ DescRows(Refer(t, at, row), S, q, layout)
         /\ Apart(q, layout) /\ DescCounts(t, c, layout) => DescCounts(Refer(t, at, row), d, layout)
<1>1. CASE at = 0
  <2>1. Refer(t, at, row) = Append(t, row) /\ NoneOn(t, layout[name])
    BY <1>1 DEF Refer
  <2>2. Gains(t, Append(t, row), Len(t) + 1, row)
    BY RowAppended
  <2>3. /\ DescRows(Append(t, row), S, q, layout)
        /\ DescCounts(t, c, layout) => DescCounts(Append(t, row), d, layout)
    <3> PICK u : u = Append(t, row)
      OBVIOUS
    <3>1. Gains(t, u, Len(t) + 1, row)
      BY <2>2
    <3>2. DescRows(u, S, q, layout) /\ (DescCounts(t, c, layout) => DescCounts(u, d, layout))
      BY <2>1, <3>1, DescRowAdded
    <3> QED BY <3>2
  <2> QED BY <2>1, <2>3
<1>2. CASE at # 0
  <2>1. at \in DOMAIN t /\ t[at].ino = layout[name]
    BY <1>2
  <2>2. Counted(t)
    <3>1. \A k \in DOMAIN t : t[k] \in FileDescTable
      OBVIOUS
    <3> QED BY <3>1 DEF FileDescTable, Counted
  <2>3. PICK n \in Nat : n = t[at].nlink + 1
    BY <2>1, <2>2 DEF Counted
  <2>4. PICK u : u = Refer(t, at, row)
    OBVIOUS
  <2>5. u = [t EXCEPT ![at].nlink = n]
    BY <1>2, <2>3, <2>4 DEF Refer
  <2>6. Recounts(t, u, at, n)
    BY <2>1, <2>5, DescRelinked
  <2>7. 1 \in {1, -1}
    OBVIOUS
  <2>8. DescRows(u, S, q, layout)
    BY <2>6, DescRowsRecounted
  <2>9. ASSUME Apart(q, layout), DescCounts(t, c, layout) PROVE DescCounts(u, d, layout)
    BY <2>1, <2>2, <2>3, <2>6, <2>7, <2>9, DescRecounted
  <2> QED BY <2>4, <2>8, <2>9
<1> QED BY <1>1, <1>2

LEMMA DescClosed ==
  ASSUME NEW layout \in [Names -> Inodes], NEW S, NEW q, NEW t \in Seq(FileDescTable), Linked(t),
         DescRows(t, S, q, layout),
         NEW c \in [Inodes -> Nat], NEW name \in Names, c[layout[name]] > 0, NEW at,
         IF at = 0 THEN \A k \in DOMAIN t : t[k].filename # name
         ELSE at \in DOMAIN t /\ t[at].filename = name,
         NEW d, DescMoves(c, d, layout[name], -1)
  PROVE  /\ DescRows(Release(t, at), S, q, layout)
         /\ OneName(layout) /\ Apart(q, layout) /\ DescCounts(t, c, layout)
              => DescCounts(Release(t, at), d, layout)
<1>1. Counted(t)
  <2>1. \A k \in DOMAIN t : t[k] \in FileDescTable
    OBVIOUS
  <2> QED BY <2>1 DEF FileDescTable, Counted
<1>2. CASE at = 0
  <2>1. Release(t, at) = t /\ \A k \in DOMAIN t : t[k].filename # name
    BY <1>2 DEF Release
  <2> QED BY <2>1, DescNotFound
<1>3. CASE at # 0
  <2>1. at \in DOMAIN t /\ t[at].ino = layout[name] /\ t[at].filename = name
    BY <1>3 DEF DescRows
  <2>2. t[at].nlink \in Nat /\ t[at].nlink > 0
    BY <1>1, <2>1 DEF Linked, Counted
  <2>3. PICK u : u = Release(t, at)
    OBVIOUS
  <2>4. CASE t[at].nlink - 1 # 0
    <3>1. PICK n \in Nat : n = t[at].nlink - 1 /\ n = t[at].nlink + (-1)
      <4>1. \A x \in Nat : x > 0 => x - 1 \in Nat /\ x - 1 = x + (-1)
        OBVIOUS
      <4> QED BY <2>2, <4>1
    <3>2. u = [t EXCEPT ![at].nlink = n]
      BY <1>3, <2>3, <2>4, <3>1 DEF Release
    <3>3. Recounts(t, u, at, n)
      BY <2>1, <3>2, DescRelinked
    <3>4. -1 \in {1, -1}
      OBVIOUS
    <3>5. DescRows(u, S, q, layout)
      BY <3>3, DescRowsRecounted
    <3>6. ASSUME Apart(q, layout), DescCounts(t, c, layout) PROVE DescCounts(u, d, layout)
      BY <1>1, <2>1, <3>1, <3>3, <3>4, <3>6, DescRecounted
    <3> QED BY <2>3, <3>5, <3>6
  <2>5. CASE t[at].nlink - 1 = 0
    <3>1. u = RemoveAt(t, at) /\ t[at].nlink = 1
      BY <1>3, <2>2, <2>3, <2>5 DEF Release
    <3>2. DescRows(u, S, q, layout)
      BY <2>1, <3>1, DescRowsRemoved
    <3>3. DescCounts(t, c, layout) => DescCounts(u, d, layout)
      BY <2>1, <3>1, DescRowGone
    <3> QED BY <2>3, <3>2, <3>3
  <2> QED BY <2>4, <2>5
<1> QED BY <1>2, <1>3

(* The descriptors of the streams in use stay as they were.                *)
StreamsStay(q, e) == \A s \in Streams : q[s].flags = STD_FLAG \/ e[s].flags = STD_FLAG => e[s] = q[s]

LEMMA StreamsLeft ==
  ASSUME NEW layout, NEW q, NEW e, StreamsStay(q, e), NEW t, NEW S
  PROVE  /\ DescRows(t, S, q, layout) => DescRows(t, S, e, layout)
         /\ Apart(e, layout) => Apart(q, layout)
<1>1. ASSUME DescRows(t, S, q, layout) PROVE DescRows(t, S, e, layout)
  <2>1. \A k \in DOMAIN t : t[k].filename \notin Names =>
          \E s \in S \cap Streams : /\ t[k].filename = getSTDName[s]
                                  /\ t[k].ino = e[s].ino /\ e[s].flags = STD_FLAG
    BY <1>1 DEF DescRows, StreamsStay
  <2> QED BY <1>1, <2>1 DEF DescRows
<1>2. ASSUME Apart(e, layout) PROVE Apart(q, layout)
  BY <1>2 DEF Apart, StreamsStay
<1> QED BY <1>1, <1>2

LEMMA TablesInitially == Init => TablesInv
<1> SUFFICES ASSUME Init PROVE TablesInv
  OBVIOUS
<1> USE DEF Init
<1>1. TypeOK
  <2>1. failures \in 0..MaxFailures
    BY FilesAssumption
  <2>2. descriptor \in [Fds -> {Closed} \cup [ino : Inodes, flags : Flags \cup {STD_FLAG}]]
    <3>1. [ino : Under, flags : {STD_FLAG}] \subseteq [ino : Inodes, flags : Flags \cup {STD_FLAG}]
      BY FilesAssumption
    <3> QED BY <3>1
  <2>3. ft \in Seq(FileTable) /\ oft \in Seq(OpenFileTable) /\ fdt \in Seq(FileDescTable)
    OBVIOUS
  <2> QED BY <2>1, <2>2, <2>3 DEF TypeOK
<1>2. Linked(ft) /\ Linked(fdt) /\ RowsAreOpen(oft, descriptor, inode)
  BY DEF Linked, RowsAreOpen
<1>3. RowsAreHeld(oft, descriptor, files, streams)
  <2>1. \A f \in Fds : descriptor[f] # Closed => descriptor[f].flags = STD_FLAG
    OBVIOUS
  <2> QED BY <2>1 DEF RowsAreHeld
<1>4. FileRows(ft, streams, inode) /\ DescRows(fdt, streams, descriptor, inode)
  BY DEF FileRows, DescRows
<1>5. \A layout, i, F : Opened(oft, layout, i, F) = 0
  <2> SUFFICES ASSUME NEW layout, NEW i, NEW F PROVE Opened(oft, layout, i, F) = 0
    OBVIOUS
  <2>1. On(oft, NamesOf(layout, i), F) = {}
    BY DEF On
  <2> QED BY <2>1, FS_EmptySet DEF Opened, Count
<1>6. \A i \in Inodes : DescOpens(oft, inode)[i] = 0 /\ \A f \in Flags : FileOpens(oft, inode)[i][f] = 0
  BY <1>5 DEF DescOpens, FileOpens
<1>7. inode \in [Names -> Inodes]
  BY FilesAssumption
<1>8. FileCounts(ft, FileOpens(oft, inode), inode)
  BY <1>6, <1>7 DEF FileCounts
<1>9. DescCounts(fdt, DescOpens(oft, inode), inode)
  BY <1>6, <1>7 DEF DescCounts
<1> QED BY <1>1, <1>2, <1>3, <1>4, <1>8, <1>9 DEF TablesInv

LEMMA myOpenKeeps ==
  ASSUME TablesInv, NEW fd \in Fds, NEW name \in Names, NEW flags \in Flags, myOpen(fd, name, flags)
  PROVE  TablesInv'
<1> DEFINE filerow == [filename |-> name, ino |-> inode[name], flags |-> flags, nlink |-> 1]
           openrow == [filename |-> name, fd |-> fd, flags |-> flags]
           descrow == [filename |-> name, ino |-> inode[name], nlink |-> Links[inode[name]]]
<1>1. TypeOK
  BY DEF TablesInv
<1>2. inode \in [Names -> Inodes] /\ inode' = inode /\ failures' = failures /\ streams' = streams
  BY <1>1, FilesAssumption DEF TypeOK, myOpen
<1>3. /\ ft' = Refer(ft, FileAt(ft, inode[name], flags), filerow)
      /\ oft' = Append(oft, openrow)
      /\ fdt' = Refer(fdt, InodeAt(fdt, inode[name]), descrow)
      /\ files' = files \cup {fd}
      /\ descriptor' = [descriptor EXCEPT ![fd] = [ino |-> inode[name], flags |-> flags]]
      /\ descriptor[fd] = Closed
  BY DEF myOpen, Opens, FileAt, InodeAt
<1>4. filerow \in FileTable /\ openrow \in OpenFileTable /\ descrow \in FileDescTable /\ descrow.nlink > 0
  <2>1. inode[name] \in Inodes /\ Links[inode[name]] \in Nat /\ Links[inode[name]] > 0
    <3>1. \A i \in Inodes : Links[i] \in Nat /\ Links[i] > 0
      BY FilesAssumption
    <3> QED BY <1>2, <3>1
  <2>2. name \in AllNames /\ flags \in Flags \cup {STD_FLAG} /\ 1 \in Nat
    BY DEF AllNames
  <2>3. filerow \in FileTable
    BY <2>1, <2>2 DEF FileTable
  <2>4. openrow \in OpenFileTable
    BY <2>2 DEF OpenFileTable
  <2>5. descrow \in FileDescTable /\ descrow.nlink > 0
    BY <2>1, <2>2 DEF FileDescTable
  <2> QED BY <2>3, <2>4, <2>5
<1>5. PICK i : i = FileAt(ft, inode[name], flags)
  OBVIOUS
<1>6. IF i = 0 THEN NoneOf(ft, inode[name], flags)
      ELSE i \in DOMAIN ft /\ ft[i].ino = inode[name] /\ ft[i].flags = flags
  BY <1>1, <1>5, FoundByFile DEF TypeOK, NoneOf
<1>7. PICK j : j = InodeAt(fdt, inode[name])
  OBVIOUS
<1>8. IF j = 0 THEN NoneOn(fdt, inode[name]) ELSE j \in DOMAIN fdt /\ fdt[j].ino = inode[name]
  BY <1>1, <1>7, FoundByInode DEF TypeOK, NoneOn
<1>9. \A f \in Fds : descriptor'[f] = IF f = fd THEN [ino |-> inode[name], flags |-> flags] ELSE descriptor[f]
  BY <1>1, <1>3 DEF TypeOK
<1>10. /\ ft' \in Seq(FileTable) /\ Linked(ft')
       /\ fdt' \in Seq(FileDescTable) /\ Linked(fdt')
  <2>1. i \in DOMAIN ft \cup {0} /\ j \in DOMAIN fdt \cup {0} /\ filerow.nlink > 0
    BY <1>6, <1>8
  <2>2. ft \in Seq(FileTable) /\ Linked(ft) /\ fdt \in Seq(FileDescTable) /\ Linked(fdt)
    BY DEF TablesInv, TypeOK
  <2> HIDE DEF filerow, descrow
  <2>3. Refer(ft, i, filerow) \in Seq(FileTable) /\ Linked(Refer(ft, i, filerow))
    BY <1>4, <2>1, <2>2, FileRefers
  <2>4. Refer(fdt, j, descrow) \in Seq(FileDescTable) /\ Linked(Refer(fdt, j, descrow))
    BY <1>4, <2>1, <2>2, DescRefers
  <2> QED BY <1>3, <1>5, <1>7, <2>3, <2>4
<1>11. TypeOK'
  <2>1. oft' \in Seq(OpenFileTable)
    BY <1>1, <1>3, <1>4 DEF TypeOK
  <2>2. descriptor' \in [Fds -> {Closed} \cup [ino : Inodes, flags : Flags \cup {STD_FLAG}]]
    BY <1>1, <1>2, <1>3 DEF TypeOK
  <2>3. undefined' = undefined
    BY DEF myOpen
  <2> QED BY <1>1, <1>2, <1>3, <1>10, <2>1, <2>2, <2>3 DEF TypeOK
<1>12. /\ RowsAreOpen(oft', descriptor', inode)
       /\ failures = 0 => RowsAreHeld(oft', descriptor', files', streams)
  <2>1. \A k \in DOMAIN oft : oft[k].fd \in Fds
    <3>1. \A k \in DOMAIN oft : oft[k] \in OpenFileTable
      BY <1>1 DEF TypeOK
    <3> QED BY <3>1 DEF OpenFileTable
  <2>2. PICK p : p = oft' /\ Gains(oft, p, Len(oft) + 1, openrow)
    <3>1. oft \in Seq(OpenFileTable)
      BY <1>1 DEF TypeOK
    <3> HIDE DEF openrow
    <3>2. PICK p : p = Append(oft, openrow)
      OBVIOUS
    <3>3. Gains(oft, p, Len(oft) + 1, openrow)
      BY <1>4, <3>1, <3>2, RowAppended
    <3> QED BY <1>3, <3>2, <3>3
  <2>3. PICK e : e = descriptor'
    OBVIOUS
  <2>4. \A f \in Fds : e[f] = IF f = fd THEN [ino |-> inode[name], flags |-> flags] ELSE descriptor[f]
    BY <1>9, <2>3
  <2>5. openrow.filename = name /\ openrow.fd = fd /\ openrow.flags = flags
    OBVIOUS
  <2>6. RowsAreOpen(oft, descriptor, inode)
    BY DEF TablesInv
  <2> HIDE DEF openrow
  <2>7. /\ RowsAreOpen(p, e, inode)
        /\ RowsAreHeld(oft, descriptor, files, streams) => RowsAreHeld(p, e, files \cup {fd}, streams)
    BY <1>2, <1>3, <2>1, <2>2, <2>4, <2>5, <2>6, RowsOpened
  <2> QED BY <1>3, <2>2, <2>3, <2>7 DEF TablesInv
<1>13. /\ FileOpens(oft, inode) \in [Inodes -> [Flags -> Nat]]
       /\ DescOpens(oft, inode) \in [Inodes -> Nat]
       /\ FileMoves(FileOpens(oft, inode), FileOpens(oft', inode), inode[name], flags, 1)
       /\ DescMoves(DescOpens(oft, inode), DescOpens(oft', inode), inode[name], 1)
  <2>1. oft \in Seq(OpenFileTable) /\ openrow.filename = name /\ openrow.flags = flags
    BY <1>1 DEF TypeOK
  <2> HIDE DEF openrow
  <2>2. PICK p : p = Append(oft, openrow)
    OBVIOUS
  <2>3. /\ FileOpens(oft, inode) \in [Inodes -> [Flags -> Nat]]
        /\ DescOpens(oft, inode) \in [Inodes -> Nat]
        /\ FileMoves(FileOpens(oft, inode), FileOpens(p, inode), inode[openrow.filename], openrow.flags, 1)
        /\ DescMoves(DescOpens(oft, inode), DescOpens(p, inode), inode[openrow.filename], 1)
    BY <1>2, <2>1, <2>2, OpensMore
  <2> QED BY <1>3, <2>1, <2>2, <2>3
<1>14. ASSUME failures = 0
       PROVE  FileRows(ft', streams, inode) /\ FileCounts(ft', FileOpens(oft', inode), inode)
  <2>1. /\ ft \in Seq(FileTable) /\ FileRows(ft, streams, inode)
        /\ FileCounts(ft, FileOpens(oft, inode), inode)
    BY <1>14 DEF TablesInv, TypeOK
  <2>2. /\ filerow.filename = name /\ filerow.ino = inode[name]
        /\ filerow.flags = flags /\ filerow.nlink = 1
    OBVIOUS
  <2> HIDE DEF filerow
  <2>3. PICK c, d : c = FileOpens(oft, inode) /\ d = FileOpens(oft', inode)
    OBVIOUS
  <2>4. FileRows(Refer(ft, i, filerow), streams, inode) /\ FileCounts(Refer(ft, i, filerow), d, inode)
    BY <1>2, <1>4, <1>6, <1>13, <2>1, <2>2, <2>3, FileOpened
  <2> QED BY <1>3, <1>5, <2>3, <2>4
<1>15. ASSUME failures = 0
       PROVE  /\ DescRows(fdt', streams, descriptor', inode)
              /\ OneName(inode) /\ Apart(descriptor', inode) =>
                   DescCounts(fdt', DescOpens(oft', inode), inode)
  <2>1. /\ fdt \in Seq(FileDescTable) /\ DescRows(fdt, streams, descriptor, inode)
        /\ OneName(inode) /\ Apart(descriptor, inode) => DescCounts(fdt, DescOpens(oft, inode), inode)
    BY <1>15 DEF TablesInv, TypeOK
  <2>2. /\ descrow.filename = name /\ descrow.ino = inode[name]
        /\ descrow.nlink = Links[inode[name]]
    OBVIOUS
  <2> HIDE DEF descrow
  <2>3. PICK c, d : c = DescOpens(oft, inode) /\ d = DescOpens(oft', inode)
    OBVIOUS
  <2>4. PICK u : u = Refer(fdt, j, descrow)
    OBVIOUS
  <2>5. DescRows(u, streams, descriptor, inode)
    BY <1>2, <1>4, <1>8, <1>13, <2>1, <2>2, <2>3, <2>4, DescOpened
  <2>6. ASSUME Apart(descriptor, inode), DescCounts(fdt, c, inode) PROVE DescCounts(u, d, inode)
    BY <1>2, <1>4, <1>8, <1>13, <2>1, <2>2, <2>3, <2>4, <2>6, DescOpened
  <2>7. PICK e : e = descriptor'
    OBVIOUS
  <2>8. StreamsStay(descriptor, e)
    <3>1. Closed.flags # STD_FLAG /\ flags # STD_FLAG /\ Streams \subseteq Fds
      BY FileFlags, FilesAssumption
    <3> QED BY <1>3, <1>9, <2>7, <3>1 DEF StreamsStay
  <2>9. DescRows(u, streams, e, inode) /\ (Apart(e, inode) => Apart(descriptor, inode))
    BY <2>5, <2>8, StreamsLeft
  <2> QED BY <1>3, <1>7, <2>1, <2>3, <2>4, <2>6, <2>7, <2>9
<1> QED BY <1>2, <1>10, <1>11, <1>12, <1>14, <1>15 DEF TablesInv

LEMMA RowsTyped ==
  ASSUME TypeOK
  PROVE  /\ inode \in [Names -> Inodes]
         /\ ft \in Seq(FileTable) /\ oft \in Seq(OpenFileTable) /\ fdt \in Seq(FileDescTable)
         /\ \A k \in DOMAIN oft : oft[k].fd \in Fds
         /\ ERROR \notin Fds
<1>1. oft \in Seq(OpenFileTable)
  BY DEF TypeOK
<1>2. \A k \in DOMAIN oft : oft[k] \in OpenFileTable
  BY <1>1
<1>3. ERROR \notin Fds
  BY FilesAssumption DEF ERROR, Fds
<1> QED BY <1>1, <1>2, <1>3, FilesAssumption DEF TypeOK, OpenFileTable

LEMMA mySTDOpenKeeps ==
  ASSUME TablesInv, NEW s \in Streams, mySTDOpen(s)
  PROVE  TablesInv'
<1> DEFINE name == getSTDName[s]
           filerow == [filename |-> name, ino |-> descriptor[s].ino, flags |-> STD_FLAG, nlink |-> 1]
           openrow == [filename |-> name, fd |-> s, flags |-> STD_FLAG]
           descrow == [filename |-> name, ino |-> descriptor[s].ino,
                       nlink |-> Links[descriptor[s].ino]]
<1>1. TypeOK
  BY DEF TablesInv
<1>2. /\ ft' = Append(ft, filerow)
      /\ oft' = Append(oft, openrow)
      /\ fdt' = Append(fdt, descrow)
      /\ streams' = streams \cup {s}
      /\ UNCHANGED <<failures, inode, descriptor, files, undefined>>
      /\ descriptor[s] # Closed
  BY DEF mySTDOpen
<1>3. \A k \in DOMAIN oft : oft[k].fd # s
  <2>1. FdAt(oft, s) = 0
    BY DEF mySTDOpen, RowOf, FdAt
  <2> QED BY <1>1, <2>1, RowsTyped, FoundByFd
<1>4. s \in Fds /\ name \in AllNames /\ name \notin Names
  BY FileFlags, FilesAssumption DEF AllNames
<1>5. filerow \in FileTable /\ openrow \in OpenFileTable /\ descrow \in FileDescTable /\ descrow.nlink > 0
  <2>1. descriptor[s].ino \in Inodes
    BY <1>1, <1>2, <1>4 DEF TypeOK
  <2>2. Links[descriptor[s].ino] \in Nat /\ Links[descriptor[s].ino] > 0
    <3>1. \A i \in Inodes : Links[i] \in Nat /\ Links[i] > 0
      BY FilesAssumption
    <3> QED BY <2>1, <3>1
  <2>3. STD_FLAG \in Flags \cup {STD_FLAG} /\ 1 \in Nat
    OBVIOUS
  <2> HIDE DEF name
  <2>4. filerow \in FileTable
    BY <1>4, <2>1, <2>3 DEF FileTable
  <2>5. openrow \in OpenFileTable
    BY <1>4, <2>3 DEF OpenFileTable
  <2>6. descrow \in FileDescTable /\ descrow.nlink > 0
    BY <1>4, <2>1, <2>2 DEF FileDescTable
  <2> QED BY <2>4, <2>5, <2>6
<1>6. /\ filerow.filename = name /\ filerow.flags = STD_FLAG /\ filerow.nlink > 0
      /\ openrow.filename = name /\ openrow.fd = s
      /\ descrow.filename = name /\ descrow.ino = descriptor[s].ino
  OBVIOUS
<1> HIDE DEF filerow, openrow, descrow
<1>7. /\ ft' \in Seq(FileTable) /\ Gains(ft, ft', Len(ft) + 1, filerow)
      /\ oft' \in Seq(OpenFileTable) /\ Gains(oft, oft', Len(oft) + 1, openrow)
      /\ fdt' \in Seq(FileDescTable) /\ Gains(fdt, fdt', Len(fdt) + 1, descrow)
  <2>1. PICK t, o, u : t = Append(ft, filerow) /\ o = Append(oft, openrow) /\ u = Append(fdt, descrow)
    OBVIOUS
  <2>2. t \in Seq(FileTable) /\ Gains(ft, t, Len(ft) + 1, filerow)
    BY <1>1, <1>5, <2>1, RowsTyped, RowAppended
  <2>3. o \in Seq(OpenFileTable) /\ Gains(oft, o, Len(oft) + 1, openrow)
    BY <1>1, <1>5, <2>1, RowsTyped, RowAppended
  <2>4. u \in Seq(FileDescTable) /\ Gains(fdt, u, Len(fdt) + 1, descrow)
    BY <1>1, <1>5, <2>1, RowsTyped, RowAppended
  <2> QED BY <1>2, <2>1, <2>2, <2>3, <2>4
<1>8. Linked(ft') /\ Linked(fdt')
  BY <1>5, <1>6, <1>7 DEF TablesInv, Linked, Gains
<1>9. TypeOK'
  BY <1>1, <1>2, <1>7 DEF TypeOK
<1>10. /\ RowsAreOpen(oft', descriptor, inode)
       /\ failures = 0 => s \notin files \cup streams /\ RowsAreHeld(oft', descriptor, files, streams')
  <2>1. RowsAreOpen(oft, descriptor, inode)
    BY DEF TablesInv
  <2>2. PICK p, n : p = oft' /\ Gains(oft, p, n, openrow)
    BY <1>7
  <2>3. RowsAreOpen(p, descriptor, inode)
    BY <1>2, <1>3, <1>6, <2>1, <2>2, RowsStreamOpened
  <2>4. ASSUME RowsAreHeld(oft, descriptor, files, streams)
        PROVE  s \notin files \cup streams /\ RowsAreHeld(p, descriptor, files, streams \cup {s})
    BY <1>2, <1>3, <1>6, <2>1, <2>2, <2>4, RowsStreamOpened
  <2> QED BY <1>2, <2>2, <2>3, <2>4 DEF TablesInv
<1>11. FileOpens(oft', inode) = FileOpens(oft, inode) /\ DescOpens(oft', inode) = DescOpens(oft, inode)
  <2>1. openrow.filename \notin Names
    BY <1>4, <1>6
  <2> QED BY <1>1, <1>2, <2>1, RowsTyped, OpensSame
<1>12. ASSUME failures = 0
       PROVE  /\ FileRows(ft', streams', inode) /\ FileCounts(ft', FileOpens(oft, inode), inode)
              /\ DescRows(fdt', streams', descriptor, inode)
              /\ DescCounts(fdt, DescOpens(oft, inode), inode) =>
                   DescCounts(fdt', DescOpens(oft, inode), inode)
  <2>1. /\ FileRows(ft, streams, inode) /\ FileCounts(ft, FileOpens(oft, inode), inode)
        /\ DescRows(fdt, streams, descriptor, inode) /\ RowsAreHeld(oft, descriptor, files, streams)
    BY <1>12 DEF TablesInv
  <2>2. s \notin streams /\ descriptor[s].flags = STD_FLAG
    BY <1>2, <1>4, <1>10, <1>12, <2>1 DEF RowsAreHeld
  <2>3. FileRows(ft', streams \cup {s}, inode) /\ FileCounts(ft', FileOpens(oft, inode), inode)
    BY <1>6, <1>7, <2>1, <2>2, FileStreamAdded
  <2>4. PICK u, n, c : u = fdt' /\ Gains(fdt, u, n, descrow) /\ c = DescOpens(oft, inode)
    BY <1>7
  <2>5. DescRows(u, streams \cup {s}, descriptor, inode)
    BY <1>6, <2>1, <2>2, <2>4, DescStreamAdded
  <2>6. ASSUME DescCounts(fdt, c, inode) PROVE DescCounts(u, c, inode)
    BY <1>6, <2>1, <2>2, <2>4, <2>6, DescStreamAdded
  <2> QED BY <1>2, <2>3, <2>4, <2>5, <2>6
<1> QED BY <1>2, <1>8, <1>9, <1>10, <1>11, <1>12 DEF TablesInv

(* The second half of a closing, whether the row was there or not.         *)
LEMMA ClosesTyped ==
  ASSUME TypeOK, Linked(ft), Linked(fdt), NEW fd \in Fds \cup {ERROR}, NEW filename, NEW flags,
         Closes(fd, filename, flags)
  PROVE  /\ ft' \in Seq(FileTable) /\ Linked(ft')
         /\ fdt' \in Seq(FileDescTable) /\ Linked(fdt')
         /\ descriptor' \in [Fds -> {Closed} \cup [ino : Inodes, flags : Flags \cup {STD_FLAG}]]
         /\ files' \subseteq Fds \cup {ERROR} /\ streams' \subseteq Streams \cup {ERROR}
         /\ failures' = failures /\ inode' = inode
<1>1. PICK i, j : i = NameAndFlagsAt(ft, filename, flags) /\ j = NameAt(fdt, filename)
  OBVIOUS
<1>2. i \in DOMAIN ft \cup {0} /\ j \in DOMAIN fdt \cup {0}
  <2>1. i \in DOMAIN ft \cup {0}
    BY <1>1, RowsTyped, FoundByNameAndFlags
  <2>2. j \in DOMAIN fdt \cup {0}
    BY <1>1, RowsTyped, FoundByName
  <2> QED BY <2>1, <2>2
<1>3. ft' = Release(ft, i) /\ fdt' = Release(fdt, j)
  BY <1>1 DEF Closes, NameAndFlagsAt, NameAt
<1>4. ft' \in Seq(FileTable) /\ Linked(ft')
  BY <1>2, <1>3, RowsTyped, FileReleases
<1>5. fdt' \in Seq(FileDescTable) /\ Linked(fdt')
  BY <1>2, <1>3, RowsTyped, DescReleases
<1>6. descriptor' \in [Fds -> {Closed} \cup [ino : Inodes, flags : Flags \cup {STD_FLAG}]]
  <2>1. CASE fd = ERROR
    BY <2>1 DEF Closes, TypeOK
  <2>2. CASE fd # ERROR
    BY <2>2 DEF Closes, TypeOK
  <2> QED BY <2>1, <2>2
<1>7. files' \subseteq Fds \cup {ERROR} /\ streams' \subseteq Streams \cup {ERROR}
  BY DEF Closes, TypeOK
<1> QED BY <1>4, <1>5, <1>6, <1>7 DEF Closes

LEMMA myCloseKeeps ==
  ASSUME TablesInv, NEW fd \in files, myClose(fd)
  PROVE  TablesInv'
<1>1. TypeOK /\ Linked(ft) /\ Linked(fdt) /\ RowsAreOpen(oft, descriptor, inode)
  BY DEF TablesInv
<1>2. PICK r : r = FdAt(oft, fd)
  OBVIOUS
<1>3. r \in DOMAIN oft /\ oft[r].fd = fd /\ fd \in Fds /\ fd # ERROR
  <2>1. r # 0
    BY <1>2 DEF myClose, RowOf, FdAt
  <2>2. r \in DOMAIN oft /\ oft[r].fd = fd
    BY <1>1, <1>2, <2>1, RowsTyped, FoundByFd
  <2> QED BY <1>1, <2>2, RowsTyped
<1>4. PICK name, m : name = oft[r].filename /\ m = oft[r].flags
  OBVIOUS
<1>5. oft' = RemoveAt(oft, r) /\ Closes(fd, name, m) /\ undefined' = undefined
  BY <1>2, <1>4 DEF myClose, RowOf, FdAt
<1>6. /\ ft' \in Seq(FileTable) /\ Linked(ft')
      /\ fdt' \in Seq(FileDescTable) /\ Linked(fdt')
      /\ descriptor' \in [Fds -> {Closed} \cup [ino : Inodes, flags : Flags \cup {STD_FLAG}]]
      /\ files' \subseteq Fds \cup {ERROR} /\ streams' \subseteq Streams \cup {ERROR}
      /\ failures' = failures /\ inode' = inode
  BY <1>1, <1>3, <1>5, ClosesTyped
<1>7. oft' \in Seq(OpenFileTable)
  BY <1>1, <1>3, <1>5, RowsTyped, RowRemoved
<1>8. TypeOK'
  BY <1>1, <1>5, <1>6, <1>7 DEF TypeOK
<1>9. /\ \A f \in Fds : descriptor'[f] = IF f = fd THEN Closed ELSE descriptor[f]
      /\ files' = files \ {fd} /\ streams' = streams \ {fd}
  BY <1>1, <1>3, <1>5 DEF Closes, TypeOK
<1>10. PICK p, e : p = oft' /\ e = descriptor'
  OBVIOUS
<1>11. RowsAreOpen(p, e, inode)
  BY <1>1, <1>3, <1>5, <1>9, <1>10, RowsTyped, RowsClosed
<1>12. ASSUME failures = 0
       PROVE  /\ RowsAreHeld(p, e, files', streams') /\ streams' = streams
              /\ name \in Names /\ m \in Flags
  <2>1. RowsAreHeld(oft, descriptor, files, streams)
    BY <1>12 DEF TablesInv
  <2>2. descriptor[fd] # Closed /\ e[fd] = Closed
    BY <1>1, <1>3, <1>9, <1>10 DEF RowsAreOpen
  <2>3. e # descriptor
    BY <2>2
  <2>4. RowsAreHeld(p, e, files \ {oft[r].fd}, streams \ {oft[r].fd})
    BY <1>1, <1>3, <1>5, <1>9, <1>10, <2>1, <2>3, RowsTyped, RowsClosed
  <2>5. name \in Names /\ m \in Flags /\ fd \notin streams
    BY <1>3, <1>4, <2>1 DEF RowsAreHeld
  <2> QED BY <1>3, <1>9, <2>4, <2>5
<1>13. ASSUME failures = 0
       PROVE  /\ FileOpens(oft, inode) \in [Inodes -> [Flags -> Nat]]
              /\ DescOpens(oft, inode) \in [Inodes -> Nat] /\ DescOpens(oft, inode)[inode[name]] > 0
              /\ FileMoves(FileOpens(oft, inode), FileOpens(p, inode), inode[name], m, -1)
              /\ DescMoves(DescOpens(oft, inode), DescOpens(p, inode), inode[name], -1)
  BY <1>1, <1>3, <1>4, <1>5, <1>10, <1>12, <1>13, RowsTyped, OpensLess
<1>14. PICK i, j : i = NameAndFlagsAt(ft, name, m) /\ j = NameAt(fdt, name)
  OBVIOUS
<1>15. ft' = Release(ft, i) /\ fdt' = Release(fdt, j)
  BY <1>5, <1>14 DEF Closes, NameAndFlagsAt, NameAt
<1>16. ASSUME failures = 0
       PROVE  FileRows(ft', streams, inode) /\ FileCounts(ft', FileOpens(p, inode), inode)
  <2>1. FileRows(ft, streams, inode) /\ FileCounts(ft, FileOpens(oft, inode), inode)
    BY <1>16 DEF TablesInv
  <2>2. IF i = 0 THEN \A k \in DOMAIN ft : ~(ft[k].filename = name /\ ft[k].flags = m)
        ELSE i \in DOMAIN ft /\ ft[i].filename = name /\ ft[i].flags = m
    BY <1>1, <1>14, RowsTyped, FoundByNameAndFlags
  <2>3. PICK c, d : c = FileOpens(oft, inode) /\ d = FileOpens(p, inode)
    OBVIOUS
  <2>4. FileRows(Release(ft, i), streams, inode) /\ FileCounts(Release(ft, i), d, inode)
    BY <1>1, <1>12, <1>13, <1>16, <2>1, <2>2, <2>3, RowsTyped, FileClosed
  <2> QED BY <1>15, <2>3, <2>4
<1>17. ASSUME failures = 0
       PROVE  /\ DescRows(fdt', streams, e, inode)
              /\ OneName(inode) /\ Apart(e, inode) => DescCounts(fdt', DescOpens(p, inode), inode)
  <2>1. /\ DescRows(fdt, streams, descriptor, inode)
        /\ OneName(inode) /\ Apart(descriptor, inode) => DescCounts(fdt, DescOpens(oft, inode), inode)
    BY <1>17 DEF TablesInv
  <2>2. IF j = 0 THEN \A k \in DOMAIN fdt : fdt[k].filename # name
        ELSE j \in DOMAIN fdt /\ fdt[j].filename = name
    BY <1>1, <1>14, RowsTyped, FoundByName
  <2>3. PICK c, d : c = DescOpens(oft, inode) /\ d = DescOpens(p, inode)
    OBVIOUS
  <2>4. PICK u : u = Release(fdt, j)
    OBVIOUS
  <2>5. DescRows(u, streams, descriptor, inode)
    BY <1>1, <1>12, <1>13, <1>17, <2>1, <2>2, <2>3, <2>4, RowsTyped, DescClosed
  <2>6. ASSUME OneName(inode), Apart(descriptor, inode), DescCounts(fdt, c, inode)
        PROVE  DescCounts(u, d, inode)
    BY <1>1, <1>12, <1>13, <1>17, <2>1, <2>2, <2>3, <2>4, <2>6, RowsTyped, DescClosed
  <2>7. StreamsStay(descriptor, e)
    <3>1. descriptor[fd].flags = m
      <4>1. oft[r].filename \in Names
        BY <1>4, <1>12, <1>17
      <4>2. descriptor[oft[r].fd] = [ino |-> inode[oft[r].filename], flags |-> oft[r].flags]
        BY <1>1, <1>3, <4>1 DEF RowsAreOpen
      <4> QED BY <1>3, <1>4, <4>2
    <3>2. Closed.flags # STD_FLAG /\ m # STD_FLAG /\ Streams \subseteq Fds
      BY <1>12, <1>17, FileFlags, FilesAssumption
    <3> QED BY <1>9, <1>10, <3>1, <3>2 DEF StreamsStay
  <2>8. DescRows(u, streams, e, inode) /\ (Apart(e, inode) => Apart(descriptor, inode))
    BY <2>5, <2>7, StreamsLeft
  <2> QED BY <1>15, <2>1, <2>3, <2>4, <2>6, <2>8
<1> QED BY <1>6, <1>8, <1>10, <1>11, <1>12, <1>16, <1>17 DEF TablesInv

LEMMA mySTDCloseKeeps ==
  ASSUME TablesInv, NEW s \in streams, mySTDClose(s)
  PROVE  TablesInv'
<1>1. TypeOK /\ Linked(ft) /\ Linked(fdt) /\ RowsAreOpen(oft, descriptor, inode)
  BY DEF TablesInv
<1>2. s \in Streams /\ s \in Fds
  BY <1>1, FilesAssumption DEF TypeOK, mySTDClose
<1>3. PICK r, i, j : /\ r = FdAt(oft, s)
                     /\ i = NameAt(ft, getSTDName[s]) /\ j = NameAt(fdt, getSTDName[s])
  OBVIOUS
<1>4. /\ oft' = Drop(oft, r) /\ ft' = Drop(ft, i) /\ fdt' = Drop(fdt, j)
      /\ streams' = streams \ {s}
      /\ UNCHANGED <<failures, inode, descriptor, files, undefined>>
  BY <1>3 DEF mySTDClose, DropNamed, RowOf, FdAt, NameAt
<1>5. IF r = 0 THEN \A k \in DOMAIN oft : oft[k].fd # s ELSE r \in DOMAIN oft /\ oft[r].fd = s
  BY <1>1, <1>3, RowsTyped, FoundByFd
<1>6. IF i = 0 THEN \A k \in DOMAIN ft : ft[k].filename # getSTDName[s]
      ELSE i \in DOMAIN ft /\ ft[i].filename = getSTDName[s]
  BY <1>1, <1>3, RowsTyped, FoundByName
<1>7. IF j = 0 THEN \A k \in DOMAIN fdt : fdt[k].filename # getSTDName[s]
      ELSE j \in DOMAIN fdt /\ fdt[j].filename = getSTDName[s]
  BY <1>1, <1>3, RowsTyped, FoundByName
<1>8. /\ ft' \in Seq(FileTable) /\ Linked(ft')
      /\ fdt' \in Seq(FileDescTable) /\ Linked(fdt')
  <2>1. i \in DOMAIN ft \cup {0} /\ j \in DOMAIN fdt \cup {0}
    BY <1>6, <1>7
  <2>2. Drop(ft, i) \in Seq(FileTable) /\ Linked(Drop(ft, i))
    BY <1>1, <2>1, RowsTyped, RowDropped
  <2>3. Drop(fdt, j) \in Seq(FileDescTable) /\ Linked(Drop(fdt, j))
    BY <1>1, <2>1, RowsTyped, RowDropped
  <2> QED BY <1>4, <2>2, <2>3
<1>9. oft' \in Seq(OpenFileTable)
  <2>1. CASE r = 0
    BY <1>1, <1>4, <2>1, RowsTyped DEF Drop
  <2>2. CASE r # 0
    BY <1>1, <1>4, <1>5, <2>2, RowsTyped, RowRemoved DEF Drop
  <2> QED BY <2>1, <2>2
<1>10. TypeOK'
  <2>1. streams' \subseteq Streams \cup {ERROR}
    BY <1>1, <1>4 DEF TypeOK
  <2> QED BY <1>1, <1>4, <1>8, <1>9, <2>1 DEF TypeOK
<1>11. RowsAreOpen(oft', descriptor, inode)
  <2>1. CASE r = 0
    BY <1>1, <1>4, <2>1 DEF Drop
  <2>2. CASE r # 0
    <3>1. PICK p : p = RemoveAt(oft, r)
      OBVIOUS
    <3>2. r \in DOMAIN oft
      BY <1>5, <2>2
    <3>3. RowsAreOpen(p, descriptor, inode)
      BY <1>1, <3>1, <3>2, RowsTyped, RowsClosed
    <3> QED BY <1>4, <2>2, <3>1, <3>3 DEF Drop
  <2> QED BY <2>1, <2>2
<1>12. ASSUME failures = 0
       PROVE  /\ RowsAreHeld(oft', descriptor, files, streams')
              /\ FileOpens(oft', inode) = FileOpens(oft, inode)
              /\ DescOpens(oft', inode) = DescOpens(oft, inode)
  <2>1. RowsAreHeld(oft, descriptor, files, streams)
    BY <1>12 DEF TablesInv
  <2>2. r # 0 /\ s \notin files
    <3>1. \E k \in DOMAIN oft : oft[k].fd = s
      BY <2>1 DEF RowsAreHeld
    <3>2. s \notin files
      BY <2>1 DEF RowsAreHeld
    <3> QED BY <1>5, <3>1, <3>2
  <2>3. r \in DOMAIN oft /\ oft[r].fd = s /\ oft[r].filename \notin Names
    BY <1>5, <2>1, <2>2 DEF RowsAreHeld
  <2>4. PICK p : p = RemoveAt(oft, r)
    OBVIOUS
  <2>5. RowsAreHeld(p, descriptor, files \ {oft[r].fd}, streams \ {oft[r].fd})
    BY <1>1, <2>1, <2>2, <2>3, <2>4, RowsTyped, RowsClosed
  <2>6. FileOpens(p, inode) = FileOpens(oft, inode) /\ DescOpens(p, inode) = DescOpens(oft, inode)
    BY <1>1, <2>3, <2>4, RowsTyped, OpensSame
  <2>7. files \ {s} = files /\ oft' = p
    BY <1>4, <2>2, <2>4 DEF Drop
  <2> QED BY <1>4, <2>3, <2>5, <2>6, <2>7
<1>13. ASSUME failures = 0
       PROVE  /\ FileRows(ft', streams', inode) /\ FileCounts(ft', FileOpens(oft, inode), inode)
              /\ DescRows(fdt', streams', descriptor, inode)
              /\ OneName(inode) /\ Apart(descriptor, inode) =>
                   DescCounts(fdt', DescOpens(oft, inode), inode)
  <2>1. /\ FileRows(ft, streams, inode) /\ FileCounts(ft, FileOpens(oft, inode), inode)
        /\ DescRows(fdt, streams, descriptor, inode)
        /\ OneName(inode) /\ Apart(descriptor, inode) => DescCounts(fdt, DescOpens(oft, inode), inode)
    BY <1>13 DEF TablesInv
  <2>2. PICK t, u : t = Drop(ft, i) /\ u = Drop(fdt, j)
    OBVIOUS
  <2>3. PICK c, d : c = FileOpens(oft, inode) /\ d = DescOpens(oft, inode)
    OBVIOUS
  <2>4. FileRows(t, streams \ {s}, inode) /\ FileCounts(t, c, inode)
    BY <1>1, <1>2, <1>6, <2>1, <2>2, <2>3, RowsTyped, FileStreamDropped
  <2>5. DescRows(u, streams \ {s}, descriptor, inode)
    BY <1>1, <1>2, <1>7, <2>1, <2>2, RowsTyped, DescStreamDropped
  <2>6. ASSUME Apart(descriptor, inode), DescCounts(fdt, d, inode) PROVE DescCounts(u, d, inode)
    BY <1>1, <1>2, <1>7, <2>1, <2>2, <2>6, RowsTyped, DescStreamDropped
  <2> QED BY <1>4, <2>1, <2>2, <2>3, <2>4, <2>5, <2>6
<1> QED BY <1>4, <1>8, <1>10, <1>11, <1>12, <1>13 DEF TablesInv

(* The calls that fail are outside what is promised without failures.      *)
LEMMA FailingKeeps ==
  ASSUME TablesInv, Fails, Linked(ft'), Linked(fdt'), TypeOK', RowsAreOpen(oft', descriptor', inode')
  PROVE  TablesInv'
<1>1. failures \in Nat /\ failures' = failures + 1
  BY FilesAssumption DEF TablesInv, TypeOK, Fails
<1>2. failures' # 0
  BY <1>1
<1> QED BY <1>2 DEF TablesInv

LEMMA myOpenUnlistedKeeps ==
  ASSUME TablesInv, NEW fd \in Fds, NEW name \in Names, NEW flags \in Flags,
         myOpenUnlisted(fd, name, flags)
  PROVE  TablesInv'
<1>1. TypeOK /\ Linked(ft) /\ Linked(fdt) /\ RowsAreOpen(oft, descriptor, inode)
  BY DEF TablesInv
<1>2. /\ Fails /\ Opens(fd, name, flags) /\ UNCHANGED <<inode, ft, oft, fdt, streams, undefined>>
  BY DEF myOpenUnlisted, tables
<1>3. descriptor' \in [Fds -> {Closed} \cup [ino : Inodes, flags : Flags \cup {STD_FLAG}]]
  BY <1>1, <1>2, RowsTyped DEF TypeOK, Opens
<1>4. TypeOK'
  <2>1. failures' \in 0..MaxFailures
    BY <1>1, <1>2, FilesAssumption DEF TypeOK, Fails
  <2>2. files' \subseteq Fds \cup {ERROR}
    BY <1>1, <1>2 DEF TypeOK, Opens
  <2> QED BY <1>1, <1>2, <1>3, <2>1, <2>2 DEF TypeOK
<1>5. RowsAreOpen(oft', descriptor', inode')
  <2>1. \A k \in DOMAIN oft : oft[k].fd # fd
    BY <1>1, <1>2 DEF RowsAreOpen, Opens
  <2>2. PICK e : e = descriptor' /\ \A f \in Fds : f # fd => e[f] = descriptor[f]
    BY <1>1, <1>2 DEF Opens, TypeOK
  <2>3. RowsAreOpen(oft, e, inode)
    BY <1>1, <2>1, <2>2, RowsTyped, RowsUnlisted
  <2> QED BY <1>2, <2>2, <2>3
<1> QED BY <1>1, <1>2, <1>4, <1>5, FailingKeeps

LEMMA FailuresKeep ==
  TablesInv /\ (myOpenFails \/ \E s \in Streams : mySTDOpenFails(s)) => TablesInv'
<1> SUFFICES ASSUME TablesInv, myOpenFails \/ \E s \in Streams : mySTDOpenFails(s)
             PROVE  TablesInv'
  OBVIOUS
<1>1. TypeOK /\ Linked(ft) /\ Linked(fdt) /\ RowsAreOpen(oft, descriptor, inode)
  BY DEF TablesInv
<1>2. /\ Fails /\ UNCHANGED <<inode, descriptor, ft, oft, fdt, undefined>>
      /\ files' \in {files, files \cup {ERROR}} /\ streams' \in {streams, streams \cup {ERROR}}
  BY DEF myOpenFails, mySTDOpenFails, tables
<1>3. TypeOK'
  <2>1. failures' \in 0..MaxFailures
    BY <1>1, <1>2, FilesAssumption DEF TypeOK, Fails
  <2>2. files' \subseteq Fds \cup {ERROR} /\ streams' \subseteq Streams \cup {ERROR}
    BY <1>1, <1>2 DEF TypeOK
  <2> QED BY <1>1, <1>2, <2>1, <2>2 DEF TypeOK
<1> QED BY <1>1, <1>2, <1>3, FailingKeeps

(* What was never opened is closed: only after a failure.                  *)
LEMMA NoneIsUnlisted ==
  ASSUME TablesInv, failures = 0
  PROVE  ERROR \notin streams /\ \A fd \in files : RowOf(fd) # 0
<1>1. TypeOK /\ RowsAreHeld(oft, descriptor, files, streams)
  BY DEF TablesInv
<1>2. ERROR \notin streams
  BY <1>1, RowsTyped DEF RowsAreHeld
<1>3. ASSUME NEW fd \in files PROVE RowOf(fd) # 0
  <2>1. \E k \in DOMAIN oft : oft[k].fd = fd
    BY <1>1 DEF RowsAreHeld
  <2>2. FdAt(oft, fd) # 0
    BY <1>1, <2>1, RowsTyped, FoundByFd
  <2> QED BY <2>2 DEF RowOf, FdAt
<1> QED BY <1>2, <1>3

LEMMA myCloseUnlistedKeeps ==
  ASSUME TablesInv, NEW fd \in files, myCloseUnlisted(fd)
  PROVE  TablesInv'
<1>1. TypeOK /\ Linked(ft) /\ Linked(fdt) /\ RowsAreOpen(oft, descriptor, inode)
  BY DEF TablesInv
<1>2. PICK filename, flags : Closes(fd, filename, flags)
  BY DEF myCloseUnlisted
<1>3. undefined' = TRUE /\ oft' = oft /\ RowOf(fd) = 0
  BY DEF myCloseUnlisted
<1>4. fd \in Fds \cup {ERROR}
  BY <1>1 DEF TypeOK
<1>5. /\ ft' \in Seq(FileTable) /\ Linked(ft')
      /\ fdt' \in Seq(FileDescTable) /\ Linked(fdt')
      /\ descriptor' \in [Fds -> {Closed} \cup [ino : Inodes, flags : Flags \cup {STD_FLAG}]]
      /\ files' \subseteq Fds \cup {ERROR} /\ streams' \subseteq Streams \cup {ERROR}
      /\ failures' = failures /\ inode' = inode
  BY <1>1, <1>2, <1>4, ClosesTyped
<1>6. TypeOK'
  BY <1>1, <1>3, <1>5 DEF TypeOK
<1>7. failures' # 0
  BY <1>3, <1>5, NoneIsUnlisted
<1>8. RowsAreOpen(oft', descriptor', inode')
  <2>1. \A k \in DOMAIN oft : oft[k].fd # fd
    <3>1. FdAt(oft, fd) = 0
      BY <1>3 DEF RowOf, FdAt
    <3> QED BY <1>1, <3>1, RowsTyped, FoundByFd
  <2>2. PICK e : e = descriptor' /\ \A f \in Fds : f # fd => e[f] = descriptor[f]
    BY <1>1, <1>2 DEF Closes, TypeOK
  <2>3. RowsAreOpen(oft, e, inode)
    BY <1>1, <2>1, <2>2, RowsTyped, RowsUnlisted
  <2> QED BY <1>3, <1>5, <2>2, <2>3
<1> QED BY <1>5, <1>6, <1>7, <1>8 DEF TablesInv

LEMMA mySTDCloseUnnamedKeeps ==
  ASSUME TablesInv, ERROR \in streams, mySTDCloseUnnamed
  PROVE  TablesInv'
<1>1. TypeOK /\ Linked(ft) /\ Linked(fdt) /\ RowsAreOpen(oft, descriptor, inode)
  BY DEF TablesInv
<1>2. PICK i, j : /\ \E first : i = NameAt(ft, first)
                  /\ \E second : j = NameAt(fdt, second)
                  /\ ft' = Drop(ft, i) /\ fdt' = Drop(fdt, j)
  <2>1. PICK first, second :
          ft' = DropNamed(ft, first) /\ fdt' = DropNamed(fdt, second)
    BY DEF mySTDCloseUnnamed
  <2>2. ft' = Drop(ft, NameAt(ft, first)) /\ fdt' = Drop(fdt, NameAt(fdt, second))
    BY <2>1 DEF DropNamed, NameAt
  <2> QED BY <2>2
<1>3. /\ streams' = streams \ {ERROR} /\ undefined' = TRUE
      /\ UNCHANGED <<failures, inode, descriptor, oft, files>>
  BY DEF mySTDCloseUnnamed
<1>4. i \in DOMAIN ft \cup {0} /\ j \in DOMAIN fdt \cup {0}
  <2>1. i \in DOMAIN ft \cup {0}
    BY <1>1, <1>2, RowsTyped, FoundByName
  <2>2. j \in DOMAIN fdt \cup {0}
    BY <1>1, <1>2, RowsTyped, FoundByName
  <2> QED BY <2>1, <2>2
<1>5. ft' \in Seq(FileTable) /\ Linked(ft')
  BY <1>1, <1>2, <1>4, RowsTyped, RowDropped
<1>6. fdt' \in Seq(FileDescTable) /\ Linked(fdt')
  BY <1>1, <1>2, <1>4, RowsTyped, RowDropped
<1>7. TypeOK'
  <2>1. streams' \subseteq Streams \cup {ERROR}
    BY <1>1, <1>3 DEF TypeOK
  <2> QED BY <1>1, <1>3, <1>5, <1>6, <2>1 DEF TypeOK
<1>8. failures' # 0
  BY <1>3, NoneIsUnlisted
<1> QED BY <1>1, <1>3, <1>5, <1>6, <1>7, <1>8 DEF TablesInv

LEMMA TablesKeep == TablesInv /\ [Next]_vars => TablesInv'
<1> SUFFICES ASSUME TablesInv, [Next]_vars PROVE TablesInv'
  OBVIOUS
<1>1. ASSUME NEW fd \in Fds, NEW name \in Names, NEW flags \in Flags, myOpen(fd, name, flags)
      PROVE  TablesInv'
  BY <1>1, myOpenKeeps
<1>2. ASSUME NEW fd \in Fds, NEW name \in Names, NEW flags \in Flags, myOpenUnlisted(fd, name, flags)
      PROVE  TablesInv'
  BY <1>2, myOpenUnlistedKeeps
<1>3. CASE myOpenFails \/ \E s \in Streams : mySTDOpenFails(s)
  BY <1>3, FailuresKeep
<1>4. ASSUME NEW s \in Streams, mySTDOpen(s) PROVE TablesInv'
  BY <1>4, mySTDOpenKeeps
<1>5. ASSUME NEW fd \in files, myClose(fd) PROVE TablesInv'
  BY <1>5, myCloseKeeps
<1>6. ASSUME NEW fd \in files, myCloseUnlisted(fd) PROVE TablesInv'
  BY <1>6, myCloseUnlistedKeeps
<1>7. ASSUME NEW s \in streams, mySTDClose(s) PROVE TablesInv'
  BY <1>7, mySTDCloseKeeps
<1>8. CASE ERROR \in streams /\ mySTDCloseUnnamed
  BY <1>8, mySTDCloseUnnamedKeeps
<1>9. CASE Crash \/ UNCHANGED vars
  <2>1. /\ UNCHANGED <<failures, inode, descriptor, ft, oft, fdt, files, streams>>
        /\ undefined' \in {undefined, TRUE}
    BY <1>9 DEF Crash, vars, tables
  <2>2. TypeOK'
    BY <2>1 DEF TablesInv, TypeOK
  <2> QED BY <2>1, <2>2 DEF TablesInv
<1> QED BY <1>1, <1>2, <1>3, <1>4, <1>5, <1>6, <1>7, <1>8, <1>9 DEF Next

LEMMA TablesInvariant == Spec => []TablesInv
BY TablesInitially, TablesKeep, PTL DEF Spec

(* 3/fileProcess.c: the open file table has at most one row per            *)
(* descriptor, and only open descriptors, with the file and the flags they *)
(* were opened with; while no call fails it has all that the caller holds. *)
THEOREM OpenRowsStayTrue == Spec => []OpenRowsAreTrue
<1>1. TablesInv => OpenRowsAreTrue
  <2> SUFFICES ASSUME TablesInv PROVE OpenRowsAreTrue
    OBVIOUS
  <2>1. RowsAreOpen(oft, descriptor, inode)
    BY DEF TablesInv
  <2>2. ASSUME failures = 0 PROVE {oft[k].fd : k \in DOMAIN oft} = files \cup streams
    <3>1. RowsAreHeld(oft, descriptor, files, streams)
      BY <2>2 DEF TablesInv
    <3> QED BY <3>1 DEF RowsAreHeld
  <2> QED BY <2>1, <2>2 DEF OpenRowsAreTrue, RowsAreOpen
<1> QED BY <1>1, TablesInvariant, PTL

LEMMA OpeningsAre ==
  ASSUME TypeOK, NEW i \in Inodes
  PROVE  /\ Openings(i, Flags) = DescOpens(oft, inode)[i]
         /\ \A f \in Flags : Openings(i, {f}) = FileOpens(oft, inode)[i][f]
         /\ \A F : Openings(i, F) \in Nat
<1>1. \A F : Openings(i, F) = Opened(oft, inode, i, F)
  <2> SUFFICES ASSUME NEW F PROVE Openings(i, F) = Opened(oft, inode, i, F)
    OBVIOUS
  <2>1. {k \in DOMAIN oft : oft[k].flags \in F /\ oft[k].filename \in Names
                            /\ inode[oft[k].filename] = i}
          = On(oft, NamesOf(inode, i), F)
    BY DEF On, NamesOf
  <2> QED BY <2>1 DEF Openings, Opened, Count
<1>2. \A F : Opened(oft, inode, i, F) \in Nat
  BY RowsTyped, CountAppended DEF Opened
<1> QED BY <1>1, <1>2 DEF DescOpens, FileOpens

(* 3/fileProcess.c: while no call fails, an open file is in the file table *)
(* with its flags and a count that is never too small, whatever the names  *)
(* it is opened and closed by; with one name to a file the count is exact. *)
THEOREM OpeningsAreCounted == Spec => []CountsOpenings
<1>1. TablesInv => CountsOpenings
  <2> SUFFICES ASSUME TablesInv, failures = 0 PROVE
          /\ \A a \in Names, m \in Flags : Openings(inode[a], {m}) > 0 =>
               \E k \in DOMAIN ft : /\ ft[k].ino = inode[a] /\ ft[k].flags = m
                                    /\ ft[k].nlink >= Openings(inode[a], {m})
          /\ OneNameEach => \A k \in DOMAIN ft : ft[k].filename \in Names =>
               ft[k].nlink = Openings(ft[k].ino, {ft[k].flags}) /\ ft[k].nlink > 0
    BY Zenon DEF CountsOpenings
  <2>1. /\ TypeOK /\ Linked(ft) /\ FileRows(ft, streams, inode)
        /\ FileCounts(ft, FileOpens(oft, inode), inode)
    BY DEF TablesInv
  <2>2. inode \in [Names -> Inodes]
    BY <2>1, RowsTyped
  <2>3. ASSUME NEW a \in Names, NEW m \in Flags, Openings(inode[a], {m}) > 0
        PROVE  \E k \in DOMAIN ft : /\ ft[k].ino = inode[a] /\ ft[k].flags = m
                                    /\ ft[k].nlink >= Openings(inode[a], {m})
    <3>1. Openings(inode[a], {m}) = FileOpens(oft, inode)[inode[a]][m]
      BY <2>1, <2>2, OpeningsAre
    <3>2. PICK k \in DOMAIN ft : ft[k].ino = inode[a] /\ ft[k].flags = m
      BY <2>1, <2>3, <3>1 DEF FileCounts
    <3>3. ft[k].filename \in Names
      BY <2>1, <3>2, FileFlags DEF FileRows
    <3> QED BY <2>1, <3>1, <3>2, <3>3 DEF FileCounts
  <2>4. ASSUME OneNameEach, NEW k \in DOMAIN ft, ft[k].filename \in Names
        PROVE  ft[k].nlink = Openings(ft[k].ino, {ft[k].flags}) /\ ft[k].nlink > 0
    <3>1. OneName(inode)
      BY <2>4 DEF OneNameEach, OneName
    <3>2. ft[k].ino \in Inodes /\ ft[k].flags \in Flags
      BY <2>1, <2>2, <2>4 DEF FileRows
    <3>3. ft[k].nlink = FileOpens(oft, inode)[ft[k].ino][ft[k].flags]
      BY <2>1, <2>4, <3>1 DEF FileCounts
    <3> QED BY <2>1, <3>2, <3>3, OpeningsAre DEF Linked
  <2> QED BY <2>3, <2>4
<1> QED BY <1>1, TablesInvariant, PTL

(* 3/fileProcess.c: with one name to a file and no stream on a file that   *)
(* has one, the file descriptor table has the open files, with the other   *)
(* links of the file and its openings as count, while no call fails.       *)
THEOREM OpenFilesAreDescribed == Spec => []DescribesOpenFiles
<1>1. TablesInv => DescribesOpenFiles
  <2> SUFFICES ASSUME TablesInv, OneNameEach, NotRedirected, failures = 0, NEW a \in Names
               PROVE  /\ Openings(inode[a], Flags) > 0 => \E k \in DOMAIN fdt : fdt[k].ino = inode[a]
                      /\ \A k \in DOMAIN fdt : fdt[k].ino = inode[a] =>
                           /\ fdt[k].nlink = Links[inode[a]] - 1 + Openings(inode[a], Flags)
                           /\ fdt[k].nlink > 0
    BY Zenon DEF DescribesOpenFiles
  <2>1. TypeOK /\ Linked(fdt) /\ DescRows(fdt, streams, descriptor, inode)
    BY DEF TablesInv
  <2>2. Apart(descriptor, inode) /\ OneName(inode)
    BY DEF NotRedirected, OneNameEach, Apart, OneName
  <2>3. DescCounts(fdt, DescOpens(oft, inode), inode)
    BY <2>2 DEF TablesInv
  <2>4. inode[a] \in Inodes
    BY <2>1, RowsTyped
  <2>5. Openings(inode[a], Flags) = DescOpens(oft, inode)[inode[a]]
    BY <2>1, <2>4, OpeningsAre
  <2>6. ASSUME NEW k \in DOMAIN fdt, fdt[k].ino = inode[a]
        PROVE  /\ fdt[k].nlink = Links[inode[a]] - 1 + Openings(inode[a], Flags)
               /\ fdt[k].nlink > 0
    <3>1. fdt[k].filename \in Names
      BY <2>1, <2>2, <2>6 DEF DescRows, Apart
    <3> QED BY <2>1, <2>3, <2>5, <2>6, <3>1 DEF DescCounts, Linked
  <2> QED BY <2>3, <2>5, <2>6 DEF DescCounts
<1> QED BY <1>1, TablesInvariant, PTL

(* Rows that differ in a key from a finite set are no more than the keys.  *)
LEMMA FewRows ==
  ASSUME NEW I, NEW K, IsFiniteSet(K), NEW f \in [I -> K],
         \A k, l \in I : f[k] = f[l] => k = l
  PROVE  IsFiniteSet(I) /\ Cardinality(I) \in Nat /\ Cardinality(I) <= Cardinality(K)
<1>1. f \in Injection(I, K)
  BY Fun_IsInj
<1> QED BY <1>1, FS_Injection, FS_CardinalityType

LEMMA LengthOf ==
  ASSUME NEW S, NEW t \in Seq(S)
  PROVE  IsFiniteSet(DOMAIN t) /\ Cardinality(DOMAIN t) = Len(t)
<1>1. DOMAIN t = 1..Len(t) /\ Len(t) \in Nat /\ Len(t) \in Int /\ 1 \in Int
  OBVIOUS
<1>2. IsFiniteSet(1..Len(t)) /\ Cardinality(1..Len(t)) = IF 1 > Len(t) THEN 0 ELSE Len(t) - 1 + 1
  BY <1>1, FS_Interval
<1> QED BY <1>1, <1>2

LEMMA FewKeys ==
  /\ IsFiniteSet(Fds) /\ Cardinality(Fds) = MaxFds
  /\ IsFiniteSet(Streams) /\ Cardinality(Streams) \in Nat
  /\ IsFiniteSet(Flags)
  /\ \A layout : IsFiniteSet({layout[a] : a \in Names})
<1>1. IsFiniteSet(Fds) /\ Cardinality(Fds) = MaxFds
  <2>1. 0 \in Int /\ MaxFds - 1 \in Int /\ MaxFds \in Nat
    BY FilesAssumption
  <2>2. IsFiniteSet(0..(MaxFds - 1)) /\ Cardinality(0..(MaxFds - 1)) = IF 0 > MaxFds - 1 THEN 0 ELSE MaxFds - 1 - 0 + 1
    BY <2>1, FS_Interval
  <2> QED BY <2>1, <2>2 DEF Fds
<1>2. IsFiniteSet(0..2)
  <2>1. 0 \in Int /\ 2 \in Int
    OBVIOUS
  <2> QED BY <2>1, FS_Interval
<1>3. IsFiniteSet(Streams) /\ IsFiniteSet(Flags)
  <2>1. Streams \in SUBSET (0..2) /\ Flags \in SUBSET (0..2)
    BY FilesAssumption
  <2> QED BY <1>2, <2>1, FS_Subset
<1>4. Cardinality(Streams) \in Nat
  BY <1>3, FS_CardinalityType
<1>5. ASSUME NEW layout PROVE IsFiniteSet({layout[a] : a \in Names})
  <2> DEFINE T == {layout[a] : a \in Names}
             f == [a \in Names |-> layout[a]]
  <2>1. f \in [Names -> T] /\ \A t \in T : \E a \in Names : f[a] = t
    OBVIOUS
  <2>2. f \in Surjection(Names, T)
    BY <2>1, Fun_IsSurj
  <2>3. IsFiniteSet(Names)
    BY FilesAssumption
  <2> QED BY <2>2, <2>3, FS_Surjection
<1> QED BY <1>1, <1>3, <1>4, <1>5

LEMMA FewOfBothKinds ==
  ASSUME NEW R, NEW t \in Seq(R), NEW K, IsFiniteSet(K),
         NEW f, \A k \in DOMAIN t : t[k].filename \in Names => f[k] \in K,
         \A k, l \in DOMAIN t :
           t[k].filename \in Names /\ t[l].filename \in Names /\ f[k] = f[l] => k = l,
         \A k \in DOMAIN t : t[k].filename \notin Names =>
           \E s \in Streams : t[k].filename = getSTDName[s],
         \A k, l \in DOMAIN t : t[k].filename \notin Names /\ t[k].filename = t[l].filename => k = l
  PROVE  Len(t) <= Cardinality(K) + Cardinality(Streams)
<1> DEFINE A == {k \in DOMAIN t : t[k].filename \in Names}
           B == {k \in DOMAIN t : t[k].filename \notin Names}
           g == [k \in A |-> f[k]]
           h == [k \in B |-> CHOOSE s \in Streams : t[k].filename = getSTDName[s]]
<1>1. IsFiniteSet(A) /\ Cardinality(A) \in Nat /\ Cardinality(A) <= Cardinality(K)
  <2>1. g \in [A -> K] /\ \A k, l \in A : g[k] = g[l] => k = l
    OBVIOUS
  <2> HIDE DEF A, g
  <2> QED BY <2>1, FewRows
<1>2. IsFiniteSet(B) /\ Cardinality(B) \in Nat /\ Cardinality(B) <= Cardinality(Streams)
  <2>1. \A k \in B : h[k] \in Streams /\ t[k].filename = getSTDName[h[k]]
    OBVIOUS
  <2>2. h \in [B -> Streams]
    BY <2>1
  <2>3. \A k, l \in B : h[k] = h[l] => k = l
    <3>1. SUFFICES ASSUME NEW k \in B, NEW l \in B, h[k] = h[l] PROVE k = l
      OBVIOUS
    <3>2. t[k].filename = t[l].filename
      BY <2>1, <3>1
    <3> QED BY <3>2
  <2> HIDE DEF B, h
  <2> QED BY <2>2, <2>3, FewKeys, FewRows
<1>3. Cardinality(A \cup B) = Cardinality(A) + Cardinality(B) - Cardinality(A \cap B)
  <2> HIDE DEF A, B
  <2> QED BY <1>1, <1>2, FS_Union
<1>4. A \cup B = DOMAIN t /\ A \cap B = {}
  OBVIOUS
<1>5. Cardinality(DOMAIN t) = Len(t) /\ Cardinality({}) = 0
  BY LengthOf, FS_EmptySet
<1>6. Cardinality(K) \in Nat /\ Cardinality(Streams) \in Nat
  BY FewKeys, FS_CardinalityType
<1>7. Len(t) = Cardinality(A) + Cardinality(B)
  <2> HIDE DEF A, B
  <2>1. Len(t) = Cardinality(A) + Cardinality(B) - 0
    BY <1>3, <1>4, <1>5
  <2> QED BY <1>1, <1>2, <2>1
<1> HIDE DEF A, B
<1>8. \A x, y, z, w \in Nat : x <= z /\ y <= w => x + y <= z + w
  OBVIOUS
<1> QED BY <1>1, <1>2, <1>6, <1>7, <1>8

(* 3/fileProcess.c: the open file table has no more rows than there are    *)
(* descriptors, and while no call fails the other two have no more than    *)
(* one row per file (and flags) and one per stream: no sequence of calls   *)
(* makes a table grow past its files, the rows left behind included.       *)
THEOREM TablesAreBounded == Spec => []TablesStaySmall
<1>1. TablesInv => TablesStaySmall
  <2> SUFFICES ASSUME TablesInv PROVE TablesStaySmall
    OBVIOUS
  <2>1. TypeOK /\ RowsAreOpen(oft, descriptor, inode)
    BY DEF TablesInv
  <2> DEFINE fd == [k \in DOMAIN oft |-> oft[k].fd]
             I == {inode[a] : a \in Names}
  <2>2. Len(oft) <= MaxFds
    <3>1. fd \in [DOMAIN oft -> Fds] /\ \A k, l \in DOMAIN oft : fd[k] = fd[l] => k = l
      BY <2>1, RowsTyped DEF RowsAreOpen
    <3> HIDE DEF fd
    <3>2. Cardinality(DOMAIN oft) <= Cardinality(Fds)
      BY <3>1, FewKeys, FewRows
    <3>3. Cardinality(DOMAIN oft) = Len(oft)
      BY <2>1, RowsTyped, LengthOf
    <3> QED BY <3>2, <3>3, FewKeys
  <2>3. IsFiniteSet(I) /\ IsFiniteSet(I \X Flags)
    <3>1. IsFiniteSet(I) /\ IsFiniteSet(Flags)
      BY FewKeys
    <3> HIDE DEF I
    <3> QED BY <3>1, FS_Product
  <2>4. ASSUME failures = 0 PROVE Len(ft) <= Cardinality(I \X Flags) + Cardinality(Streams)
    <3>1. FileRows(ft, streams, inode)
      BY <2>4 DEF TablesInv
    <3> DEFINE f == [k \in DOMAIN ft |-> <<ft[k].ino, ft[k].flags>>]
    <3>2. \A k \in DOMAIN ft : ft[k].filename \in Names => f[k] \in I \X Flags
      BY <3>1 DEF FileRows
    <3>3. \A k, l \in DOMAIN ft :
            ft[k].filename \in Names /\ ft[l].filename \in Names /\ f[k] = f[l] => k = l
      BY <3>1 DEF FileRows
    <3>4. \A k \in DOMAIN ft : ft[k].filename \notin Names =>
            \E s \in Streams : ft[k].filename = getSTDName[s]
      BY <3>1 DEF FileRows
    <3>5. \A k, l \in DOMAIN ft :
            ft[k].filename \notin Names /\ ft[k].filename = ft[l].filename => k = l
      BY <3>1 DEF FileRows
    <3> HIDE DEF f, I
    <3> QED BY <2>1, <2>3, <3>2, <3>3, <3>4, <3>5, RowsTyped, FewOfBothKinds
  <2>5. ASSUME failures = 0 PROVE Len(fdt) <= Cardinality(I) + Cardinality(Streams)
    <3>1. DescRows(fdt, streams, descriptor, inode)
      BY <2>5 DEF TablesInv
    <3> DEFINE f == [k \in DOMAIN fdt |-> fdt[k].ino]
    <3>2. \A k \in DOMAIN fdt : fdt[k].filename \in Names => f[k] \in I
      BY <3>1 DEF DescRows
    <3>3. \A k, l \in DOMAIN fdt :
            fdt[k].filename \in Names /\ fdt[l].filename \in Names /\ f[k] = f[l] => k = l
      BY <3>1 DEF DescRows
    <3>4. \A k \in DOMAIN fdt : fdt[k].filename \notin Names =>
            \E s \in Streams : fdt[k].filename = getSTDName[s]
      BY <3>1 DEF DescRows
    <3>5. \A k, l \in DOMAIN fdt :
            fdt[k].filename \notin Names /\ fdt[k].filename = fdt[l].filename => k = l
      BY <3>1 DEF DescRows
    <3> HIDE DEF f, I
    <3> QED BY <2>1, <2>3, <3>2, <3>3, <3>4, <3>5, RowsTyped, FewOfBothKinds
  <2> QED BY <2>2, <2>4, <2>5 DEF TablesStaySmall
<1> QED BY <1>1, TablesInvariant, PTL

=============================================================================
