---------------------------- MODULE SystemWindow ----------------------------
(***************************************************************************)
(* RGZ: a window that shows the processor's name, its cache and the time.  *)
(* While it is created a thread reads them through Lib.dll into three      *)
(* strings, which WM_PAINT draws and deletes.                              *)
(***************************************************************************)
EXTENDS ProcInfo

CONSTANTS Cpus,      \* processors the program may run on
          MaxPaints  \* bound of the times the window is drawn

ASSUME WindowAssumption == MaxPaints \in Nat /\ \A c \in Cpus : c.levels \in Nat

Strings == {"proc_name", "cache", "cur_time"}

VARIABLES
  cpu,       \* the processor
  dll,       \* whether Lib.dll is there
  pc,        \* where WinMain is, a call of WindowProc included
  thread,    \* where InfoThread is
  string,    \* per string, "null", "held" or "freed"
  found,     \* the cache that the string describes
  invalid,   \* whether the window is to be drawn
  quit,      \* whether WM_QUIT was posted
  paints,    \* how often the window was drawn
  shown,     \* what was drawn last
  dangling  \* whether freed memory was used
windowVars == <<cpu, dll, pc, thread, string, found, invalid, quit, paints, shown, dangling>>
machine    == <<cpu, dll>>

ShownValues == {"nothing", "data", "freed", "no CPUID", "no DLL"}

WindowTypeOK ==
  /\ cpu \in Cpus /\ dll \in BOOLEAN
  /\ pc \in {"create", "wait", "show", "loop", "none", "done"}
  /\ thread \in {"unborn", "load", "name", "cache", "time", "ended", "crashed"}
  /\ string \in [Strings -> {"null", "held", "freed"}]
  /\ invalid \in BOOLEAN /\ quit \in BOOLEAN /\ dangling \in BOOLEAN
  /\ paints \in 0..MaxPaints
  /\ shown \in ShownValues

WindowInit ==
  /\ cpu \in Cpus /\ dll \in BOOLEAN
  /\ pc = "create" /\ thread = "unborn"
  /\ string = [s \in Strings |-> "null"]
  /\ found = None
  /\ invalid = FALSE /\ quit = FALSE /\ dangling = FALSE
  /\ paints = 0 /\ shown = "nothing"

Alive == thread # "crashed" /\ ~dangling

-----------------------------------------------------------------------------
(* InfoThread                                                              *)

(* LoadLibrary; without the library the strings stay NULL.                 *)
Load ==
  /\ Alive /\ thread = "load"
  /\ thread' = IF dll THEN "name" ELSE "ended"
  /\ UNCHANGED <<machine, pc, string, found, invalid, quit, paints, shown, dangling>>

(* getProcName: CPUID is executed whatever cpuIdCheck() was to find out.   *)
ReadName ==
  /\ Alive /\ thread = "name"
  /\ IF CpuIdCheck(cpu) /\ ~cpu.cpuid
       THEN thread' = "crashed" /\ UNCHANGED string
       ELSE /\ thread' = "cache"
            /\ string' = [string EXCEPT !["proc_name"] = "held"]
  /\ UNCHANGED <<machine, pc, found, invalid, quit, paints, shown, dangling>>

ReadCache ==
  /\ Alive /\ thread = "cache"
  /\ thread' = "time"
  /\ string' = [string EXCEPT !["cache"] = "held"]
  /\ found' = GetL3Cache(cpu)
  /\ UNCHANGED <<machine, pc, invalid, quit, paints, shown, dangling>>

ReadTime ==
  /\ Alive /\ thread = "time"
  /\ thread' = "ended"
  /\ string' = [string EXCEPT !["cur_time"] = "held"]
  /\ UNCHANGED <<machine, pc, found, invalid, quit, paints, shown, dangling>>

-----------------------------------------------------------------------------
(* WinMain and WindowProc                                                  *)

CreateOnly ==  \* bug: WaitForSingleObject left out
  /\ Alive /\ pc = "create"
  /\ pc' = "show" /\ thread' = "load"
  /\ UNCHANGED <<machine, string, found, invalid, quit, paints, shown, dangling>>

(* CreateWindow calls WindowProc with WM_CREATE, which creates the thread. *)
Create ==
  /\ Alive /\ pc = "create"
  /\ pc' = "wait" /\ thread' = "load"
  /\ UNCHANGED <<machine, string, found, invalid, quit, paints, shown, dangling>>

(* CreateWindow fails before it sends anything: nobody looks at hwnd, and  *)
(* GetMessage waits for messages of a window that is not there.            *)
CreateFails ==
  /\ Alive /\ pc = "create"
  /\ pc' = "none"
  /\ UNCHANGED <<machine, thread, string, found, invalid, quit, paints, shown, dangling>>

WaitForThread ==
  /\ Alive /\ pc = "wait" /\ thread = "ended"
  /\ pc' = "show"
  /\ UNCHANGED <<machine, thread, string, found, invalid, quit, paints, shown, dangling>>

(* WM_PAINT: draw and delete.  The pointers keep their values.             *)
DrawAndDelete ==
  LET isNull(s) == string[s] = "null"
      stale     == \E s \in Strings : string[s] = "freed" IN
  /\ shown' = IF \A s \in Strings : ~isNull(s) THEN (IF stale THEN "freed" ELSE "data")
              ELSE IF isNull("proc_name") /\ ~isNull("cache") THEN "no CPUID" ELSE "no DLL"
  /\ string' = [s \in Strings |-> IF isNull(s) THEN "null" ELSE "freed"]
  /\ dangling' = stale
  /\ invalid' = FALSE
  /\ paints' = paints + 1

(* ShowWindow and UpdateWindow, which calls WindowProc with WM_PAINT.      *)
Show ==
  /\ Alive /\ pc = "show" /\ paints < MaxPaints
  /\ DrawAndDelete
  /\ pc' = "loop"
  /\ UNCHANGED <<machine, thread, found, quit>>

(* GetMessage hands out WM_PAINT when nothing else is in the queue.        *)
Paint ==
  /\ Alive /\ pc = "loop" /\ ~quit /\ invalid /\ paints < MaxPaints
  /\ DrawAndDelete
  /\ UNCHANGED <<machine, pc, thread, found, quit>>

EndLoop ==
  /\ Alive /\ pc = "loop" /\ quit
  /\ pc' = "done"
  /\ UNCHANGED <<machine, thread, string, found, invalid, quit, paints, shown, dangling>>

(* The user: CS_HREDRAW and CS_VREDRAW ask for a new drawing on each       *)
(* resizing; closing destroys the window, and WM_DESTROY posts WM_QUIT.    *)
Resize ==
  /\ Alive /\ pc = "loop" /\ ~quit /\ ~invalid
  /\ invalid' = TRUE
  /\ UNCHANGED <<machine, pc, thread, string, found, quit, paints, shown, dangling>>

Close ==
  /\ Alive /\ pc = "loop" /\ ~quit
  /\ quit' = TRUE
  /\ UNCHANGED <<machine, pc, thread, string, found, invalid, paints, shown, dangling>>

InfoThread == Load \/ ReadName \/ ReadCache \/ ReadTime
WinMain    == Create \/ CreateFails \/ WaitForThread \/ Show \/ Paint \/ EndLoop
WindowNext == InfoThread \/ WinMain \/ Resize \/ Close

WindowSpec == WindowInit /\ [][WindowNext]_windowVars

-----------------------------------------------------------------------------
(* The first drawing shows what the thread has read, or that the library   *)
(* is missing if it is: the thread has ended by then (main.cpp 43-47).     *)
(* Only later drawings use freed strings, when there are any (88-90).      *)
(* That CPUID is missing is never said: a processor without it ends the    *)
(* program.                                                                *)
FirstPaintIsTrue ==
  /\ paints = 1 => shown = IF dll THEN "data" ELSE "no DLL"
  /\ dangling => dll /\ paints > 1
  /\ shown \in {"data", "freed"} => cpu.cpuid

(* The caches of the third level that the processor describes, by the      *)
(* sublevels of level 4 and by the descriptors of level 2.                 *)
LeafCaches ==
  {[size |-> cpu.leaves[s].lineSize * cpu.leaves[s].lines, line |-> cpu.leaves[s].lineSize] :
     s \in {t \in 0..3 : cpu.levels >= LVL_4 /\ cpu.leaves[t].level = L3_CACHE}}
TableCaches ==
  {[size |-> DescribedSize[cpu.table[d]], line |-> 64] :
     d \in {t \in 0..(TableSize - 1) : cpu.levels >= LVL_2 /\ cpu.table[t] \in DOMAIN DescribedSize}}

(* The window shows no cache that the processor does not describe, and a   *)
(* cache if one of the first four sublevels of level 4 describes one,      *)
(* whichever of them it is (ProcInfo.h 97-119).                            *)
ShowsTheCache ==
  shown = "data" =>
    IF LeafCaches # {} THEN found \in LeafCaches \cup TableCaches
                       ELSE found \in TableCaches \cup {None}

(* A cache that the table of descriptors describes is found there (comments*)
(* at ProcInfo.h 66 and 97).                                               *)
FindsDescribedCache ==
  shown = "data" /\ TableCaches # {} => found \in TableCaches
=============================================================================
