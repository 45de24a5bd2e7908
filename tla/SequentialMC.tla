---------------------------- MODULE SequentialMC ----------------------------
(* The programs that keep to themselves, one of them per behaviour: the     *)
(* script of 1/, the folders of 2/, the file tables of 3/, the vector of 8/ *)
(* and the window of RGZ.                                                   *)
EXTENDS FileUnification, FolderList, FileTables, AddressVector, SystemWindowMC

VARIABLE program

(* The two files of 3/, which in one directory are names of the same inode. *)
(* Inode 3 is a terminal; inode 1 has a second link.                        *)
MCNames == {"file", "empty"}
MCInodes == 1..3
MCLayouts == {[n \in MCNames |-> IF n = "file" THEN 1 ELSE e] : e \in {1, 2}}
MCStreams == {0}
MCUnder == {1, 3}
MCFlags == {0, 1}
MCLinks == [n \in MCInodes |-> IF n = 1 THEN 2 ELSE 1]

(* In "dir", where what opendir() opens is no entry, all that counts of an  *)
(* entry is that it is there, and two kinds of entries inside are enough.   *)
FolderBound ==
  path = "dir" => \A e \in Entries :
    other[e] \in {"none", "dir"} /\ Cardinality(inside[e]) <= 2

VectorIdle == VectorInit
FolderIdle ==
  /\ path = "./" /\ opened = {} /\ unread = {} /\ printed = {}
  /\ cwd = [e \in Entries |-> "none"] /\ other = cwd
  /\ inside = [e \in Entries |-> {}]
FileIdle ==
  /\ given = [directory |-> "", type |-> FALSE]
  /\ parent = [n \in 1..MaxNode |-> -1]
  /\ dirs = {0} /\ typed = {} /\ cur_dir = 0
  /\ calls = <<>> /\ output = <<>>
TablesIdle ==
  /\ Init
  /\ inode = [n \in MCNames |-> 1] /\ descriptor = [f \in Fds |-> Closed]
WindowIdle ==
  /\ WindowInit
  /\ cpu = Cpu(FALSE, 0, 0, [s \in 0..3 |-> NoLeaf]) /\ ~dll

MCInit ==
  \/ program = "unification" /\ FileInit
     /\ FolderIdle /\ TablesIdle /\ VectorIdle /\ WindowIdle
  \/ program = "folders" /\ FolderInit /\ FolderBound
     /\ FileIdle /\ TablesIdle /\ VectorIdle /\ WindowIdle
  \/ program = "tables" /\ Init
     /\ FileIdle /\ FolderIdle /\ VectorIdle /\ WindowIdle
  \/ program = "vector" /\ VectorInit
     /\ FileIdle /\ FolderIdle /\ TablesIdle /\ WindowIdle
  \/ program = "window" /\ WindowInit
     /\ FileIdle /\ FolderIdle /\ TablesIdle /\ VectorIdle

MCNext ==
  /\ UNCHANGED program
  /\ \/ program = "unification" /\ FileNext
        /\ UNCHANGED <<folderVars, vars, vectorVars, windowVars>>
     \/ program = "folders" /\ FolderNext
        /\ UNCHANGED <<fileVars, vars, vectorVars, windowVars>>
     \/ program = "tables" /\ Next
        /\ UNCHANGED <<fileVars, folderVars, vectorVars, windowVars>>
     \/ program = "vector" /\ VectorAdd
        /\ UNCHANGED <<fileVars, folderVars, vars, windowVars>>
     \/ program = "window" /\ WindowNext
        /\ UNCHANGED <<fileVars, folderVars, vars, vectorVars>>

MCSpec == MCInit /\ [][MCNext]_<<program, fileVars, folderVars, vars, vectorVars, windowVars>>
=============================================================================
