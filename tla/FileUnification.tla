-------------------------- MODULE FileUnification --------------------------
(***************************************************************************)
(* The script of 1/: it prints all files of a type in a tree, directory by *)
(* directory.  fileSearch calls itself for each subdirectory; cur_dir,     *)
(* file_list and dir_list are global and overwritten by the calls, only    *)
(* the words of a for loop that has begun belong to a call.                *)
(*                                                                         *)
(* Nodes of the tree are numbers, directory by directory from the one that *)
(* was given, which is 0.                                                  *)
(***************************************************************************)
EXTENDS Integers, Sequences, SequencesExt

CONSTANT MaxNode
ASSUME NodesAssumption == MaxNode \in Nat
Nodes == 0..MaxNode

VARIABLES
  given,    \* the arguments: the kind of the first, and if there is a type
  parent,   \* per node but 0, the directory it is in; -1 if there is no node
  dirs,     \* nodes that are directories
  typed,    \* nodes whose name ends in the type
  cur_dir,
  calls,    \* per running fileSearch, the directories its loop has left
  output    \* what was printed: <<heading, node>>
fileVars == <<given, parent, dirs, typed, cur_dir, calls, output>>

(* A link is a symbolic link to a directory, given without a "/" behind it. *)
Given == [directory : {"", "directory", "link", "other"}, type : BOOLEAN]

FileTypeOK ==
  /\ given \in Given
  /\ parent \in [1..MaxNode -> -1..MaxNode]
  /\ dirs \subseteq Nodes /\ typed \subseteq Nodes
  /\ cur_dir \in Nodes
  /\ calls \in Seq(Seq(Nodes))
  /\ output \in Seq(Nodes \X Nodes)

In(d) == {n \in 1..MaxNode : parent[n] = d}

(* inputCheckStatus: fileSearch is called with the directory, or not.      *)
(* [ -d ] follows a link.                                                  *)
InputOk == given.type /\ given.directory \in {"directory", "link"}

FileInit ==
  /\ given \in Given
  /\ parent \in {p \in [1..MaxNode -> -1..(MaxNode - 1)] : \A n \in 1..MaxNode :
       /\ p[n] < n
       /\ (n > 1 /\ p[n] # -1) => p[n - 1] \in 0..p[n]}
  /\ LET there == {0} \cup {n \in 1..MaxNode : parent[n] # -1} IN
     /\ dirs \in {D \in SUBSET there : 0 \in D /\ \A n \in there \ {0} : parent[n] \in D}
     /\ typed \in SUBSET there
  /\ cur_dir = 0
  /\ calls = IF InputOk THEN <<<<0>>>> ELSE <<>>
  /\ output = <<>>

(* What find sees below $cur_dir: it does not enter a link, which ls does. *)
Seen(d) == IF d = 0 /\ given.directory = "link" THEN {} ELSE In(d)

(* find $cur_dir -maxdepth 1 -name: directories, and $cur_dir, included.   *)
FileList(d) == {n \in Seen(d) \cup {d} : n \in typed}
DirList(d)  == Seen(d) \cap dirs

SearchOverwriting ==  \* bug: the loop's list is the global dir_list
  /\ calls # <<>> /\ Head(calls) # <<>>
  /\ LET d == Head(Head(calls)) IN
     /\ cur_dir' = d
     /\ IF In(d) = {}
          THEN calls' = <<Tail(Head(calls))>> \o Tail(calls) /\ UNCHANGED output
          ELSE \E files \in SetToSeqs(FileList(d)), list \in SetToSeqs(DirList(d)) :
                 /\ output' = output \o [k \in 1..Len(files) |-> <<d, files[k]>>]
                 /\ calls' = <<list>>
  /\ UNCHANGED <<given, parent, dirs, typed>>

(* fileSearch up to its loop: an empty directory returns at once.  find    *)
(* lists in any order.                                                     *)
FileSearch ==
  /\ calls # <<>> /\ Head(calls) # <<>>
  /\ LET d    == Head(Head(calls))
         rest == <<Tail(Head(calls))>> \o Tail(calls) IN
     /\ cur_dir' = d
     /\ IF In(d) = {}
          THEN calls' = rest /\ UNCHANGED output
          ELSE \E files \in SetToSeqs(FileList(d)), list \in SetToSeqs(DirList(d)) :
                 /\ output' = output \o [k \in 1..Len(files) |-> <<d, files[k]>>]
                 /\ calls' = <<list>> \o rest
  /\ UNCHANGED <<given, parent, dirs, typed>>

(* The loop of a call is through: back in the caller's.                    *)
EndCall ==
  /\ calls # <<>> /\ Head(calls) = <<>>
  /\ calls' = Tail(calls)
  /\ UNCHANGED <<given, parent, dirs, typed, cur_dir, output>>

FileNext == FileSearch \/ EndCall

FileSpec == FileInit /\ [][FileNext]_fileVars

Times(n) == {k \in 1..Len(output) : output[k][2] = n}

(* Every file of the type is printed once, under its directory, although   *)
(* the calls share their variables.  Directories so named are printed too, *)
(* under their parent and, when not empty, under themselves (lines 56-77). *)
(* Of a tree that is given as a link nothing but the link can be printed.  *)
EveryFileOnce ==
  /\ \A k \in 1..Len(output) :
       LET n == output[k][2] IN n \in typed /\ output[k][1] \in ({n} \cap dirs) \cup
         (IF n = 0 THEN {} ELSE {parent[n]})
  /\ given.directory = "link" => output \in {<<>>, <<<<0, 0>>>>}
  /\ (InputOk /\ given.directory # "link" /\ calls = <<>>) =>
       \A n \in (1..MaxNode) \cap typed : parent[n] # -1 =>
         \E k \in Times(n) :
           /\ output[k][1] = parent[n]
           /\ n \notin dirs \/ In(n) = {} => Times(n) = {k}
=============================================================================
