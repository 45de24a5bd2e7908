----------------------------- MODULE FolderList -----------------------------
(***************************************************************************)
(* printNonEmptySubfolders of 2/: the folders of a directory that have     *)
(* subfolders.  It looks at each entry once, and at the entries of each    *)
(* folder until one is found that is no regular file.                      *)
(***************************************************************************)
EXTENDS Naturals, FiniteSets

CONSTANT Entries  \* names that entries of directories have

(* What a name may be; fifo stands for all that is neither a file nor a    *)
(* directory, and lost for what stat() fails for, like a link to nothing.  *)
Kinds == {"none", "file", "dir", "fifo", "lost"}

VARIABLES
  path,     \* "./" (no argument), or another directory, "dir" or "dir/"
  cwd,      \* what each name is in the current directory
  other,    \* what it is in the other directory
  opened,   \* the names for which opendir(concat(path, name)) succeeds
  inside,   \* per name, the kinds of the entries of the folder it opens
  unread,   \* entries readdir() has not returned yet
  printed
folderVars == <<path, cwd, other, opened, inside, unread, printed>>

Listed     == IF path = "./" THEN cwd ELSE other
EntriesOf(d) == {e \in Entries : d[e] # "none"}

FolderTypeOK ==
  /\ path \in {"./", "dir", "dir/"}
  /\ cwd \in [Entries -> Kinds] /\ other \in [Entries -> Kinds]
  /\ opened \subseteq Entries
  /\ inside \in [Entries -> SUBSET (Kinds \ {"none"})]
  /\ unread \subseteq Entries /\ printed \subseteq Entries

(* concat() puts nothing between path and name: in "dir" without its "/"   *)
(* it makes the path of another file, dirname, which has nothing to do     *)
(* with the entry, and may be a folder or not.  Other folders may be ones  *)
(* that cannot be read.                                                    *)
FolderInit ==
  /\ path \in {"./", "dir", "dir/"}
  /\ cwd \in [Entries -> Kinds] /\ other \in [Entries -> Kinds]
  /\ path = "./" => other = cwd
  /\ opened \in SUBSET Entries
  /\ path # "dir" => opened \subseteq {e \in Entries : Listed[e] = "dir"}
  /\ inside \in [Entries -> SUBSET (Kinds \ {"none"})]
  /\ \A e \in Entries \ opened : inside[e] = {}
  /\ unread = EntriesOf(Listed)
  /\ printed = {}

(* isDirectory() of a path that is of this kind: whether it is no regular  *)
(* file.  When stat() fails path_stat is never written, and says anything. *)
IsDirectory(kind) == CASE kind \in {"none", "lost"} -> BOOLEAN
                       [] kind = "file"             -> {FALSE}
                       [] OTHER                     -> {TRUE}

(* The search of a folder finds an entry for which isDirectory() is true.  *)
HasSubfolder(e) ==
  {\E k \in inside[e] : answer[k] :
     answer \in {a \in [inside[e] -> BOOLEAN] : \A k \in inside[e] : a[k] \in IsDirectory(k)}}

VisitWithoutReset(e) ==  \* bug: subfolder_search not set for each folder
  /\ e \in unread
  /\ unread' = unread \ {e}
  /\ \E isDir \in IsDirectory(cwd[e]), found \in HasSubfolder(e) :
       printed' = IF isDir /\ e \in opened /\ (found \/ printed # {})
                  THEN printed \cup {e} ELSE printed
  /\ UNCHANGED <<path, cwd, other, opened, inside>>

(* isDirectory(entry->d_name) is asked for the name alone, which stat()    *)
(* looks up in the current directory.                                      *)
Visit(e) ==
  /\ e \in unread
  /\ unread' = unread \ {e}
  /\ \E isDir \in IsDirectory(cwd[e]), found \in HasSubfolder(e) :
       printed' = IF isDir /\ e \in opened /\ found
                  THEN printed \cup {e} ELSE printed
  /\ UNCHANGED <<path, cwd, other, opened, inside>>

FolderNext == \E e \in Entries : Visit(e)

FolderSpec == FolderInit /\ [][FolderNext]_folderVars

(* No entry is left out whose folder has a subdirectory in it, if it is    *)
(* one of the current directory; of another directory, if its name is also *)
(* that of a folder, or the like, in the current one.  Nothing is printed  *)
(* for a folder with regular files only, or with nothing in it, although   *)
(* what isDirectory() says may be by chance (Functions.c 19-53).           *)
ListsFolders ==
  /\ \A e \in printed : e \in EntriesOf(Listed) /\ inside[e] \ {"file"} # {}
  /\ unread = {} =>
       \A e \in EntriesOf(Listed) :
         /\ "dir" \in inside[e]
         /\ path = "./" \/ cwd[e] \in {"dir", "fifo"}
         => e \in printed

(* Only folders of the current directory that have subdirectories are      *)
(* printed (README, task 2; comments at Functions.h 25, Functions.c 38).   *)
OnlyWithSubfolders == path = "./" => \A e \in printed : "dir" \in inside[e]
=============================================================================
