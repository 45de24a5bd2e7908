------------------------------ MODULE FileTables ------------------------------
(***************************************************************************)
(* 3/fileProcess.c: the three tables that myOpen, mySTDOpen, myClose and   *)
(* mySTDClose keep beside the kernel's own.  The open file table has a row *)
(* per descriptor; the file table counts the openings of a file with the   *)
(* same flags; the file descriptor table counts on from the links that the *)
(* file itself has.  Rows are matched by inode when a file is opened and   *)
(* by name when it is closed.                                              *)
(*                                                                         *)
(* main.c makes one sequence of calls; here its caller makes any, passing  *)
(* to the two closing functions what the opening ones returned, ERROR too. *)
(***************************************************************************)
EXTENDS Integers, Sequences, SequencesExt, FiniteSets

CONSTANTS Names,     \* of files
          Inodes,
          Layouts,   \* file systems: the inode of each name
          Streams,   \* the standard streams in use, some of 0, 1, 2
          Under,     \* inodes that a standard stream may be open on
          Flags,     \* O_RDONLY, O_WRONLY, O_RDWR
          Links,     \* st_nlink of each inode
          MaxFds,    \* descriptors a process may have
          MaxFailures, \* bound of the calls that fail
          MaxCount   \* bound of the counts, which nlink_t would let grow on

Fds == 0..(MaxFds - 1)
ERROR == -1
STD_FLAG == -1
getSTDName == [s \in 0..2 |-> <<"stdin", "stdout", "stderr">>[s + 1]]
Closed == [ino |-> 0, flags |-> 0]  \* a free entry of the kernel's table

ASSUME FilesAssumption ==
  /\ MaxFds \in Nat /\ MaxFailures \in Nat
  /\ IsFiniteSet(Names)
  /\ Layouts \subseteq [Names -> Inodes]
  /\ Streams \subseteq 0..2 /\ Streams \subseteq Fds
  /\ Under \subseteq Inodes
  /\ Flags \subseteq 0..2
  /\ Inodes \subseteq Nat \ {0} /\ Links \in [Inodes -> Nat \ {0}]
  /\ \A s \in 0..2 : getSTDName[s] \notin Names

VARIABLES
  failures,    \* calls that have failed
  inode,       \* the file system
  descriptor,  \* the kernel's table of this process
  ft, oft, fdt,
  files,       \* what myOpen returned and the caller has not closed
  streams,     \* what mySTDOpen returned, likewise
  undefined    \* an uninitialised variable was used: what follows is not modelled
vars == <<failures, inode, descriptor, ft, oft, fdt, files, streams, undefined>>
tables == <<ft, oft, fdt>>

AllNames == Names \cup {getSTDName[s] : s \in Streams}

FileTable == [filename : AllNames, ino : Inodes, flags : Flags \cup {STD_FLAG}, nlink : Nat]
OpenFileTable == [filename : AllNames, fd : Fds, flags : Flags \cup {STD_FLAG}]
FileDescTable == [filename : AllNames, ino : Inodes, nlink : Nat]

TypeOK ==
  /\ failures \in 0..MaxFailures
  /\ inode \in Layouts
  /\ descriptor \in [Fds -> {Closed} \cup [ino : Inodes, flags : Flags \cup {STD_FLAG}]]
  /\ ft \in Seq(FileTable)
  /\ oft \in Seq(OpenFileTable)
  /\ fdt \in Seq(FileDescTable)
  /\ files \subseteq Fds \cup {ERROR}
  /\ streams \subseteq Streams \cup {ERROR}
  /\ undefined \in BOOLEAN

Init ==
  /\ failures = 0
  /\ inode \in Layouts
  /\ descriptor \in [Fds -> {Closed} \cup [ino : Under, flags : {STD_FLAG}]]
  /\ \A f \in Fds : f \notin Streams => descriptor[f] = Closed
  /\ ft = <<>> /\ oft = <<>> /\ fdt = <<>>
  /\ files = {} /\ streams = {}
  /\ undefined = FALSE

-----------------------------------------------------------------------------
Fails == failures < MaxFailures /\ failures' = failures + 1

(* One more reference to the row at "at", or the row itself if there is no *)
(* such row yet.                                                           *)
Refer(table, at, row) ==
  IF at = 0 THEN Append(table, row) ELSE [table EXCEPT ![at].nlink = @ + 1]

Drop(table, at) == IF at = 0 THEN table ELSE RemoveAt(table, at)

(* One reference less; the row goes with the last.                         *)
ReleaseToZero(table, at) ==  \* bug: nlink != 0
  IF at = 0 THEN table
  ELSE IF table[at].nlink # 0 THEN [table EXCEPT ![at].nlink = @ - 1]
  ELSE RemoveAt(table, at)

Release(table, at) ==
  IF at = 0 THEN table
  ELSE IF table[at].nlink - 1 # 0 THEN [table EXCEPT ![at].nlink = @ - 1]
  ELSE RemoveAt(table, at)

(* The row of a descriptor, or 0.                                          *)
RowOf(fd) == SelectInSeq(oft, LAMBDA row : row.fd = fd)

Bounded(table) == \A k \in DOMAIN table : table[k].nlink <= MaxCount

(* open() gives the lowest free descriptor.                                *)
Opens(fd, name, flags) ==
  /\ descriptor[fd] = Closed
  /\ \A f \in 0..(fd - 1) : descriptor[f] # Closed
  /\ descriptor' = [descriptor EXCEPT ![fd] = [ino |-> inode[name], flags |-> flags]]
  /\ files' = files \cup {fd}

myOpen(fd, name, flags) ==
  LET ino == inode[name] IN
  /\ Opens(fd, name, flags)
  /\ ft' = Refer(ft, SelectInSeq(ft, LAMBDA row : row.ino = ino /\ row.flags = flags),
                 [filename |-> name, ino |-> ino, flags |-> flags, nlink |-> 1])
  /\ oft' = Append(oft, [filename |-> name, fd |-> fd, flags |-> flags])
  /\ fdt' = Refer(fdt, SelectInSeq(fdt, LAMBDA row : row.ino = ino),
                  [filename |-> name, ino |-> ino, nlink |-> Links[ino]])
  /\ Bounded(ft') /\ Bounded(fdt')
  /\ UNCHANGED <<failures, inode, streams, undefined>>

(* stat() fails after open() did not: the descriptor is returned all the   *)
(* same, and no table has it.                                              *)
myOpenUnlisted(fd, name, flags) ==
  /\ Fails
  /\ Opens(fd, name, flags)
  /\ UNCHANGED <<inode, tables, streams, undefined>>

myOpenFails ==
  /\ Fails
  /\ files' = files \cup {ERROR}
  /\ UNCHANGED <<inode, descriptor, tables, streams, undefined>>

mySTDOpenAgain(s) ==  \* bug: the open file table is not asked
  /\ descriptor[s] # Closed
  /\ LET name == getSTDName[s]  ino == descriptor[s].ino IN
     /\ ft' = Append(ft, [filename |-> name, ino |-> ino, flags |-> STD_FLAG, nlink |-> 1])
     /\ oft' = Append(oft, [filename |-> name, fd |-> s, flags |-> STD_FLAG])
     /\ fdt' = Append(fdt, [filename |-> name, ino |-> ino, nlink |-> Links[ino]])
  /\ streams' = streams \cup {s}
  /\ UNCHANGED <<failures, inode, descriptor, files, undefined>>

mySTDOpen(s) ==
  /\ RowOf(s) = 0
  /\ descriptor[s] # Closed
  /\ LET name == getSTDName[s]  ino == descriptor[s].ino IN
     /\ ft' = Append(ft, [filename |-> name, ino |-> ino, flags |-> STD_FLAG, nlink |-> 1])
     /\ oft' = Append(oft, [filename |-> name, fd |-> s, flags |-> STD_FLAG])
     /\ fdt' = Append(fdt, [filename |-> name, ino |-> ino, nlink |-> Links[ino]])
  /\ streams' = streams \cup {s}
  /\ UNCHANGED <<failures, inode, descriptor, files, undefined>>

(* A stream that has its row already, or is closed.                        *)
mySTDOpenFails(s) ==
  /\ Fails
  /\ RowOf(s) # 0 \/ descriptor[s] = Closed
  /\ streams' = streams \cup {ERROR}
  /\ UNCHANGED <<inode, descriptor, tables, files, undefined>>

-----------------------------------------------------------------------------
(* The second half of myClose: "filename" and "flags" are those of the row *)
(* that is gone, or uninitialised if there was none.                       *)
Closes(fd, filename, flags) ==
  /\ ft' = Release(ft, SelectInSeq(ft, LAMBDA row : row.filename = filename /\ row.flags = flags))
  /\ fdt' = Release(fdt, SelectInSeq(fdt, LAMBDA row : row.filename = filename))
  /\ descriptor' = IF fd = ERROR THEN descriptor ELSE [descriptor EXCEPT ![fd] = Closed]
  /\ files' = files \ {fd}
  /\ streams' = IF fd = ERROR THEN streams ELSE streams \ {fd}
  /\ UNCHANGED <<failures, inode>>

myCloseLast(fd) ==  \* bug: the last row is dropped
  /\ RowOf(fd) # 0
  /\ oft' = Front(oft)
  /\ Closes(fd, oft[RowOf(fd)].filename, oft[RowOf(fd)].flags)
  /\ UNCHANGED undefined

myClose(fd) ==
  /\ RowOf(fd) # 0
  /\ oft' = RemoveAt(oft, RowOf(fd))
  /\ Closes(fd, oft[RowOf(fd)].filename, oft[RowOf(fd)].flags)
  /\ UNCHANGED undefined

myCloseUnlisted(fd) ==
  /\ RowOf(fd) = 0
  /\ \E filename \in AllNames \cup {"?"}, flags \in Flags \cup {STD_FLAG} :
       Closes(fd, filename, flags)
  /\ undefined' = TRUE
  /\ UNCHANGED oft

(* The rows of a stream go whatever their counts; nothing is closed.       *)
DropNamed(table, name) == Drop(table, SelectInSeq(table, LAMBDA row : row.filename = name))

mySTDClose(s) ==
  /\ s # ERROR
  /\ oft' = Drop(oft, RowOf(s))
  /\ ft' = DropNamed(ft, getSTDName[s])
  /\ fdt' = DropNamed(fdt, getSTDName[s])
  /\ streams' = streams \ {s}
  /\ UNCHANGED <<failures, inode, descriptor, files, undefined>>

(* getSTDName(ERROR) returns an uninitialised pointer, at each call.       *)
mySTDCloseUnnamed ==
  /\ \E first, second \in AllNames \cup {"?"} :
       /\ ft' = DropNamed(ft, first)
       /\ fdt' = DropNamed(fdt, second)
  /\ streams' = streams \ {ERROR}
  /\ undefined' = TRUE
  /\ UNCHANGED <<failures, inode, descriptor, oft, files>>

(* strcmp() with such a pointer may also end the program.                  *)
Crash ==
  /\ ERROR \in streams \/ \E fd \in files : RowOf(fd) = 0
  /\ ft # <<>> \/ fdt # <<>>
  /\ undefined' = TRUE
  /\ UNCHANGED <<failures, inode, descriptor, tables, files, streams>>

Next ==
  /\ ~undefined
  /\ \/ \E fd \in Fds, name \in Names, flags \in Flags :
          myOpen(fd, name, flags) \/ myOpenUnlisted(fd, name, flags)
     \/ myOpenFails
     \/ \E s \in Streams : mySTDOpen(s) \/ mySTDOpenFails(s)
     \/ \E fd \in files : myClose(fd) \/ myCloseUnlisted(fd)
     \/ \E s \in streams : mySTDClose(s)
     \/ ERROR \in streams /\ mySTDCloseUnnamed
     \/ Crash

Spec == Init /\ [][Next]_vars

-----------------------------------------------------------------------------
(* How many descriptors of the open file table are open on "ino" with      *)
(* flags among "flags".                                                    *)
Openings(ino, flags) ==
  Cardinality({k \in DOMAIN oft : oft[k].flags \in flags
                               /\ oft[k].filename \in Names
                               /\ inode[oft[k].filename] = ino})

(* Every opened file has one name, as in the directory of 3/.              *)
OneNameEach == \A a, b \in Names : inode[a] = inode[b] => a = b

(* No stream was redirected to or from a file that has a name.             *)
NotRedirected == \A s \in Streams : \A a \in Names : descriptor[s].flags = STD_FLAG => descriptor[s].ino # inode[a]

(* The open file table has at most one row per descriptor and only open    *)
(* descriptors, with the flags they were opened with (lines 130-131, 158-  *)
(* 164, 189-202); without failures it has all that the caller holds.       *)
OpenRowsAreTrue ==
  /\ \A k \in DOMAIN oft :
       /\ \A l \in DOMAIN oft : oft[k].fd = oft[l].fd => k = l
       /\ descriptor[oft[k].fd] # Closed
       /\ oft[k].filename \in Names =>
            descriptor[oft[k].fd] = [ino |-> inode[oft[k].filename], flags |-> oft[k].flags]
  /\ failures = 0 => {oft[k].fd : k \in DOMAIN oft} = files \cup streams

(* An open file is in the file table with its flags, and its count there   *)
(* is never too small, even when a file is opened by two names and closed  *)
(* by the one that its row does not have (lines 118-123, 206-218).  With   *)
(* one name to a file the count is exact, and no row stays behind.         *)
CountsOpenings ==
  failures = 0 =>
    /\ \A a \in Names, m \in Flags : Openings(inode[a], {m}) > 0 =>
         \E k \in DOMAIN ft : /\ ft[k].ino = inode[a] /\ ft[k].flags = m
                              /\ ft[k].nlink >= Openings(inode[a], {m})
    /\ OneNameEach => \A k \in DOMAIN ft : ft[k].filename \in Names =>
         ft[k].nlink = Openings(ft[k].ino, {ft[k].flags}) /\ ft[k].nlink > 0

(* The file descriptor table counts the openings on top of the other links *)
(* of the file, and keeps the row of a file that has other links after its *)
(* last descriptor is closed (lines 133-145, 222-235).                     *)
DescribesOpenFiles ==
  OneNameEach /\ NotRedirected /\ failures = 0 => \A a \in Names :
    LET opened == Openings(inode[a], Flags) IN
    /\ opened > 0 => \E k \in DOMAIN fdt : fdt[k].ino = inode[a]
    /\ \A k \in DOMAIN fdt : fdt[k].ino = inode[a] =>
         /\ fdt[k].nlink = Links[inode[a]] - 1 + opened
         /\ fdt[k].nlink > 0

(* No legal sequence of calls makes the tables grow without end, even the  *)
(* rows that stay behind: one row per file and flags, and one per stream.  *)
(* The tables' malloc'ed size is never compared with their use.            *)
TablesStaySmall ==
  /\ Len(oft) <= MaxFds
  /\ failures = 0 => /\ Len(ft) <= Cardinality({inode[a] : a \in Names} \X Flags) + Cardinality(Streams)
                 /\ Len(fdt) <= Cardinality({inode[a] : a \in Names}) + Cardinality(Streams)
=============================================================================
