# Verification of the resource-management laboratory programs

The repository holds eight independent C programs (`src/1` ... `src/8`, one per
laboratory work) and a Windows program (`src/RGZ`). Most of them coordinate
processes through the kernel: sockets, pipes, signals, a shared file, a message
queue. This directory holds TLA+ models of all of them, TLC
configurations that check them, and machine-checked proofs about all of them.

Everything below is about the code as it stands. Where the code and a comment
or the task description disagree, the model follows the code and the
disagreement is reported ("What the checks found").

## Inventory

| Part | State | Operations | What is hard | Correct means |
|---|---|---|---|---|
| **8, DNS**: `server.c`, `client.c`, `clientServerFunctions.c`, `shutdownAllServers*`, `start*Main.c` | per server: listening socket, accepted socket, `msg`, `serv_msg`; two files `dns.url`, `server.url` | listen/accept, receive a name, look it up, answer or pass on to the next server and relay its answer; the empty name shuts down | several processes, queues of connections, ends of processes at any moment, relaying while others wait, shutdown racing queries | a client gets the record of its own name at the first server that hosts it, or the empty one; no request is lost; everybody comes to an end; a shutdown reaches all servers and only a shutdown stops them |
| **8, `startAllServers`** | the vector of addresses, `pid[]` | fork and exec a server for each line, wait for them in order | a failed fork or exec: the child goes on with the loop; `waitpid` of -1 and 0 takes any child | it ends, and after every process it forked |
| **8, `vector`** | `size`, `capacity` (`uint8_t`), the block | add an element, grow | the capacity overflows | elements are written inside the block |
| **7, launcher, names**: `createChildProcesses`, `start` | a System V queue with a key derived from the directory, `received_count` | children send a name each without waiting, the parent receives as many | two launchers in a directory, a full queue, failed forks, interrupts | the launcher gets its names, or something nameable was lost |
| **7, launcher, monitor**: `launchProgramProcesses`, `processList.c` | slots with a status, three `uint8_t` counts, `pid[]` | fill inactive slots, poll the slots with `WNOHANG` | free slots keep old pids, which the kernel uses again; uninitialised pids; failed forks | each program runs once, at most N at a time, the loop ends when all have |
| **6, pipeline** `tr \| sort \| uniq` | two pipes, descriptors of four processes | fork, close, wait, one process after the other | who holds which end; full pipes | the output is that of the utilities as they are called; every input passes |
| **5, exchanger** | one pipe, a signal | P1 writes and signals P0, which waits for the signal and writes | signal before it is blocked; end of file against "no message" | messages in order, both printed, the program ends |
| **4/2, combinations over a file** | the file `./.tmp`, a flag per child set by a signal handler | children create and write the file while it is absent; the parent reads, signals the writer, removes | check-then-act on the file from four processes; one-shot handlers; what an earlier run left | C(n, k) from three factorials of this run; the program ends |
| **4/1, combinations over pipes** | three pipes, a count | fork and exec three children, poll the pipes without waiting | inherited ends, end of file against no message, failed forks | each factorial counted once, from its child |
| **3, file tables** | three tables, and the kernel's descriptors | `myOpen`, `mySTDOpen`, `myClose`, `mySTDClose` | rows are matched by inode on opening and by name on closing; failed calls | the tables say what is open |
| **2, folders** | the stream of a directory | print the entries that have subfolders | names are looked up in the current directory, not in the one that is read; paths are joined without a "/"; `stat()` fails and `path_stat` is unwritten | the folders that have subfolders are printed |
| **1, script** `FileUnification.sh` | global variables of a recursive function | print the files of a type, directory by directory | each call overwrites the variables of its caller | every file is printed once |
| **RGZ** (C++, Windows) | three strings, a thread, the window's messages | the thread fills the strings, `WM_PAINT` draws and deletes them; `CPUID` is asked for the cache | the thread against the window procedure; what is drawn after `delete` | the window shows what the thread has read |

The programs do not call each other. Within a program the interaction is the
kernel's: `DnsChain` has sockets and their queues between clients, servers and
the shutdown program, and `ServerStarter` puts `startAllServers` beside them,
whose forks are what lets a server start and whose `waitpid` returns when a
server has ended; `ProgramQueue` and `ProgramSlots` are two phases of one
process, the first handing `prog_name` to the second; 4/1 and 4/2 are two
implementations of one task; the window of RGZ shows what `ProcInfo` finds.

The hazards of each program, with the line where they bite and the properties
that would catch them, are listed in `PROJECT.json` under "hazards".

## Modules

| Module | Models | Size of the checked instance |
|---|---|---|
| `DnsDirectory` | what the DNS promises its clients, no chain, no sockets | - |
| `DnsChain`, `DnsChainMC` | 8 (servers, clients, shutdown) | 3 servers, 2 clients, 1-2 shutdowns |
| `DnsChainProofs` | theorems about `DnsChain` and `ServerStarter` | all |
| `ServerStarter`, `ServerStarterMC` | 8, `startAllServers`, composed with `DnsChain` | 2 servers, 2 clients, 1 shutdown, up to 4 starters |
| `AddressVector` | 8, `vector` | 255 lines |
| `TempFile`, `TempFileMC` | 4/2 | 3 children (the code's number) |
| `TempFileProofs` | theorems about `TempFile` | all |
| `CombinationPipes` | 4/1 | 3 children (the code's number) |
| `CombinationPipesProofs` | theorems about `CombinationPipes` | all |
| `ProgramQueue`, `ProgramQueueMC` | 7, names | 2 launchers of 2 programs, room for 3 messages |
| `ProgramQueueProofs` | theorems about `ProgramQueue` | all |
| `JobPool` | what the monitor of 7 promises | - |
| `ProgramSlots`, `ProgramSlotsMC` | 7, monitor | 0-3 programs, 0-3 slots, 3 pids |
| `ProgramSlotsProofs` | theorems about `ProgramSlots` | all |
| `MessageExchange` | 5 | the program itself |
| `MessageExchangeProofs` | theorems about `MessageExchange` | all |
| `CommandPipeline`, `CommandPipelineMC` | 6 | inputs of up to 4 lines, pipes of 3 |
| `CommandPipelineProofs` | theorems about `CommandPipeline` | all |
| `FileTables` | 3 | 2 names, 1-2 inodes, 1 stream, 3 descriptors |
| `FolderList` | 2 | 2 names, 5 kinds of entries |
| `FileUnification` | 1 | all trees of up to 5 nodes, given as they are or by a link |
| `ProcInfo`, `SystemWindow`, `SystemWindowMC` | RGZ: the questions to the processor; the window and its thread | 6 processors, 3 drawings |
| `LaunchersMC` | `ProgramSlots`, `ProgramQueue`, `MessageExchange`, `CombinationPipes`, one of them per behaviour | as above |
| `FilesMC` | `TempFile`, `CommandPipeline`, one of them per behaviour | as above |
| `SequentialMC` | `FileTables`, `AddressVector`, `FolderList`, `FileUnification`, `SystemWindow`, one of them per behaviour | as above |
| `SequentialProofs` | theorems about `AddressVector`, `FileTables`, `FolderList`, `FileUnification`, `SystemWindow` | all |

Names of variables and actions are those of the code wherever TLA+ allows.
`PROJECT.json` maps every definition to its lines. In each module, definitions
marked `\* bug:` are variants of an action with one mistake; nothing in the
specifications refers to them. Replacing the action by its variant must make a
property fail, which shows what the property can tell apart.

### How the state corresponds to the code

*Granularity.* A step is what a process does between two system calls that
another process can tell apart. Computation in between, which no other process
sees, belongs to the step. Where a call can block, the action is disabled until
it returns; where it can fail, there is an action (or a disjunct) for the
failure, with what the code then does, which is often to go on.

**`DnsChain`.** `pc` is the place in `startServer` (boot, accept, recv, dial,
send, wait) or in `startClient`; `buf[s]` is the server's `msg`; `peer[s]` is
the connection `client_sock` stands for; `backlog[s]` is the kernel's queue of
completed connections; `toServer` and `toClient` are the two directions of a
connection, which is named by the process that opened it, as each has at most
one. A text is a name or `EmptyText`; a `ServerResponse` is a record of the
name and the server it is at. `errorCheck` is `Fail`. Points taken from the
code rather than from what one would expect:

- `recv()` returning 0 passes `errorCheck`. A server that then looks at `msg`
  sees whatever was there, so `Reads` lets the end of the stream be read as any
  text (`toServer = Eof`), the shutdown included; a client prints a `serv_msg`
  nobody wrote (`Collect`); a server relays the empty response (`Return`).
- Closing a socket with unread bytes resets the connection (`HangUp`), and so
  does the end of a process with connections in its queue (`Exit`).
- A server forwards the shutdown *before* it closes its own sockets.

**`ServerStarter`.** A child whose `execl` returns goes on with the fork loop,
so there may be 2^N starters; each is named by the set of the lines at whose
fork it or an ancestor of it was the child, `{}` being the process that the user
ran. `pid[S][s]` is the entry of its `pid[]`: its own child, one copied
from the parent (for which `waitpid` fails), 0 in the child itself, -1.
`Chained` lets a server of `DnsChain` boot only when it was forked.

**`AddressVector`.** `block` is the number of elements that the last `realloc`
made room for, `capacity` the `uint8_t` that is compared with `size`.

**`TempFile`.** `failed` are the children that `fork` did not make; their
`pid[]` is -1, so that `kill` reaches every child (`Reached`). `file` is what `./.tmp` names; `stream[c]` says whether a
child's open stream is on that file or on one that was removed under it (such
writes are lost). `record[c]` and `handler[c]` are the flag and the disposition
that `signal()` installs for one delivery (System V semantics, which
glibc gives under the Makefile's `-std=c99 -D_POSIX_C_SOURCE`). `told` and `left` are history.

**`ProgramSlots`.** One action per test of the two loops of a pass;
`status`, `active`, `closed`, `amount` are `ProcessList`; `process` is the
kernel's table of children. `pid[s]` may be garbage, a live pid, an old pid
that the kernel has given to another child, 0 or -1: `Waitpid` does what the
kernel does with each. A child whose `execl` fails is a second monitor
with a copy of the list; `GoAstray` continues the behaviour as *that* process:
the list is kept, the children are not (they are the first monitor's), `pid[i]`
is 0. The first monitor sees in it a program that runs. As either
process may be followed, the invariants hold of both.

**`ProgramQueue`.** `queue` is the queue the key has now. A message is
represented by the launcher whose child sent it, since nothing depends on the
name in it.

**`CommandPipeline`.** `ends[p]` is the set of pipe ends a process has open;
each stage closes exactly what its function closes before `execl`. `tr`,
`sort` and `uniq` are external: they read, transform and write lines. What `tr`
makes of a line with the arguments it is called with is `Strip`; `ShellStrip` is
what it would make of it in the command of the comment, and differs in lines
with quotation marks. `sort` is
any reordering of what it has read that is in order, as all of them are the same
text to `uniq`; so the result is stated without an algorithm, as the set of
translated lines, each once and in ascending order.

**`MessageExchange`, `CombinationPipes`.** `at` or `offspring` per process,
`writeEnd` or `writers` the holders of the write ends; descriptors are inherited
at `fork`. In `CombinationPipes` a child whose `execl` fails is "astray": of
what it does as a second parent only what the first one can notice is modelled,
that it closes the write ends it inherited and empties the pipes of its elder
brothers (`TakeAway`).

**`FileTables`.** `ft`, `oft` and `fdt` are sequences of rows. `files` and
`streams` are the results that the caller holds, `ERROR` among them: `main.c`
closes `fd4` and `fd2` and the three streams without asking whether the opening
worked. The caller of the model makes these calls in any order, and does not
close a descriptor twice. Using the uninitialised `filename`
of `myClose` is a choice between ending there and any name and flags; the model
stops after it (`undefined`).

**`FolderList`, `FileUnification`.** A file system is a function of the initial
state: what each name is in the directory that is read and in the current one;
a tree of numbered nodes. `readdir` and `find` give entries in any order.
A name may be one for which `stat()` fails ("lost": a dangling link, say). Then
`isDirectory()` looks at an unwritten `path_stat`, and `IsDirectory` has both
answers, for an entry of the directory as for one of a folder in it
(`HasSubfolder` is the set of the answers the search may give). `concat()` adds
no "/": with "./" or "dir/" the program opens the entries, with "dir" it opens
`dirname`, another file, so that `opened` and `inside` have nothing to do with the
entries then. A script that is given a link takes it for a directory (`[ -d ]`),
and so does `ls`, but `find` does not enter it (`Seen`).
`calls` is the stack of `for` loops that have begun, each with the words that
are left, as only these survive a recursive call.

**`SystemWindow`.** `pc` is `WinMain`, the calls of `WindowProc` it causes
included; `thread` is `InfoThread`; a string is null, held or freed.
The thread keeps running while `WM_CREATE` waits for it. A processor (in
`ProcInfo`) is the record of what `CPUID` answers.

## Runs

| Run | Shows | Bounds and why they are enough |
|---|---|---|
| `dns_safety` | genuine answers, misses only by failure, no lost request, inner servers called by their predecessor only, shutdown goes down; every process may be killed and servers start in any order | three servers give a first, an inner and a last one; a name only the last hosts passes through all; two clients fill the queue of length one. The name hosted at two servers, which tells first from later, is asked in `dns_shutdown` |
| `dns_start` | `startAllServers` and the chain: every starter ends, after what it forked, and every client and shutdown ends, whatever fork or exec fails and whoever is killed | two servers: one that waits and one that is waited for; a starter that fails at the first line, at the second, at both |
| `dns_shutdown` | two shutdowns race two clients: the chain implements `DnsDirectory` (liveness included), stops only on request, all servers stop | three servers, so that a shutdown passes an inner server |
| `dns_killed_client` (violation) | a client killed before it has sent stops the servers, though nobody ran the shutdown | the smallest chain that has a successor to stop |
| `sequential` | 3: the tables say what is open and stay small; 8: the vector; 2: the right folders; 1: every file once; RGZ: the first drawing is true, and the cache shown is one described | 3: two names of one inode or of two, two flags, three descriptors for two openings of one file beside a stream, one failed call; 8: more lines than a `uint8_t` counts; 2: a name that is the same kind of thing in both directories, or not; 1: two levels of directories, empty ones and ones named like files; RGZ: a processor for every way through the search |
| `launchers` | 7, slots: each program once, `closed` right, no index out of the list, no slot asked that was never filled, the loop ends; implements `JobPool` | up to three programs in up to three slots with three pids: every pid is used again while a free slot still holds it; two failed forks in a row |
| | 7, queue: a launcher blocks only after a loss, and otherwise gets its names | two launchers with two children each and room for three messages: the queue fills |
| | 5: order, starvation only after a loss, end | the program has no parameter |
| | 4/1: what is printed comes from three messages, each of its own child, whatever fork or exec fails and whoever is killed; without failures the program ends | the code's three children |
| `files` | 4/2: the polled file stays; what is printed is of this run, or of the record that was there, and misses only what a failed fork explains; once all are told the program ends | the code's three children; one failed fork, of the child named by the old file or of another (the children differ in nothing else) |
| | 6: the output is that of `tr`, `sort` and `uniq` as they are called, unless something failed; readers see the end of their input; inputs that fit pass, whatever fails | four lines over pipes of three: inputs that fit, fill and exceed a pipe |
| `temp_file_count` (violation) | a child is counted twice and another never told | as above, no file at the start |
| `pipeline_full` (violation) | an input larger than a pipe blocks the program | three lines over a pipe of two |
| `pipeline_quotes` (violation) | quotation marks are deleted from the text | one line |
| `folders` (violation) | a folder without a subdirectory is printed | one name |
| `cache` (violation) | a cache that the processor describes in its table is not found | the six processors |

Bounds that exist only in the models: `MaxFds`, `MaxFailures`, `MaxCount` in
`FileTables` (counts of a file opened by two names in turn grow for ever in the
code), `MaxInput` and `Capacity` in `CommandPipeline`, `QueueLimit` in
`DnsChain` and `ProgramQueue` (a parameter of the kernel), `MaxCount` in
`ProgramSlots` (255 in the code), `MaxLines` in `AddressVector`, `MaxNode` in
`FileUnification`, `Entries` in `FolderList`, `Cpus` and `MaxPaints` in
`SystemWindow`, `Failing` (which forks may fail together) in `TempFile`.
`CHECK_DEADLOCK FALSE` appears wherever the
program ends or may wait for ever by design of its code; what must not wait is
stated as a property.

The programs of `sequential`, `launchers` and `files` share no variable and never
run in the same behaviour: `MCInit` chooses one and leaves the others idle, and
fairness is that of the program chosen. Of folders that have nothing to do
with the entries `SequentialMC` takes only those with at most two kinds of entries
(`FolderBound`).

`SYMMETRY` is used in `DnsSafety.cfg` only, over the clients and the shutdown
programs, which the specification treats alike and no safety property
distinguishes.

The type invariants (`TypeOK`, and `...TypeOK` where modules are joined) declare
what the variables hold. The runs check none of them; those of `DnsChain`
(`TypeCorrect`), `ServerStarter`, `TempFile`, `CombinationPipes`,
`ProgramSlots`, `ProgramQueue`, `CommandPipeline`, `FileTables` and
`SystemWindow` are proved, as parts of the invariants below.

## Fairness

Weak fairness of each process as a whole (in `ServerStarter`, of each starter and
of each process of the chain): a process whose next call can return
is run at last. This is what the kernel's scheduler gives; nothing is assumed of
the order of processes or of how long `usleep` takes. Added to it:

- in `TempFile`, a signal sent is delivered at last (`WF` of `Deliver`);
- in `ProgramSlots`, every launched program ends at last (`ProgramEnds`);
  without it `EverythingRuns` would be false of any monitor;
- in `TempFile`, `CombinationPipes` and `MessageExchange`, liveness is claimed
  only where the property says that nothing failed or everybody was told;
- nothing is ever obliged to fail, to be killed or to be interrupted.

In `DnsChain` fairness makes a client that has connected send its text. A client
that stays silent holds the first server for ever: the code has no timeout.

No strong fairness is needed: each queue has one consumer, which takes from it
in order.

## Proofs

`DnsChainProofs` proves for **every** number of servers, table, set of clients
and shutdown programs, with any set of servers not yet started and any set of
processes that may be killed:

| Theorem | Says |
|---|---|
| `TypeCorrect` | `Spec => []TypeOK` |
| `ChainInvariant` | `Spec => []ChainInv` |
| `AnswersAreGenuine` | `Spec => []GenuineAnswers` |
| `MissesMeanFailure` | `Spec => []MissMeansFailure` |
| `NoRequestIsLost` | `Spec => []NoLostRequest` |
| `OnePredecessorCall` | `Spec => []OnlyPredecessorCalls` |
| `ShutdownTravelsDown` | `Spec => []ShutdownGoesDown` |
| `StopsAreRequested` | `Spec => []StopsOnlyOnRequest`, if nobody is killed and no client sends the empty name (`Civil`) |
| `PrintsOnlyAnswers` | `Spec => []PrintsWhatItReceived`, if moreover all servers are up (`Quiet`) |
| `ChainImplementsDirectory` | the chain implements the safety part of `DnsDirectory`, when all servers are up, nobody is killed and no client sends the empty name |

The assumptions are `ChainAssumption` (the table maps names to servers, the
queue has room for at least one connection) and `DistinctAssumption` (processes
and the marks for the states of a connection are different things). The lines
of `dns.url` are taken to be different, as they are in the file shipped.

*The argument.* None of the safety properties is inductive: that a server
answers the right client says nothing about a client whose connection is
queued twice, or who has gone on to something else. `ChainInv` says where every
connection is: in the queue or in the hands of exactly the server it was opened
to, not yet answered, its opener at the point of the exchange where the server
believes it to be (`ConnectionInv`, `QueueInv`, `ServerInv`, `OpenerInv`); that
a response on its way is the right one from the responder's position on, or an
empty one for which some server has failed; and that
behind a server that stops nobody is left who could call it. Each action has a
lemma that it keeps `ChainInv` (`BootKeeps` ... `ExitKeeps`); the properties
follow from it. `AnswersAreGenuine` rests on the relaying part: what a server
gets from its successor is the first record from the successor's position on,
and the server asked only because it has none itself, so it is the first record
from its own position too.

*The refinement.* Under `Quiet` (all servers up, no kills, no empty names) the
second invariant `QuietInv` says that no server fails and that one ends only
after the shutdown was sent; then a step of a client that prints is `Resolve`,
one that is refused comes after `Close`, the end of the first server is
`Close`, and all others change nothing the directory has.

*What needs a quiet environment.* Both conditions are needed: a client that is
killed before it has sent, or one that asks for the empty name, may shut the
chain down, and a client whose server has failed prints what nobody sent. Under
`Civil` servers may still be missing and fail; `RequestInv` says that an empty
text on its way or in the hands of a server that goes on to pass it down was
once sent by a shutdown program that is done. It needs that no server finds
the end of a stream in place of a text, which holds as no process ends before it
has sent. `PrintsOnlyAnswers` follows from `QuietInv`. Runs have both kinds of
environments: in `dns_shutdown` the hypotheses hold, in `dns_safety` they do not.

The last section of `DnsChainProofs` is about `ServerStarter`, for any number of lines of `dns.url`, any forks that
fail and a program that is there or not:

| Theorem | Says |
|---|---|
| `StarterInvariant` | `StarterSpec => []StarterInv` |
| `StartersOutlastTheirChildren` | `StarterSpec => []DoneMeansAllEnded` |
| `StartingKeepsTheChain` | `StarterSpec => Spec`: the chain that is started late and in part is one of `DnsChain`, so that all theorems about `Spec` hold of it |

`waitpid` is called as often as there are lines, with a pid that is its
child's, -1, or 0, and each call reaps at most one child. `StarterInv` says that
no child below the current line is left: the one a call passes over had been
reaped before, or the call would have taken some other, and the line's own pid
always takes its child. To say so the starters must be told apart; the
second part of the invariant, `NameInv`, is that the line at which a starter is
forked is above all in its name, so that a name is given once. Assumed:
`StarterAssumption`.

`TempFileProofs`, for any finite set of children, any failed forks, any old file:

| Theorem | Says |
|---|---|
| `InvAlways` | `Spec => []TempInv` |
| `FileStaysWhilePolled` | `Spec => []PolledFileStays` |
| `CombinationIsOfThisRun` | `Spec => []PrintsTheCombination` |

The parent may count a child twice, so counting proves nothing. `TempInv`
follows what was *told*: a child ends only if it was told, a told child has
handed over its factorial, and the parent prints when all children have ended;
what `kill(-1)` tells is the exception the property names. Assumed:
`ChildrenAssumption`.

`CombinationPipesProofs`, for up to 255 children (`CountAssumption`; the
count is a `uint8_t`), any of which fails:

| Theorem | Says |
|---|---|
| `CombinationIsOfAll` | `PipesSpec => []PrintsFromEach` |

`PipesInv`: a child's message is in its pipe or in the parent's variable, never
in both, and in neither before it is written; so the count is the number of
variables that are set, and when it is that of the children all are.

`ProgramSlotsProofs`, for every count below 256 and any pids
(`SlotsAssumption`: there are enough pids, and 0 and -1 are not among them):

| Theorem | Says |
|---|---|
| `InvAlways` | `Spec => []SlotsInv` |
| `NeverBeyondTheList` | `Spec => []StaysInTheList` |
| `ProgramsStartOnce` | `Spec => []StartsEachOnce` |
| `AskedSlotsAreFilled` | `Spec => []AsksOnlyFilledSlots` |
| `ClosedIsTrue` | `Spec => []ClosesWhatEnds` |
| `MonitorImplementsPool` | `Spec => ImplementsPool` |

`active` alone says little, as a free slot that names another's process
lowers it. `SlotsInv` goes by `amount`, which is `active + closed` modulo 256,
only grows and never passes the number of programs; by the first pass, which
fills every slot in order before one is asked; and by the slots that are active,
of which there are at least as many as programs that exist, however pids are used
again. The last is why the pool of `JobPool` is never exceeded.

`ProgramQueueProofs`, for any finite number of launchers, any number of children
a `uint8_t` can count, any limit of the queue, failed forks and interrupts
(`QueueAssumption`):

| Theorem | Says |
|---|---|
| `QueueInvariant` | `QueueSpec => []QueueInv` |
| `WaitsOnlyAfterLoss` | `QueueSpec => []BlocksOnlyAfterLoss` |

`QueueInv` counts what a launcher's children sent in two ways: as children that
ended after `msgsnd`, and as messages in the queue or in the launcher's hands
(`CountInv`); it holds as long as the queue is the launcher's own and nobody else
took a message of it. That the queue is still its own can be told from the
id, as ids only grow (`IdInv`). A launcher that has as many children as it wants
names, all of them sent, and an empty queue, then has all its names.

`MessageExchangeProofs`, whatever forks fail and whoever is killed:

| Theorem | Says |
|---|---|
| `MessagesInOrder` | `ExchangeSpec => []PrintsInOrder` |
| `StarvedByLoss` | `ExchangeSpec => []StarvesOnlyAfterLoss` |

`ExchangeInv` lists how far the two messages can be (written by none, by P1, by
both; in the pipe or printed) and ties it to where the processes are: P0 cannot have
the signal before P1 has written.

`CommandPipelineProofs`, for any lines, any `Strip` tr may be, inputs of any length
and pipes of any capacity (`PipelineAssumption`):

| Theorem | Says |
|---|---|
| `PipelineInvariant` | `PipelineSpec => [](ControlInv /\ DataInv)` |
| `ReadersSeeTheEnd` | `PipelineSpec => []EndOfInputIsSeen` |
| `OutputIsTheResult` | `PipelineSpec => []DoneMeansResult` |

`ControlInv`: a process is forked when those before it are over, and by
then the parent has closed the write end the next one is going to read from.
`DataInv`: from the moment `tr` has read, the lines in memory, in pipes and in the
output are together those of the result (`FlowInv`); a process that has ended has
passed on all it read (`EmptiedInv`); behind `sort` each part is in order and
before the part that follows it (`SortedInv`), so that `uniq`, which compares
neighbours only, finds all duplicates.

`SequentialProofs`:

| Theorem | Says | For |
|---|---|---|
| `OpenRowsStayTrue` | `Spec => []OpenRowsAreTrue` | any names, inodes, descriptors and failures (`FilesAssumption`) |
| `OpeningsAreCounted` | `Spec => []CountsOpenings` | " |
| `OpenFilesAreDescribed` | `Spec => []DescribesOpenFiles` | " |
| `TablesAreBounded` | `Spec => []TablesStaySmall` | " |
| `VectorHoldsTheLines` | `VectorSpec => []HoldsTheLines` | any number of lines (`VectorAssumption`) |
| `FoldersAreListed` | `FolderSpec => []ListsFolders` | any set of names |
| `FilesAreFoundOnce` | `FileSpec => []EveryFileOnce` | trees of any size and shape (`NodesAssumption`) |
| `FirstPaintShowsTheData` | `WindowSpec => []FirstPaintIsTrue` | any number of drawings (`WindowAssumption`) and any processor |
| `CacheIsShown` | `WindowSpec => []ShowsTheCache` | " |

*The tables.* Rows of the table of open files are one per open descriptor, whatever fails
(`RowsAreOpen`). The two tables with counts have one row per file (and flags)
and per stream, and the count of a row is compared with the number of rows of
open files that refer to its file: never smaller in `ft`, equal if no file has
two names (`FileCounts`); in `fdt` more by the other links of the file, when
moreover no stream is redirected from one (`DescCounts`). So the properties about
counts become lemmas about one row that is added, cut out or changed in a sequence, which
hold for every table alike, and the lemmas about `Cardinality` when one
descriptor is opened or closed. After a failed call counts are not right any more
(`failures = 0` in the properties): the code has released what the call did not take.

*The tree.* The global variables of the script survive a call only as words of `for`
loops that have begun, so `UnificationInv` says what `calls` stands for: the
directories that wait in it, with all that is under them, are those that were not
searched (`Unsearched`), no directory waits twice, and what is printed is what the others
contain (`PrintedOf`). No induction over the tree is needed: a search of `d`
takes `d` from the set and lets its own directories wait in its place
(`OneSearched`).

The capacities of the vector are a finite table up to the one that
overflows (`VectorInv`); a folder that is to be printed is printed or not read
yet (`FolderInv`); the strings belong to the thread until it has ended, and to
the window from then on (`WindowInv`); from the moment the thread has asked for
the cache the string describes what the search finds (`CacheInv`), which is
never in the descriptor table, as the search of it does not begin
(`TableIsNotSearched`), and otherwise the first sublevel that describes a third
level (`LeafIsFound`).

The translation of sequences to the SMT solver by the version of `tlapm` used has an
axiom that is too strong: of every value it says that its domain is `1..N` if *and
only if* its length is `N`, and that its length is a natural number, which cannot be
of a function with another domain. All proofs were therefore checked a second time with that axiom weakened to the direction that
holds, in which every leaf goes through as well; no theorem rests on it.

## What is model-checked only

- Liveness (`EveryCallerEnds`, `ShutdownReachesAll`, `StartersEnd`,
  `ToldProgramEnds`, `CombinationEnds`, `NamesArrive`, `EverythingRuns`,
  `ExchangeEnds`, `FittingInputPasses`) and the liveness part of
  `ImplementsDirectory`: the prover has no rule for fairness.

Every safety property that a passing run checks has a theorem, and so have
`ImplementsPool` and the safety part of `ImplementsDirectory`.

## What the checks found

Kept as runs that must fail:

- **4/2 may hang** (`temp_file_count`). A child that passed `access()` before
  its signal arrived writes once more after the parent removed the file. It is
  counted twice, the loop ends with another child untold, and `waitpid` waits for
  ever. `PrintsTheCombination` still holds: no wrong number is printed.
- **8 may stop by itself** (`dns_killed_client`, `server.c:97`). `recv()` gives 0 when a
  client is gone, which is no error to `errorCheck`, and the server looks at a
  `msg` that nobody wrote. If its first byte happens to be 0 the server ends its
  loop and passes the shutdown on. What comes of a client's empty name is the
  same, but follows from the protocol.
- **6 blocks on large inputs** (`pipeline_full`). The parent waits for `tr`
  before it starts `sort`, so output beyond the capacity of a pipe is never
  read.
- **6 deletes quotation marks** (`pipeline_quotes`, `commandPipeline.c:51`). The argument
  of `execl` has the marks in it that the shell would have removed, so `tr`
  deletes them from the text, which the command in the comment on line 152 does not.
- **2 prints folders without subfolders** (`folders`, `Functions.h:30`).
  `isDirectory` is true of a fifo, a socket, a device, and may be so of whatever
  `stat()` fails for.
- **RGZ does not find a described cache** (`cache`, `ProcInfo.h:67`). The condition of the
  loop over the table of descriptors is inverted, so that it is never searched.

Met while modelling; the properties are stated so that they say what remains
true:

- 8: a shutdown or query sent before an inner server listens ends the server
  that passes it on, and the ones behind stay. A client killed before it has
  sent, or one that asks for the empty name, may shut the chain down. A client
  whose server was killed prints an uninitialised response.
- 8, `startAllServers`: without `./startServer` every child becomes a starter
  of its own, 2^N processes in all, which end nevertheless. From the 211th line
  of `dns.url` on the vector is written outside its memory: 210 grows to 315,
  which a `uint8_t` holds as 59. `port[5]` has no room for the end of a port of
  five digits.
- 7: two launchers in one directory take each other's names, and the first to
  finish removes the queue of the other, whose `msgrcv` then fails in a loop. A
  message is a pointer, good only in a process with the same memory: a name
  taken from another launcher is garbage.
  After a failed fork `pid` is -1, and `waitpid(-1)` reaps the process of
  another slot, or, with no child left, returns the very -1 it is compared
  with, so that a program that never ran is counted as ended. After a failed
  exec two monitors run the rest of the list each.
- 5: the signal may come before P0 blocks it, and end it; the parent then reads
  the end of the pipe for ever. The comment on lines 75-77 of
  `messageExchanger.c` says that the `usleep()` prevents it, but a pause of one process
  bounds nothing of another (`Struck`; `StarvesOnlyAfterLoss` and `ExchangeEnds`
  count the child as lost). A failed fork of P0 makes P1 signal every
  process of the user.
- 4/2: a `./.tmp` left behind is taken for a result. If it names a child whose
  fork has failed, `kill(-1)` ends all the others before they have written, and
  the result is made of uninitialised variables.
- 4/1: a failed fork or exec leaves the parent polling for ever; the
  child whose exec failed takes the messages of its elder brothers and polls for
  ever, too.
- 3: a file that is opened by two names, or that a stream is redirected from,
  leaves rows behind or loses them early; closing what is not listed uses an
  uninitialised name; the tables are never compared with their size.
- 2: entries of another directory are looked up in the current one, so that a
  folder may be left out; an argument without its final "/" makes the program
  look into other folders, whose names begin with that of the directory.
- 1: a directory named like a file of the type is printed as well, twice if it
  is not empty. A directory given by a symbolic link passes the check of the
  arguments, and nothing in it is printed.
- RGZ: the second `WM_PAINT`, after any resizing, draws and deletes freed
  strings. `cpuIdCheck` is true on any processor, so one without `CPUID`
  ends the program. When `CreateWindow` fails, `GetMessage` waits for
  ever.

## What is not modelled

- A `dns.url` with the same address twice, which makes the last server a
  predecessor of its own successor; a client that never sends (the code has no
  timeout): `DnsChain` excludes both, the first by numbering the servers, the
  second by fairness.
- An `execl` that fails for some servers or programs and works for others.
- Messages cut in parts by TCP: the texts are at most some hundred bytes and
  sent with one call.
- On Linux `listen(s, 1)` completes two connections, not one, and `connect` to
  a full queue gives up after minutes; `QueueLimit` is a parameter of the
  proofs, and giving up is not modelled.
- The factorials and the division of 4/1 and 4/2 (at most 20!, which fits 64
  bits); the text of messages; printing, but for 1 and 2, whose output is what
  they are about; fonts, places and wording of the window of RGZ, the
  processor's name and the time.
- 4/2: children that outlive a parent that was killed and go on writing `./.tmp`
  while the next run uses it. Of an earlier run only the file is modelled.
- 3: the memory of the tables (`tablesize_max` of `memoryInit`). `TablesStaySmall` says
  how many rows are needed, not that they fit; after the use of an uninitialised
  name (`undefined`) nothing is claimed.
- 7: which program a name stands for. That a launcher starts what another one's
  children drew, or that two monitors start the same program, is in the models,
  and no property excludes it.
- Names with wildcards or line feeds in 1.

## Plan

Done: `DnsChain` with its abstract specification and proofs first, as the
system with the most processes and failures; then the programs with races on
shared objects (`TempFile`, `ProgramQueue`, `ProgramSlots`, `MessageExchange`,
`CommandPipeline`), then `CombinationPipes` and `FileTables`; then
`ServerStarter`, failed forks and execs everywhere, and the sequential programs
and the window. Proofs followed for the modules whose parameters
make them worth more than TLC's instance.

Then the proofs about the models that had only been checked: what the chain
promises in a quiet environment, `ProgramQueue` and `MessageExchange`,
`CommandPipeline`, `FileUnification`, the four properties of `FileTables` and the
cache that the window of RGZ shows.

Next, in this order:

1. `DnsChain`: action properties that hold of every environment, as that a server
   answers a client at most once and that a request is only passed on to the
   server behind.
2. Abstract specifications for 4/1 and 4/2, which do the same task, and their
   refinement.
