# A TLA+ model of CGI::SpeedyCGI

SpeedyCGI runs Perl scripts persistently. A small C program, the *frontend*
(`speedy`), is run for each request; it finds a *backend*, a process that
already has the script compiled, hands it the request over a socket, copies
the I/O and exits with the script's status. Backends are forked from a *backend
parent*, one per script version. There is no server in the middle: frontends,
backends and parents find each other through one memory-mapped *temp file*,
under a write lock, and wake each other with signals. All of the system's
difficulty is in that arrangement, and it is what these modules model.

Paths below are relative to the repository's `src/` unless they say otherwise.

## The parts of the system

| Part | State it keeps | Operations | Correct when |
|---|---|---|---|
| Temp file (`speedy_file.c`) | `file_fd`, `cur_state`, `file_locked`, `file_create_time`; in the file `lock_owner`, `file_removed`, `create_time` | `file_lock`, `file_unlock`, `file_close`, `remove_file`, `speedy_file_set_state`, `speedy_file_fork_child` | one process works in a file at a time; nobody reads what a dead writer left half done; slot numbers are used only in the file they are from |
| Slots and lists (`speedy_slot.c`) | free list, doubly linked lists, all by slot number | alloc, free, append, insert, remove, move, insert_sorted | a slot is in one list, or free; never two owners |
| Groups (`speedy_group.c`) | `group_head`, and per group `be_starting`, `be_parent`, `script_head`, the two lists | invalidate, cleanup, sendsigs, start_be, parent_sig | valid groups in front; `be_starting` is always cleared; the parent named is the one there |
| Backend slots (`speedy_backend.c`) | `pid`, `maturity`, `fe_running`, the list sorted with the waiting ones in front | create, dispose, wait_put, wait_get, exited, died, below_maxbe | a backend serves one frontend; the head tells whether one waits; MaxBackends |
| Frontend slots (`speedy_frontend.c`) | `pid`, `backend`, `sent_sig`, exit status; the queue of a group and the global `fe_run` list | connect, get_a_backend(_hard), frontend_ping, check_prev, backend_check, be_parent_spawn, collect_status, remove_running, clean_running | served in turn; the dead removed, the living not; every one ends |
| Script lookup (`speedy_script.c`) | `script_stat`, `last_open` | find, open, changed | a changed script gets a new group and the old one is invalidated |
| Backend parent (`speedy_backend_main.c`) | `children`, the compiled Perl | collect_child, start_child, do_cleanup, the wait loop | starts what is asked for, buries its own children only |
| Backend (`speedy_perl.c`) | `numrun`, caches of scripts and of the cwd | `speedy_perl_run`, backend_accept, onerun, all_done | runs the script once per connection, with the request that was sent and in the directory it came from; tells the frontend |
| Frontend program (`speedy_main.c`) | three copy buffers, `got_sig`, `backend_exited`, `stop_sock_reads` | doit: read, write, try_close, poll, collect the status, fork | all output comes out, in order; it returns soon after the backend's end; the status is collected |
| Sockets (`speedy_ipc.c`) | a listener per slot number | listen, connect, accept of three | three connects and three accepts meet |
| Copy buffers (`speedy_cb.c`, `speedy_circ.c`) | a ring buffer, end of file, write error | read, write, shift, data_segs, free_segs, adj_len, realloc | a queue of bytes; a read never meets a full buffer |
| Signals (`speedy_sig.c`) | `got_sig`, saved masks and handlers | init, wait, free, blockall | no signal is lost |
| Options, polling, utilities, Apache modules | – | – | – |

They interact in three ways only: through the temp file (always under its
lock), by signals (SIGALRM to a frontend: look again; SIGUSR1 to a frontend:
your status is there; SIGUSR1 to a parent: start a backend; SIGTERM to a
backend, SIGKILL to a parent: go away; SIGCHLD), and by the sockets between a
frontend and its backend.

What is hard here: any process may die at any instruction, with the file half
written, with its slots in lists, or as the one everybody waits for; a file may
be removed and made anew between `open` and `fcntl`; slot numbers are kept
without the lock; `kill(pid, 0)` is the only failure detector; the script may
be modified at any time; timeouts race requests. `PROJECT.json` lists each such
hazard at its line with the properties that cover it.

## The modules

| Module | What it is |
|---|---|
| `TempFile` | the life of the temp file, one action per step of `speedy_file.c` that another process can see, with crashes, forks and re-creation |
| `SlotStore` | what users of the file rely on: whole, taken by one, put back, dead for good if abandoned |
| `TempFileStore` | the refinement mapping; property `ImplementsSlotStore` |
| `TempFileProofs` | TLAPS proofs about `TempFile`, and that it implements `SlotStore` |
| `Slots` | `speedy_slot.c`: the slots, their doubly linked lists and the free list, as numbers in memory |
| `SlotLists` | what it promises: sequences, and slots that are held by nobody or by one |
| `SlotsLists` | the refinement mapping; property `ImplementsSlotLists` |
| `SlotsProofs` | TLAPS proofs about `Slots` |
| `GroupFile` | the contents of the file as one record and the functions of `speedy_group.c`, `speedy_backend.c`, `speedy_frontend.c`, `speedy_script.c` and of the parent as operators on it |
| `Dispatch` | frontends, backends and parents as processes that apply those operators |
| `DispatchProofs` | TLAPS proofs about `Dispatch` and `GroupFile` |
| `CircBuf` | `speedy_circ.c` and `speedy_cb.c` as operators on a buffer |
| `CopyBufProofs` | TLAPS proofs about the two layers of `CircBuf`: the ring buffer, and the copy buffer on it |
| `FrontendIO` | the copy loop of `speedy_main.c` with its background child, between stdin, stdout, stderr, the sockets, the backend and the script's children |
| `FrontendIOProofs` | TLAPS proofs about `FrontendIO` |
| `Request` | the message from the frontend to the backend: how it is built and taken apart |
| `PerlRun` | `onerun` of `speedy_perl.c`: reading the request and going to its directory, with all that the backend remembers of directories |
| `RequestProofs` | TLAPS proofs about `Request`: the message that is built, and the strings that are taken out of it |
| `PerlRunProofs` | TLAPS proofs about `PerlRun` |
| `Induction` | TLAPS: induction over numbers and sequences, and loops, for the proofs above |
| `MCTempFile`, `MCDispatch`, `MCSlots`, `MCFrontendIO`, `MCPerlRun` | symmetry, views and instances for TLC |

The layers, from below: `Slots` gives lists (`SlotLists`), which `GroupFile`
uses as sequences. `TempFile` gives a file that is one process's at a time
(`SlotStore`). `Dispatch` brings a frontend and a backend together. Then
`FrontendIO` is the frontend and `PerlRun` the backend of one request; the
part of the other is in each only as far as the protocol between them goes.

`SlotStore` is what ties the two halves together. `TempFile` says what happens
to a file, whatever is in it, in the finest steps: what a process does under
the lock is BeginUpdate ... EndUpdate with a death possible between. It
implements `SlotStore`, where a file is taken and put back whole. `Dispatch`
says what is in the file, and takes a whole section under the lock as one step,
which is what `SlotStore` allows.

### TempFile and the code

Each element of `Files` is a file that `file_name` names at some time, as its
inode and its `create_time`. `named` is what the path names, `flock` whom the
kernel has granted the `fcntl` lock, `lock_owner` and `file_removed` are the
fields of the header, `in_use` is what `file_close` tests (`group_head` or
`fe_run_head`), `torn` (not in the code) records that a writer is between two
writes. `pc` follows `file_lock`: `open`, `lock` (in F_SETLKW), `version`
and `owner` (in the two calls of `remove_file`, `_mark` after the `unlink`),
`verdict` (the test of `file_removed`), then `crit`, `update`, `done` under the
lock and `close*` in `file_close`. `claim` is the file in which slot numbers
that p holds are used, `listed` whether these slots carry p's own pid (a child
the script forked has its parent's).

`Fresh(f)` allows a file with no name and no holder to be created again: the
model has 3 files at a time but any number in sequence. That create_times differ
is an assumption about the clock. A `TmpBase` changed between two locks, and
the `SPEEDY_DEBUG` branch of `remove_file` that renames, are not modelled.
`EndUpdate` may leave the file empty only if no living process has its slots
in it: that is what `Dispatch!SlotsOwned` shows of the code that writes it.
(The one exception, a live backend disposed of after a failed connect, is below
the resolution of `TempFile`.)  `be_parent_spawn`'s forks before exec write
nothing and are part of an update.

### GroupFile, Dispatch and the code

One script, run with `Group=none`, so a group is a version of the script.
A slot is known by its process, a list of slots is a sequence. The record
`file` has the fields of the slots under their own names; `file.sigs` are the
signals pending at each process, since the functions that write the file send
them. `file.version[g]` is the mtime in the group's script slot, and 0 when it
has none, which is what `speedy_group_isvalid` tests. Every operator of
`GroupFile` is the function of that name; `alive` is what `kill(pid, 0)` finds,
zombies included; `me` is the caller. A loop along a list is given by what it comes
to. Such a loop ends at the first slot that stops it (the first that is alive, that
does not wait, that is another version's), so the operators name the set of slots
it passes and say what becomes of these, all at once: `CleanRunning`, `WaitList`,
`SendSigs`, `OtherVersions`, `CheckPrev` (where `IsSooner` is the order of `fe_prev`,
across groups). Removal keeps the order of the others (`Without`). `Reap` drops the
signals of a process that is no more.

Between two steps no process holds the lock. A frontend is at
`connect` (about to look for its group), `queued` (in `speedy_sig_wait`),
`woken` or `changed` (has its answer from `speedy_script_changed`, about to
lock), `again` (the round of `speedy_frontend_connect` was in vain),
`connected` (before `signal(SIGUSR1, ...)`), `running`, `failed` ("Cannot spawn
backend process"). A backend is at `born` (forked, before the loop), `arming`
(unlocked, handlers not yet set), `accept` (in poll), `accepted`, `perl`,
`leaving` (in `all_done`), and then a zombie, `exited` or `killed`, until its
parent waits for it. A parent is at `starting`, `stated` (has stat-ed the
script), `parsed` (has compiled it), `wait`, `serve`. `mem` is what a process
has in variables. Connecting is one entry in `conn[b]` for the three sockets;
the entry stays until the script has finished.

Time is a choice: RestatTimeout may have passed or not at each stat, a waiting
frontend may look again at any time (`BeCheckTimeout`), a backend's `Timeout` and
a parent's idle `alarm(10)` may strike at any time, each at most
`MaxTimeouts` and `MaxIdles` times. `MaxEdits` bounds modifications of the
script, `MaxFaults` the processes killed and forks failing.

Pids are a finite set; a pid is used again only when neither the file nor a
connection mentions it (`Forgotten`), so that pid reuse, which `kill(pid, 0)`
cannot see through, is excluded. A fork for which no pid is left fails, as
with EAGAIN.

Not modelled in `Dispatch`: named groups and several scripts, the content of
the request, the copying of I/O and the frontend's fork at its end, the
separate sockets, MAX_SLOTS.

### Slots and the code

The variables are the fields of `slot_t` and of the file's header: `next_slot`,
`prev_slot`, the `head` and `tail` of each list, `slot_free`,
`slots_alloced`. Slot 0 is none, as in the code. `where` is not in the code: it
is what the callers know of a slot, `free`, `held` or the list it is in. The
callers may do in any order whatever the rules of `speedy_slot.h` allow, and may
also free a slot twice, which `speedy_slot_free` is to catch. No links are
cleared but those the code clears, so that old ones are everywhere.
`speedy_slot_insert_sorted` is a loop of steps (`SortedBegin`, `SortedNext`,
`SortedEnd`); the others are one step each, all of it under the lock.
`Singly` are lists of which only the head is kept: the scripts of a group.
One caller does not go through `speedy_slot_remove`: `speedy_group_invalidate`
frees the scripts of its group from the head on, reading the next slot before each
free, and clears the head at the end. Here it is a removal at the head and a free,
slot after slot. The links are the same at the end: what a removal writes is the
head, and `prev_slot` of a slot that the next free overwrites.

`file_lock` extends the file by a chunk when it has less than `MIN_SLOTS_FREE`
(5) slots to spare, and `speedy_slot_alloc` dies at the end of the file. What the
code allocates in one section under the lock is at most 4: a frontend its slot,
a group, its name and a script; a parent a group, its name, a script and a
backend.

### FrontendIO, CircBuf and the code

A `CircBuf` is the C structure: memory, its length, where the data begins and
how much there is. `get_segs` gives the two pieces, `circ_realloc` moves the
shorter one when the memory grows, and memory nobody wrote holds `Junk`. A
byte is a number that says which byte it is, so order and loss are visible: the
script's own output is 1, 2, 3 ..., and negative numbers stand for the byte for
proto2 (`Wants`, `Not`) and for what a child of the script writes (`ByKid`), which
may come anywhere between. `Own(s)` are the places of the script's own bytes in
`s`, `Begins(s, n)` says that they come in order and once, `Whole(s, n)` that
all n of them have come.

`FrontendIOAssumption` asks that buffers, sockets and pipes have room for a byte
and that the header fits into the input buffer. The first are natural options
(`BufsizPost`, `BufsizGet` in `optdefs`; a socket always holds something); for the
second `speedy_main.c:206` makes `maxsz` of the input buffer at least what the
header takes.

Every `read`, `write` and `poll` of `doit` is a step, so that the script, its
children, the signal and both users of a pipe come between any two. `fe.pc`:
`io` (in the loop over the buffers, at buffer `i` with `do_read` and `do_write`
as in the code), `check` (the tests after it), `ack` (after
`speedy_frontend_collect_status`, before `got_sig = 0`), `poll`, `end`.
`Resume` skips the turns of the loop that have nothing to do. Of the backend there is
what the frontend can see: it reads the header, answers with the byte for
`speedy_frontend_proto2`, may wait for the path, and the script reads, writes,
closes, forks, ends or is killed. `BePosts` is
`speedy_backend_exited` by the backend or its parent, or nobody, when `poll` must
time out for the frontend to find it dead. After `fork` the background child is
the same `fe`, and `ended` says that the parent has returned; a fork that
fails also returns.

Left out: the shutdown of the socket for a terminal as stdin (`in_is_tty`), EINTR,
an I/O error other than EPIPE, and that the sockets may get the numbers 0
to 2 when those were closed at the start.

### PerlRun, Request and the code

A directory stands for its device and inode, `at` says where paths lead, and
`b` is what a backend keeps: its directory, `cwd_fd`, the `SpeedyCwd`
structures with their reference counts, `cwd_hash` by inode and by path,
and each script's `last_cwd`. `r` has the variables of `onerun`; each of its ways
to the directory is an action, in the order in which it tries them. What
`chdir_path` leaves uninitialised is any value (`Garbled`); `blind` records
that such a value was used. The request is built and read byte by byte by `Request`,
because which bytes separate its parts is what may go wrong; a
device and inode count as one byte, an int as two.

Left out: finding and loading the script (`load_script`, packages of a group),
the clean-up of Perl's state, symbolic links in the answer of `getcwd`.

## The runs

All run with 2 workers in at most three minutes.

| Run | Instance | What it asks |
|---|---|---|
| `TempFileSafety` | 2 processes, 3 files, 2 tries | types, the inductive invariant of the proofs, the four safety properties below, and that `TempFile` implements `SlotStore` |
| `TempFileUnlink` | same, *violation* | is the name that `remove_file` unlinks that of the file it has locked? |
| `Slots` | 3 slots, a list with a tail and one without, 2 ranks, 1 second free | are the lists, the free list and the file whole after any operations, and does `Slots` implement `SlotLists`? |
| `DispatchQueue` | 3 frontends, 2 backends, 1 parent, 1 group; MaxBackends 2, MaxRuns 2, 1 timeout, 1 idle alarm | competition: a queue of three, two backends serving twice and being replaced |
| `DispatchFaults` | 2, 3, 2, 2; MaxBackends 1, no MaxRuns; 2 faults, or 1 edit with 1 idle alarm | two deaths or failed forks anywhere, or the script modified; 3 backends since zombies and dead slots keep pids |
| `DispatchLive` | 2, 2, 2, 2; 1 fault, 1 timeout; fairness | every frontend comes to an end |
| `DispatchLost`, `DispatchStale`, `DispatchKill` | the smallest instance, *violation* | see Findings |
| `FrontendIO` | buffers of 2, 3 and 2 bytes that grow by one, sockets and pipes of 1 byte, seven loads; fairness | is what is written what comes out, and does the frontend return? |
| `FrontendHang` | the load with two odd events, *violation* | does it return whatever the script's children hold? |
| `PerlRun` | 2 scripts, 3 directories (one can be searched but not read), 2 paths, 1 odd event | does the request arrive, does the script run in the right directory, and are the cached structures consistent? |

The bounds are enough for what the properties are about. In `TempFile` the
interesting cases need one process that acts and one that left something
behind, a file locked, its removed predecessor and its successor: 2 and 3. Two
tries reach both "try again" and "could not open". In `Dispatch`, two
frontends give a head of the queue and one behind it, three make the middle one
die or leave; two backends are needed for an order in the list, and a second
group for invalidation, with a parent for each. `MaxRuns` 1 or 2 gives backends
that leave by themselves and, at 2, one of each maturity. A behaviour of
`DispatchFaults` has faults, or an edit and an idle parent (`LeftAfterFault`).
That only keeps the run small: the invariants of the proofs say nothing of what is
left of either but that it is a number, and that the edits left bound the script's
version.

Three slots are a list with two ends and something between, in one list or
in two, or a list of two with one slot free; the file grows once. The run was
also made by hand, on an earlier version, with four slots in one list (2.2 million
states). In `FrontendIO` a buffer of three bytes that starts empty and grows by
one byte (`MIN_READ` 1) wraps, fills up and is grown while it is wrapped; sockets
of one byte make every read and write stop somewhere. A load
bounds what goes in and out, and how many odd events there are: a descriptor
closed or a child forked by the script, a death, a reader that leaves. Two odd events
give the child that keeps a socket while another is closed. In `PerlRun`, two
scripts and two paths share and exchange structures, and the third directory is one
that cannot be opened; strings of lengths 0, 1, 2, 3 and 4 lie around
`MAX_SHORT_STR` 3. With two odd events (an earlier version, by hand, 11
million states) nothing else showed.

Processes of a kind, files and group slots are interchangeable, so the safety
runs use symmetry. The run with liveness does not. `MCTempFile!LiveState`
is a view that blanks values no step reads before writing them: the header
of a file nobody can reach, and a `file_create_time` that the next lock adopts
over.

`CHECK_DEADLOCK FALSE` in the `Slots` run: a process that died of an error does
nothing more. In the `FrontendIO` runs: a frontend that has returned does not
either. In the `Dispatch` runs: the system may stop. Nobody
need run another frontend, and with the bounds on time used up backends and
parents wait for ever; and dead frontends in `fe_run` may use up the model's
pids.

### What the safety properties say

- `MutualExclusion`: no two processes with `file_locked` in one file, despite
  fork, close and death.
- `NoTornRead`, `EntersLiveFile`: whoever passes `file_lock` has a whole file
  that is not marked removed.
- `HaveSlotsProtects`: from FS_HAVESLOTS a process comes back only into the file
  its slot numbers are from.
- `SlotsOwned`: whoever buries the dead leaves the living where they listed
  themselves. This is the property the whole design rests on: three kinds of
  process bury each other with no detector but `kill(pid, 0)`.
- `Paired`, `StatusComes`: a backend and the frontend it runs for name each
  other, and while they do a status is still to come, from the backend or from
  whoever finds it dead.
- `WaitingFirst`, `ValidFirst`: the two orders that let the code look only at
  the head of a list.
- `HeadIsTold`: only the head of a queue is told of a backend.
- `StartingEnds`: `be_starting`, which holds up everything in the group, names
  a process that will clear it, or will be found gone.
- `NoEarlySignal`: SIGUSR1 never reaches a parent that would die of it.
- `OneConnection`: the three accepts are of one frontend.
- `MaxBackendsKept`: the limit holds for the processes of a group, not only for
  its slots.
- `Served`: every frontend that was run gets a status or gives up.
- `WellLinked`, `FreeList`, `FreeSeen`, `RoomInFile`: what `speedy_slot.c`
  takes for granted of the numbers in its slots. `ImplementsSlotLists` says what
  it does for its callers: an operation moves the slot it names, and no other.
- `OutputInOrder`, `InputInOrder`: every byte once and in its order, over socket,
  buffer and pipe, whatever the buffer goes through.
- `OutputComplete`: all of the script's output was written before the frontend
  returns, although it learns of the backend's end by signal, that is before, while
  or after it reads that output.
- `RoomToRead`: `readv` is never given a full buffer, whose 0 is the end of file.
- `NoClosedFd`, `CwdAnswered`: a descriptor is closed only when no buffer, poll
  set or second half of the protocol needs it.
- `ExitsWithBackend`, `ExitsWithoutChild`: the frontend returns after the
  backend's end; also when a child of the script keeps both outputs.
- `StreamsFlow`: no stream is held up by what happens to the others.
- `RequestArrives`, `NeverRunsPart`: what the script gets is what the frontend
  was run with, but for empty arguments, which are lost; a request that was cut
  off is not run (but for its last bytes, the directory).
- `RightDirectory`: the script runs in its frontend's directory, whatever
  earlier scripts did. It has two premises that the code needs too: the paths the
  backend remembers still lead where they led (`Trustworthy`), and no
  uninitialised inode was used (`blind`).
- `NoDangling`: the hash, the scripts and the counts agree with what is in memory.

For each there is a mutant of the model, a plausible slip in the code
(`\* (A slip: ...)` in the modules), that TLC finds to violate it.

### Fairness

`FairSpec` asks that a process that can go on does so, and no more: that is
the scheduler. A frontend that waits can always go on, because of its
`alarm(BeCheckTimeout)`, and one that runs looks again every 5 seconds. Nothing
is fair about frontends being run, edits, crashes, timeouts of backends or idle
alarms. `Fairness` is weak fairness of each process's steps, with the
enabledness spelled out (`FrontendCanGoOn` and so on), since TLC takes far too
long to evaluate `ENABLED` of these actions.

`FrontendIO!Fairness`: the frontend takes steps until it has returned, or its
background child has (`FrontendRuns`, which is weak fairness, as the frontend always has
a step: `poll` times out); a pending signal arrives; the end of a backend is noticed
by its parent or by `kill(pid, 0)`; and whoever reads stdout and stderr goes on or
leaves, without which nobody could promise an end. Nothing is fair about
the script, its children or the writer of stdin.

What `Served` takes from the bounds: without a bound on idle alarms a parent
could exit each time it is about to be asked, and a run with edits lets two
frontends that go by different versions (one of them before its RestatTimeout)
invalidate each other's group for as long as that lasts. So `DispatchLive`
has no edits and no idle alarm.

## What is proved

`TempFileProofs`, for any number of processes, files and tries, from the
assumptions `NoProc \notin Procs`, `NoFile \notin Files`, `MaxTries \in Nat \ {0}`:

- `TypeCorrect`, `InvariantHolds`: `Spec => []TypeOK`, `Spec => []IInv`;
- `MutualExclusionHolds`, `NoTornReadHolds`, `EntersLiveFileHolds`: the three
  invariants;
- `HaveSlotsProtectsHolds`: the action property.

None of the three invariants is inductive. Mutual exclusion follows from the
relation between the kernel's lock and the program counters, in both
directions: the holder of a lock is in code that runs under it, with that file
as its descriptor (`HolderIsInside`), and a process in such code is the holder
(`InsideIsHolder`). For torn files one needs in addition that `lock_owner` is
set whenever somebody is inside or a file is torn (`OwnerGuards`), and that
`file_lock` comes to its verdict only on a file that is removed or has no
owner (`VerdictIsSound`); from these, that whoever enters finds the file whole
and not removed, and that it stays so (`SectionIsSound`): removal happens
only by the lock's holder, which is not in the section. `CreateTimeGuards` adds that in FS_HAVESLOTS the
remembered create_time is that of the file the slots are from, and that a
process that gets past the comparison with another one has marked it removed. There is one lemma per conjunct
(`TypeStep`, `HolderStep`, ...), each with one case per action, since each
needs only some of the others.

`SlotsProofs`, for any number of slots, lists and ranks, from
`SlotsAssumption`: `TypeCorrect`, `ListsWellLinked`, `FreeListHoldsTheFree`,
`DoubleFreesAreSeen`, `MinSlotsFreeSuffice`, each `Spec => []X` for the property
that the run checks. That neighbours agree is not inductive. Two slots
linked in a ring agree as well; take one out, and the other is linked to itself,
which is the mark of a free slot. So the invariant (`Chain`) says in addition
that the slots of a list can be numbered upwards along its links. There is a lemma
for each thing that is done to links (`RemovedChain`, `InsertedChain`, with
`InsertAtChain` for the sorted insertion, whose loop is in the invariant as
`WalkOK`), and with the links out of the way each action is a short case.

`CopyBufProofs`, for buffers of every size, with the data anywhere, first the ring: a
circular buffer is a queue. `WriteTakesFirst` and `ReadAppends` say what the two ends
do, `GrowthKeepsData` that `circ_realloc` keeps every byte at its place in the order,
in all three ways it moves them, and `GrowthMakesRoom` that `cb_read` has room for a
byte whenever `cb_canread` says so, and does not grow beyond `maxsz`.
The argument is in `At`, the cell of the k-th byte: segments, wrapping and moving
are each reduced to it by a lemma.

Then the copy buffer on it:
`CbReads` says that `cb_read` appends what it takes, grows the memory without
losing a byte and takes "nothing" for the end of the file only when nothing is there
and nobody can write more; `CbWrites` that `cb_write` takes bytes out at the
front, also where it frees the memory. `IsCb(cb, maxsz)` is the invariant of a copy
buffer, and `Data(cb.circ)`, its bytes in order, is all that the theorems show of
the ring.

`FrontendIOProofs`, for buffers, sockets and pipes of every size, every header
and every load, from `FrontendIOAssumption`: all six safety properties that the run
`FrontendIO` checks, and its types (`FrontendTypes`, `StdoutInOrder`, `StdinInOrder`,
`NothingLeftBehind`, `ClosedStayAlone`, `NeverReadsIntoNoRoom`, `CwdIsAnswered`).
The invariant, `IInv`, which was also checked by TLC on the instance of the run,
is a conjunction of what each part of the loop relies on:

- `Types`, `Buffers` (`IsCb` for each of the three), `Turn` (in the loop there is
  something to read or write where `do_read` and `do_write` say so), `DoneWith` (what
  is closed has met its end, or a write error), `Signals` (a byte is in the signal
  pipe whenever it is read), `Lives` (what each process knows of the
  other's end is true);
- `Input`: what the backend got, its socket, the buffer, and a rest make up stdin
  so far, with no rest unless the backend's end was shut. `StdinInOrder` speaks of
  a prefix then, which is not inductive: without the rest, nothing says that the
  bytes after the prefix are those that come next;
- `Output`: the same for stdout and stderr, with `Whole` and `Begins`, and no byte
  for proto2 in what has come out;
- `First`: until `got_stdout`, nothing of stdout has been read and the first byte
  in its socket, if there is one, is the one for proto2. Without this, that byte could
  be taken out of the middle of the output;
- `Eofs` and `Emptied`: an end of file that was seen is one, and once the backend has
  been found to have exited, a socket in `read_stopped` has nothing of the script in it.
  From this `OutputComplete` follows, although `ended` may be set with a child of
  the script still writing. It rests on `read_stopped` being reset with the "ack":
  what was read before that says nothing.

One lemma per action (`ReadStep`, `WriteStep`, ... `ProduceStep`) preserves `IInv`.
The frontend's steps go through what `Continue`, `Resume` and `try_close` do to
any state (`GoesOn`), so that the loop is reasoned about once; a read or write is
`CbReads` or `CbWrites` and a regrouping of concatenations.

`PerlRunProofs`, for any directories, paths, scripts and requests, from
`PerlRunAssumption`: `TypeCorrect`, and `NothingDangles`, that the hash, the scripts
and `onerun` point to structures in memory, under their own key, counted once
for each script. The difficulty is a structure that `cwd_new` made and nothing counts
yet, put into the hash over another that is freed right after: `Pending` is what holds
between the two, `StoreLast` that `store_last_cwd` makes it `Consistent` again,
also when the old and the new structure are the same. There is memory for
one structure more than there are scripts (`FreeId`), which is the `Ids` the
assumption asks for and not a limit of the code.

Then the request, in the same module: `RequestArrivesAlways` and
`NeverRunsPartAlways`, for environments and arguments of any number and length. The
invariant (`Arrival`) says what is still to come. While the environment is
read, it is some strings read so far (`EnvOf(done)` is the hash), and in `in` a
message with the rest of them, the arguments, the script and the directory
(`EnvComes`; `ArgvComes` and `ScriptComes` after it); of that message `in` has all, or,
if the frontend died, some first part (`PartOf`), or a string was cut off and nothing is
left (`Lost`). `Lost` is what keeps a part of a string from being more than
that: the list it was in does not end, so the backend exits. The one thing that
may be missing from a request that runs is the directory, and such a run ends at
"ask", where its frontend does not answer, if it has no other way to go.

And where it goes: `RightDirectoryAlways`. What onerun was told of the directory leads
there until a directory is moved (`Headed`): the path in the name of the script, the
device and inode, or the answer of the frontend; an answer of "none" means that there was
no path. One lemma for each way to go there follows (`ScriptRight`,
`QuickGoesRight`, `LastRight`, `HashRight`, `AnswerRight`); `QuickRight` is `quick_cd`
itself, which is right whenever what it compares was set. A structure that is gone to
stays what it was when it is stored (`StorePlace`), so that what is trusted of it afterwards
holds before. The hypotheses of `RightDirectory` are those of the code: it does not look
at what a remembered path leads to now, and `quick_cd` compares with what was on
the stack when a directory cannot be opened for reading.

`RequestProofs` is what this rests on: `MkenvBuilds`, that the loops of
`speedy_frontend_mkenv` make `Message` and that memory was always enlarged before
it was written to, and `GetStringTakes`, that `get_string` is the inverse of
`add_string` also at `MAX_SHORT_STR`, and what it does with a part. Both, and that a
string more in the environment is one assignment more (`EnvOfAppend`), are
inductions over the list of strings. The induction theorems of the library take a
property as a parameter, which none of the provers can instantiate. `Induction` states them
for a set instead (a set of sequences that has the empty one, and with `l`
also `Append(l, e)`, has all), from the well-foundedness of `<`; where the code has a
loop, `LoopsAgree` says that two recursive functions with the same start and the same
step are the same.

`DispatchProofs`, for any numbers of frontends, backends, parents and groups, any
options, faults and edits, from `KindsAssumption` and `BoundsAssumption`: the eleven
safety properties that the runs `DispatchQueue` and `DispatchFaults` check of
`Dispatch`, each `Spec => []X`: `TypeCorrect`, `SlotsOwnedHolds`, `PairedHolds`,
`StatusWillCome`, `WaitingInFront`, `ValidInFront`, `OnlyHeadIsTold`,
`NoEarlySignalHolds`, `OneConnectionHolds`, `StartingWillEnd` and `MaxBackendsHolds`.
All follow from one invariant (`InvariantHolds`), `IInv`, which says of the processes what
they may be at (`ProcsType`), and of the file that it fits them (`Sound`). TLC checked it
on the instances of the runs before it was proved. Its parts beyond the properties
themselves:

- `OnceOK`, `ApartOK`, `FreeOK`: no slot is twice in a list or in two, and a free
  group slot has been wiped. Without these, taking a slot out of a list would not
  take it out of the file, and a new group could come with an old parent.
- `QueueOwn`, `RunOwn`: the converse of `SlotsOwned`. In a queue are only those
  that wait and those that are gone, so a frontend that is passed over as dead is
  not one that has its backend by now; a slot outside `fe_run` names no backend.
- `WaitingOK` has an exception, L: the backend that `speedy_backend_be_wait_get`
  has moved to the tail looks, until `fe_running` is set, as if it waited behind
  a busy one.
- `ConnOK`: there is nobody in the backlog of a backend that waits, is new, or is
  gone. So a connection is never the second (`OneConnection`).
- `NamedOK`, `InstalledOK`, `AskedOK`, `NewOK`, `ComesOK` are what `StartingEnds` rests
  on. A parent in `be_starting` is the one in `be_parent`; a valid group's parent
  works for that group (not so of an invalid one, see Finding 4); it has
  a SIGUSR1 pending or on its way, *and* there is room below MaxBackends: else
  it would take the signal, start nothing, and leave `be_starting` as it is. That
  in turn needs that a group without a parent has no backends.
- `StartsUpOK`: a parent that starts up in `be_parent` is also in `be_starting`, where
  `speedy_group_start_be` sees it and does not send SIGUSR1.

A section under the lock is a chain of calls, and the proof goes along it. `Sound(s, L, P,
M, C)` speaks of a file s and of processes that may be those before the step, after
it, or in between; for each function a lemma says that it takes a sound file to
a sound one (`DisposeSound`, `InvalidateSound`, `CleanupSound`, `QueuedSound`, ...),
and for each of the four ways in which a process may change, that the same file still
fits (it ends, it moves on, it connects, it is started). An action is then its
functions in a row (`FrontendKeeps`, `BackendKeeps`, `ParentKeeps`). A conjunct of
`FileRest` takes just the fields it is about, so for most functions most conjuncts are
unchanged on sight. Lists are never reasoned about by index: `Range` and `InOrder`
(who stands in front of whom) say all that the properties ask, with one lemma each for
what appending, removing, taking the head or the insertion of `WaitPut` does to them.

`TempFileProofs` also has `StoreImplemented`: `TempFile` implements `SlotStore`. From
the invariant, each action is classified by what it does to
one file (`FreshStep`, `BusyStep`, `DeadStep`), and these give the step of
`SlotStore` for each file at once.

None of the theorems uses fairness. Some definitions have the form they have for
the provers: recursion is in functions and folds, and what is read from a truncated or
garbled request is a set (`ReadAs`).

### Model-checked only

- Liveness (`Served`, `ExitsWithBackend`, `ExitsWithoutChild`, `StreamsFlow`):
  beyond the prover.
- The refinement of `SlotLists`: the sequence of a list goes along its links, and every
  operation would need an induction along them. What the refinement needs of the
  links (`WellLinked`, `FreeList`) is proved.
- The properties of the runs that expect a violation, of course (`NoLostRequest`,
  `CodeIsCurrent`, `KillsOwnParent`, `UnlinksLockedFile`, `ExitsAlways`).

## Findings

Each is a run of its own that TLC finds violated, with the quotation in
`PROJECT.json`.

1. `TempFileUnlink` – `remove_file` unlinks the path, not the locked file. A
   process that opened the file, waited for the lock while the file was removed
   and replaced, and then finds the mark of a dead writer, removes the name of the
   healthy successor, with the groups of others in it.
2. `DispatchLost` – a backend that times out (or gets SIGTERM) as a frontend
   connects exits without a second look, unlike the outline in
   `docs/prog_outline.txt`; the frontend ends as if its script had run.
3. `DispatchStale` – the script is stat-ed again after `perl_parse`; modified
   in between, the old code goes into the group of the new version.
4. `DispatchKill` – `speedy_group_cleanup` kills a parent that has since
   installed itself in another group.
5. `FrontendHang` – to return before its outputs end, the frontend wants
   `read_stopped` of both sockets, which it resets when it learns of the backend's
   exit. A socket that was at its end before is not read again, so it stays unset;
   if a child of the script holds the other one, the frontend waits for the child.

Other things the models brought up, which no text of the repository denies:

- A frontend that has looked for its status in vain goes to FS_OPEN but keeps its
  slot number; below FS_HAVESLOTS any file is adopted, so the number may
  be used in another file (`speedy_main.c:392`).
- A parent woken by its idle alarm exits though a SIGUSR1 has come since; the
  frontend that sent it finds nobody starting and reports "Cannot spawn backend
  process" (`speedy_backend_main.c:258`).
- A directory that can be searched but not read leaves the inode uninitialised
  that `chdir_path` is to store: it tests `cwd_fd` the wrong way round
  (`speedy_perl.c:337-347`).
- A backend goes by remembered paths without a look at where they lead now, so
  after a rename a script may run in the wrong directory
  (`speedy_perl.c:727-739`). When `getcwd` fails in the frontend the
  script runs in the directory of the previous request.
- Under Apache, a script directory that cannot be entered makes the backend go
  through a null pointer (`speedy_perl.c:704-708`).
- Empty arguments do not reach the script (`speedy_frontend.c:534`).

MaxBackends, which `optdefs` says is per script, is counted per group, so per
version of a script: `MaxBackendsKept` states what the code does.

## Not modelled

- Options (`speedy_opt.c`): parsing. Its values are constants of the models
  (MaxRuns, MaxBackends, BufsizGet) or choices (timeouts).
- The Apache modules: the same frontend functions, with Apache for the I/O; they add
  no state that outlives a request. `SPEEDY_CWD_IN_SCRIPT`, which only they
  send, is in `PerlRun`.
- Named groups, in which scripts share an interpreter; `load_script`, and the
  clean-up of Perl's state after a run.
- The socket files of `speedy_ipc.c`, and a connect of which only some of the three
  parts succeed.
- The nesting of saved masks and handlers in `speedy_sig.c`. What its callers rely
  on (a signal between the unlock and the wait is not lost) is in `Dispatch`.
- `poll` against `select`, system call wrappers, headers, build files.

## Plan

Done: the temp file, slots, dispatching, the copy loop and its buffers, the request
and the directory, and proofs about all of them. To come, in this order:

1. `Broker`: what dispatching promises – a request is waiting, given to one
   backend, served or dropped, and answered once – with `Dispatch` shown to
   implement it.
2. Named groups: the rule by which a group is found for a script, and the backend's
   cache of scripts.
3. `Signals`: `speedy_sig.c` with masks, saved handlers and nesting.
