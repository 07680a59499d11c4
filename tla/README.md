# A verification development for the CS334 operating-systems programs

The repository is a collection of course programs: two thread laboratories in C,
a web server with a worker pool, simulators of file systems, RAID arrays and
disks in Python, and a few Unix utilities. This directory holds TLA+ models of
the parts with logic of their own, TLC configurations that check them on small
instances, and proofs that the TLA+ proof system checks. Every definition is
translated from the code; `PROJECT.json` maps each one to the lines it stands for.

Contents: [Inventory](#inventory), [Modules](#modules), [Runs](#runs),
[Fairness](#fairness), [Proofs](#proofs), [Disagreements](#disagreements-found),
[Not modelled](#not-modelled), [Plan](#plan).

## Inventory

### threadlab: two monitors

*State.* `struct reaction`: `numH`, `numO`, a lock and the conditions `HSleep` and
`OSleep`. `struct station`: `waitingPassenger`, `standing`, `numSeats`, a lock and
the conditions `waitForTrain`, `waitToSeat`, `waitForPass`. Each runner has counters
of its own (`water_molecules`, the atoms whose call returned; `threads_completed`,
`load_train_returned`).

*Operations.* `reaction_h`, `reaction_o`; `station_load_train`,
`station_wait_for_train`, `station_on_board`. `thread.h` wraps pthread locks and
conditions.

*Interaction.* One thread per atom or passenger, one per train; the runner's `main`
creates them, polls counters without the lock, and calls `station_on_board` (and,
three times, `station_load_train`) itself.

*Hard.* A waiter wants the lock again after its signal, and others may enter first;
`make_water` raises a counter that `main` reads without the lock, before anybody is woken;
`reaction_h` and `station_wait_for_train` wait without a loop; `station_load_train`
tests its condition once and sleeps afterwards; the runner's `usleep` stands for a
join, its alarm for "this must end".

*Correct when* no wakeup is lost, every molecule uses two hydrogens and one oxygen,
whatever can react does; a train is never oversold, leaves with nobody standing, and
calls passengers one at a time; `main` never hangs.

### webserverlab: a server with a bounded queue

*State.* A linked list with a limit, a mutex, the conditions `queue->full` (for
`main`) and `queue->sleep` (for workers); one `connection` in `main`'s hands, one
`request` in each worker's.

*Operations.* `main`: accept, `view_request` (reads the request line, stats the
file), wait while full, insert by `FIFO` or `SFF` (insert, then sort in place),
signal. `worker_thread`: wait while empty, signal `full`, `pop`, `request_handle`,
close, unlock a second time.

*Hard.* Signals are sent before the change they announce and under conditions of
their own; the mutex is released twice; the sort rotates the whole queue for each
position; `main` blocks on one client's request line.

*Correct when* each connection is in exactly one place, no worker sleeps through
work, the queue has the scheduler's order, everyone is served.

### Final_Review_Code: simulators

- `HW-VSFS/vsfs.py`: bitmaps with cached counts, inodes with reference counts, data
  blocks; create, mkdir, link, append, unlink, driven by a generator that remembers
  names outside the disk. Hard: full disks and directories, the roll-back of mkdir,
  numbers that are used again, keys that unlink leaves behind.
- `HW-LFS/lfs.py`: a log with a checkpoint region, an inode map in memory and in
  chunks on disk; create, mkdir, link, write, unlink, sync; blocks shown as live or
  dead. Hard: which chunks an update must write, a checkpoint that lags behind,
  counts that are read through an old map, addresses fixed before they are logged.
- `HW-Raid/raid.py`: four mappings from blocks to places, requests split into
  stripes, parity by subtraction or addition. Hard: the arithmetic at its edges.
- `HW-FFS/ffs.py`: two bitmaps per block group, two counters, the tables of inodes,
  directories, names and symbols; file, dir and delete, with options for where inodes
  and blocks go, and `do_verify` after each command. Hard: tables changed one after
  another, places computed from numbers and back, searches that must meet every group
  once, a loop that must end.
- `HW-Disk/disk.py`, `disk-precise.py`: a queue of requests, the window of those that
  may be chosen, the phases of the current one with their times; four policies, late
  requests, a start key. Hard: a window that moves as a side effect of being asked for,
  a queue that grows while it shrinks, angles that wrap (and that the decimals of
  `disk-precise.py` cannot wrap).
- `HW-Checksums/checksum.py`: additive, xor and Fletcher checksums of one list.

They are sequential; what is hard in them is long sequences of legal commands, and
several tables that must agree after each.

### The rest

`utilitylabORIGINAL` (`my-cat`, `my-grep`, `my-zip`, `my-unzip`, and a second copy in
`utilitylab-submit`) and `Fork()` (two exercises with one `fork` each) keep little
state. `io_helper.[ch]`, `wclient.c`, `spin.c` are wrappers, a client and a CGI
program.

## Modules

| module | models | role |
|---|---|---|
| `Monitor` | `thread.h` | what a signal, a broadcast and a spurious return do to the set of blocked threads |
| `Reaction` | `reaction.c`, thread bodies | detailed |
| `Molecules` | what `reaction.c` promises | abstract; `Reaction` is shown to implement it |
| `ReactionRunner` | `main` of `reaction-runner.c` | composes `Reaction` with its caller |
| `Station` | `train.c` | detailed, open: any caller may send trains and seat passengers |
| `TrainRunner` | `main` and threads of `train-runner.c` | composes `Station` with its caller |
| `ConnectionQueue` | the list and the schedulers of `wserver.c` | pure operators on sequences |
| `WServer` | `main` and `worker_thread` of `wserver.c` | composes queue and threads |
| `Namespace` | what a file system promises | abstract; all three file systems are shown to implement it |
| `Vsfs` | `vsfs.py` | detailed |
| `Lfs` | `lfs.py` | detailed |
| `Ffs` | `ffs.py` | detailed |
| `RaidMapping` | the block and parity mappings of `raid.py` | pure operators on an array's parameters |
| `Raid` | requests, disks and workload of `raid.py` | detailed |
| `Disk` | `disk.py`, and where `disk-precise.py` behaves otherwise (`GetWindow`, the wrapping of angles in `DoSATF`) | detailed |
| `ReactionProofs`, `StationProofs`, `WServerProofs`, `VsfsProofs`, `LfsProofs`, `FfsProofs`, `RaidProofs`, `DiskProofs` | | theorems and proofs |
| `MC...` | | the instances that TLC checks |

**Threads.** A condition variable is the set of threads blocked on it; `cond_signal`
removes any one, so the order of wakeups is left open. Everything between taking the
lock and waiting or releasing is one action where only the lock's holder looks at the
state; a thread that was released from a condition is no longer in its set and
takes its next step, the rest of `cond_wait` and what follows, when it gets the lock.
Other threads may come first. In two places somebody else is involved. `main` of the
reaction runner reads `water_molecules` without the lock, so `reaction_o` is cut after
`make_water` (`MakeWater`, then `WakeHydrogens` with the counters and the two signals);
in between the oxygen holds the lock, and nobody enters or returns (`LockFree`).
`WServer` keeps the mutex as a variable, because its second unlock is about who holds it;
`pop` is cut in two for the same reason.
`SpuriousWakeup` is the return from `cond_wait` that POSIX allows without a signal;
it belongs to `SpuriousSpec` only, see [Proofs](#proofs).

**Runners.** `main`'s polls and comparisons of shared counters are actions of their own,
so that a thread may run between two of them. `alarm` and the time limits of the train runner
are replaced by the statement that what they guard against does not happen. The draw
of a random atom or number of seats is a choice.

**Server.** A connection is its number in order of arrival, and the fields that come
from its request line are reduced to the size `stat` reports, or to the refusal when
`stat` fails. `request_handle` has no effect on the queue and is the step between
`pop` and `close_or_die`. `limit`'s substitution for values that are not positive is
`EffectiveLimit`. The second unlock frees the mutex whoever holds it, as the default
mutex of glibc does; a thread that locks while another is inside makes `exclusion`
"broken". From then on accesses to the list race, which C leaves undefined; the model goes
on with the outcomes in which each list operation takes effect as a whole, which shows
the double pop, and the properties of the queue are stated up to that moment.

**File systems.** A path is the sequence of its components. In `Vsfs` a directory block
is a set of entries, as nothing but the dump looks at their order; the byte that a block
of a file holds is left out. In `Lfs` a directory block keeps its slots, because the
first free one is used, and the log is kept whole, with the checkpoint region as its
first block and addresses that count from it; the contents of data blocks are left out,
and so is the dump with its marking of live blocks. Python's index -1, the last block,
is kept (`At`). A command that only reports an error leaves the state alone and has no
action; one that ends in an assertion or exception sets `failed`, and no command follows
it. The workload generators' percentages become a free choice of the next command.

**Name space.** `Namespace` says, without inodes or counts, that names are bound to
file numbers, that a number given out has no name left from its former life, that a
link shares contents, and that contents disappear with the last name. The refinement
mapping of `Vsfs` and `Lfs` computes the tree by walking the directory blocks, so that
a directory entry that is wrong or stale shows. `Lfs` maps the file system in memory;
what the disk alone would give is the subject of `CheckpointIsCurrent`.

**Block groups.** `Ffs` keeps a bitmap per group with the owner of each place, as the
code does with its symbols; the loop of `allocate_blocks` is a recursive function over
its turns. An assertion or exception sets `error` to its kind, and no command follows.
`do_delete` computes the places of a file with the number of groups where `do_create`
used the sizes of a group, and `pick_group` may return a full group with `-A`; what
follows is arbitrary damage, so `strayed` remembers that one of the two has happened,
and the properties say what holds until then and that nothing else goes wrong.

**Disk.** The variable `d` is the `Disk` object, and operators on it are named for its
methods. A step is one call of `Animate`, whose parts follow one another as in the code,
with what they call (`DoneWithTransfer`, `GetNextIO`, `AddRequest`, the statistics).
An assertion or exception sets `failed`; under the start key it is one of a callback,
which Tk reports, and the disk goes on. `disk-precise.py` computes the angle of arrival
as a decimal and reduces it by a float: where `disk.py` wraps, it ends (`Wraps`).
`GetWindow` changes the window when it is asked, so it yields a state. Speeds are
integers, so angles are. `StartAgain` is the key "s" on a disk that is busy.

**RAID.** `RaidMapping` has an array's parameters as the argument of every operator.
`Raid` adds the splitting of a request into physical I/Os (`issued`) and the disks'
positions, counters and busy time in tenths of a millisecond. An address that is not
on its disk fails the disk's assertion in the middle of a request (`failed`). The chunk
need not divide a disk: its last row of chunks may be torn.

**Mutations.** Definitions with a suffix after an underscore and the comment "Mutation"
are plausible bugs in the definition that follows them. They take part in no
specification; with one of them in its place, the property it is listed with fails.

## Runs

Bounds are constants of the `.cfg` files. The runs finish within seconds to a minute and
a half.

| run | instance | states | shows |
|---|---|---|---|
| `reaction` | 6 threads out of 4 hydrogens and 3 oxygens | 106,493 | wakeups, counters, stoichiometry, refinement of `Molecules`, termination, what the runner may report |
| `train` | 4 passengers, trains of 0 to 4 seats, any number of trains | 13,960 | seats, standing passengers, one call at a time, `main` never hangs |
| `wserver` | 4 connections, 2 workers, queue of 2 or unlimited, FIFO and SFF, two file sizes | 621,080 | mutual exclusion but for the second unlock, and until then no connection lost or doubled, no sleeping through work, order, everyone served |
| `vsfs` | 3 names, depth 2, directory blocks of 4 entries, disks with inodes x blocks 1x2, 2x1, 5x3, 4x4 | 16,610 | bitmaps, link counts, remembered names, refinement of `Namespace` |
| `lfs` | 3 names, depth 2, directories of 2 blocks with 2 slots, 2 chunks of 2 inodes, at most 16 blocks before a command | 17,821 | kinds of blocks, link counts, checkpoint, refinement of `Namespace` |
| `ffs` | 14 disks of 2 or 3 groups under every option, paths `a`, `b`, `a/b`, `a/c`, files of 0, 1 and 3 blocks, 4 symbols | 58,816 | tables against each other, causes of every error, placement, refinement of `Namespace` |
| `raid` | 21 arrays, requests of 0, 1, 3 and 7 blocks beginning below 15, two in a row, disks of 9 blocks, chunks of 1, 2 and 4 | 39,594 | places, splitting, parity, when a disk's assertion fails |
| `disk` | 13 combinations of policy, window, variant and geometry, 5 queues of up to 3 requests, up to 3 late ones, the start key pressed once or twice | 92,147 | window, times, every request is served |
| `train_late` | as `train` | | violated, see below |
| `wserver_one_buffer` | as `wserver`, `-b 1` | | violated |
| `wserver_unlock` | as `wserver`, queue of 2 | | violated |
| `lfs_link` | inodes found through the checkpoint region (`-D`), directories of depth 1 | | violated |

*Why these bounds.*
- `reaction`: a lost wakeup needs an oxygen that sleeps, a second one that barges in,
  and four hydrogens; three oxygens and four hydrogens, in every proportion of six,
  include too few and too many of each kind.
- `train`: a passenger left behind needs one that boards, one that stands and one that
  comes late, a fourth makes trains that are too small as well as too large. Trains
  are not counted: `main` repeats until nobody is left.
- `wserver`: with two workers and a queue of two, `main` can be asleep while one worker
  is about to sleep and the other about to signal; four connections fill the queue
  with one left for `main` and one for a worker. With the unlimited queue SFF sorts up
  to four of two sizes, so equal and different sizes occur in all orders.
- `vsfs`: the geometries are one per way to fill up; a directory block of four entries
  is full after two names; three names and depth two give a file with three links in
  two directories.
- `lfs`: two chunks and two inodes in each is the smallest map in which an update may
  or may not cross chunks; a directory's first block is full with `.` and `..`, so its
  second block comes with its first name and it is full after two; a log of sixteen
  blocks before the last command is four to seven commands. The option combinations
  are forced checkpoints, put-off checkpoints, and random inode numbers.
- `ffs`: with as many blocks and inodes in a group as there are groups, `do_delete` is
  right and everything may be asked; two more disks have it wrong in either table, one
  has `-A 2`. Three groups are the fewest in which a search to both sides differs from
  one to a side and a large file goes round; four symbols are one fewer than the names
  and the root, so they run out; size 0 is the one with which the loop never ends well.
- `disk`: a tick is 30 degrees and a turn twelve of them. The queues hold neighbouring
  blocks, the two ends of a track, the same block twice, and none; windows of 1 and 2
  are smaller than the queues with their late requests, which come before, at and after
  the end of a batch. One disk's block sizes do not divide the turn.
- `raid`: the mappings repeat after `numDisks * (numDisks - 1)` chunks in RAID 5, at
  most twelve; requests of seven blocks cross two ends of stripes and cover whole ones.
  Nine blocks to a disk leave the last row whole with chunks of one and torn with chunks
  of two and four; on the smaller arrays requests begin before, in and behind it.

Deadlock is not checked, because every program here stops: atoms and passengers return,
clients are finitely many, a disk is full, a log is at its bound. That nothing stops
too early is what the liveness properties and, for `ffs`, `ErrorsAreExplained` say.

*Symmetry* of names is used for `vsfs` and `lfs`, where nothing compares names
and no liveness is checked.

## Fairness

- `ReactionRunner`, `TrainRunner`: weak fairness of each thread's next step. A thread
  that can run does in the end, and one that wants the lock gets it, because every
  critical section is finite and ends with a wait or a release. (An oxygen that has made
  its molecule keeps the lock for one more step, and each does so once; so weak fairness
  still suffices.) No fairness is assumed of which waiter a signal takes.
- `WServer`: weak fairness of `main` and each worker, and strong fairness of taking the
  mutex, since others may take it again and again in between. Fairness of `main`
  includes that a connected client sends its request line, because `main` reads it
  itself; a silent client stops the whole server, and the model does not hide this.
  `EveryoneIsServed` is about behaviours in which the mutex is not broken.
  It is stated through `MainTurn`, the control of `MainStep`, which is enabled in the
  same states and, under `Next`, the same steps: otherwise TLC sorts the queue anew for
  every state to learn whether `main` can run.
- `Disk`: weak fairness of `Go` and of `Animate`. `main` calls the first, and the second
  either loops or schedules itself again; the start key may be pressed but need not be.
- File systems and RAID: none; only safety is stated.

## Proofs

Eight modules prove theorems about a component, for every value of its constants. Each
begins with what it needs to know of quotients and remainders, induction, sequences and
functions defined by recursion, so it can be read and checked by itself.

| module | theorem | statement |
|---|---|---|
| `ReactionProofs` | `TypeCorrect` | type correctness, with spurious wakeups (`SpuriousSpec`) |
| | `WakeupNeverLost` | `NoLostWakeup`, with spurious wakeups |
| | `CountersAgree` | `CountsMatchThreads` |
| | `Stoichiometry` | `TwoHydrogensPerOxygen` |
| | `AllThatCanReactDid` | `NoMissedReaction` |
| | `ReactionImplementsMolecules` | refinement of `Molecules`, without fairness |
| | `ReportsAreLateThreads` | `FaultReportsAreLateThreads`, about the runner |
| `StationProofs` | `TrainTypeCorrect` | type correctness of the program |
| | `CountersCorrect` | `CountersAgree` |
| | `CalledOneByOne` | `OneCalledAtATime` |
| | `NoTrainOversold` | `SeatsNotOversold` |
| | `EveryoneSitsBeforeDeparture` | `NobodyStandsWithoutTrain` |
| | `EarlyReportsAreRight` | `EarlyReportOnlyForLatePassengers` |
| | `NoTrainOverfull` | "Too many passengers on this train!" is never reported |
| `WServerProofs` | `SortQueueSorts` | the in-place selection sort orders every queue and keeps its elements |
| | `TypeCorrect` | type correctness of the server |
| | `OnlySecondUnlockBreaks` | `BrokenOnlyBySecondUnlock` |
| | `ConnectionsHandledOnce` | `EveryConnectionOnce`, up to a broken mutex |
| | `NobodySleepsThroughWork` | `WokenWorkersCoverQueue`, up to a broken mutex |
| | `SchedulerOrder` | `QueueInOrder`, up to a broken mutex |
| `VsfsProofs` | `TablesAgree` | `BitmapsMatchTables` |
| | `LinkCountsCorrect` | `LinkCountsMatchEntries` |
| | `NamesOnDisk` | `NamesResolve` |
| | `NamespaceImplemented` | `ImplementsNamespace`: the refinement of `Namespace` |
| `LfsProofs` | `TypesCorrect` | `TypeOK`: every pointer leads to a block of its kind |
| | `LinkCountsCorrect` | `LinkCountsMatchEntries` |
| | `CheckpointCorrect` | `CheckpointIsCurrent` |
| | `NamesLead` | no name leads to an inode number without an inode (what `lfs_link` refutes with `-D`) |
| | `NamespaceKept` | `ImplementsNamespace`: the refinement of `Namespace` |
| `FfsProofs` | `BooksAlwaysBalance` | `BooksBalance` |
| | `ErrorsAlwaysExplained` | `ErrorsAreExplained` |
| | `FilesAlwaysPlaced` | `FilesArePlaced` |
| | `NamespaceImplemented` | `ImplementsNamespace`: the refinement of `Namespace` |
| `RaidProofs` | `NoPlaceSharedTwice` | `PlacesAreDistinct` |
| | `BlocksFillTheDisks` | blocks dealt out to n disks with room for k whole chunks lie there exactly if their number is below n * k chunks |
| | `WritesAreComplete` | `TouchesExactlyWhatWasAsked` |
| | `ParitiesAreComputable` | `ParityCanBeComputed` |
| | `AssertionMeansCapacity` | `EndsOnlyBeyondCapacity` |
| `DiskProofs` | `WindowIsKept` | `WindowIsRespected` |
| | `DiskServesOrSaysWhy` | the disk stops only when every request was served once, the late ones too, or for one of the three causes of `MayFail` |
| | `TimesAreExact` | `TimesAreRight` |

*Assumptions.* `AtomsAssumption`: finitely many threads, no thread both hydrogen and
oxygen. `TotalAssumption`: `main` creates no more threads than there are atoms to name
them. `StationAssumption`: finitely many passengers, seats are a natural number.
`WServerAssumption`: finitely many workers, none of them `main`, and sizes are integers.
`VsfsAssumption`: inodes, blocks and depth are positive, a directory block has room for
`.` and `..`, and no name is one of these. `LfsAssumption`: sizes are positive where
`main` asks for it, and no name is `-`, `.` or `..`. `FfsAssumption`: groups have blocks
and inodes, `-c` and `-A` are positive, the root is a path and so is what a path is below.
`RaidAssumption`: the parameters
`main` accepts (`IsArray`). `DiskAssumption`: speeds that divide the width of a track,
tracks of more than one block, lists of blocks. No bound of a configuration is used.
The theorems about `Lfs` are about the default, the inode map in memory
(`~mode.use_disk_cr`): with `-D` they are false, as `lfs_link` shows.

*Reaction.* `NoLostWakeup` is not inductive: it does not say how many of the free
hydrogens an oxygen that is awake will use. The strengthening is
`WakeupsCoverHydrogens`: while an oxygen sleeps, `numH <= 2 * |OAwake| + 1`, where an
oxygen is awake if it was woken or has made its molecule. A hydrogen adds one to the
left side and, by its signal, one oxygen to the right; an oxygen that makes water stays
awake until it takes its two hydrogens; one that goes to sleep found `numH < 2`.
`SafeInv` adds to it the types, that `numO` counts the oxygens inside, and `LockHeld`:
one oxygen at most is between `make_water` and its signals, and its two hydrogens are
there. It holds with spurious wakeups too, because `reaction_o` waits in a loop.
`CountInv` (`numH` counts the sleeping hydrogens, two are bonded per oxygen) needs every
wakeup to be a signal: `reaction_h` does not test again, and a spurious return would let
an atom out that is in no molecule. In the refinement a molecule exists from the signals
on, when it is settled which hydrogens it is made of: the proof splits `WakeHydrogens`
by the two its signals take, which exist and differ because `numH >= 2` counts the
sleepers, and `MakeWater` is a step nobody sees. What `main` sees before that is the
subject of `FaultReportsAreLateThreads`. `RunnerUsesReaction` carries both invariants
over to the runner, whose own invariant (`RunnerInv`) says that only created threads are
in the monitor, that the two call counters count the finished threads, and that the
molecules still are as many as expected while `main` sleeps and compares (`Met`). The
last part holds although the spin loop tests for equality: every molecule takes atoms
that were created, so there are never more than expected (`AtMostExpected`), and none is
taken back.

*Station.* `IInv` adds three facts to the counters: where the loader is blocked and
what that says of `standing` (`LoaderInv`); one passenger is called for exactly as long
as the loader is blocked for it (`CallInv`), which is what makes the wait without a
loop right; `numSeats` is `count`, plus one while a passenger is called (`SeatInv`).
`RunnerUsesStation` shows that the runner's steps are steps of the open `Station`, and
so carries the invariant over to the whole program. For the runner's reports the
invariant has to know what `main` has counted: `main` reaps as many passengers as the
train's thread let in (`NoTrainOverfull`), and if it is about to complain of an early
return, the train had room for all that are left, and a passenger was not yet on the
platform when the loader looked.

*Queue and server.* The sort is a recursive function over its rounds. After round k the
last k elements are in order and none of the others is greater (`LastSorted`): a round
finds the smallest among the first n - k, pops and re-inserts everything else, and puts
it at the end. That the function exists and that each round keeps the elements is shown
by induction. `Control` ties the program counters to the mutex and to what a thread holds.
While `exclusion` is "kept" the holder of the mutex is the thread that is inside
(`HolderInside`), so nobody can enter (`EntersKept`) and only the step from "freed" breaks
it (`OnlySecondUnlockBreaks`); while it is not broken one thread at most is inside
(`OneInside`), which a second unlock leaves true. With this a connection cannot be in two
places (`Once`). For the wakeups, `Awake` counts: the workers already woken or past the
test of the queue are at least as many as the connections in it, or nobody is asleep; an
insertion adds one to both sides.

*vsfs.* The two properties are not inductive. `IInv` adds that inodes and blocks own each
other (`Owners`), that the entries of a block have different names, lead to inodes in use
and are in directories only (`Lists`), and that every name the generator remembers has
an entry in its directory's block and every directory an inode of its own (`Remembered`):
`deleteFile` looks up both by name. When the reference count is one, `Links` makes the
entry that goes the only one, so that no list leads to the freed inode and no remembered
file has its number; the key that unlink leaves in `nameToInum` is harmless because
nothing is asked of names outside `files` and `dirs`. mkdir adds three entries and two
references to two inodes.

`NamesResolve` and the refinement need the converse too: every entry of a directory but
`.` and `..` is a remembered name, and every directory in use is one (`Complete`). With
both, the walk from the root finds what `nameToInum` says of every path (`Walk = Tree`,
by induction over the length of paths), and what is left of a step is what it does to
`nameToInum`: bind one path (`AddRefines`), drop one (`DropRefines`), or neither.

*lfs.* `IInv == Structure /\ Tallied /\ Sound`. `Structure` is about blocks: every pointer
of a map, an inode or a directory leads to a block of its kind (`Typed`), every inode
number of the map in memory leads to its own inode with its own blocks (`NodesOK`), and
following the checkpoint region gives what the map in memory gives (`Checkpoint`). As the
log only grows, old blocks stay what they were; what has to be shown of a command is
which numbers lead somewhere new. `Tallied` is about names: the root is there (`Rooted`),
entries lead to inodes in use (`Leads`), and counts are numbers of entries (`Links`).
Commands write between two and seven blocks in an order of their own, so the proof goes
in two stages: from the code of each command to a step form, `AddsFile`, `AddsDir`,
`AddsName`, `DropsFile`, `DropsName` or `SameNames`, which says what the command changes
in the entries and the inodes and not where in the log; and from each step form to the
invariants. `Sound` says that no assertion about a missing inode has failed.

For the refinement a step form says which path it works on: it binds a free one
(`Binds`), unbinds one (`Unbinds`), gives its file contents (`Fills`) or does neither.
What the abstract specification knows is `Tree`, the inode each path leads to. A tree
needs an invariant of its own, because bindings are kept per directory and not per path:
`Treelike` says that a directory has one name (`OneName`), the root none
(`RootNameless`), that `.` and `..` lead to directories (`DotsUpward`) and that each
name is on some path from the root (`Reached`). Then only one path leads to a directory
(`OnePath`, by induction over the length of paths), and a change of one entry changes one
path and no other (`TreeRebound`). `NamespaceSays` writes the abstract variables in terms
of `Tree`, `Directories` and `Contents`, and `BindsRefines`, `UnbindsRefines` and
`FillsRefines` are the steps.

*ffs.* As long as nothing has gone astray `IInv` keeps `Books`, which says of every table
what the names say: a number has one name (`NamesOK`), what has a name is a file or a
directory whose blocks exist, and nothing else is a directory (`NodesOK`), the entries of a
directory are the names below its path (`TreeOK`), and the bitmaps and the counters show
what is named and owned, no more and no less (`InodeBitsOK`, `DataBitsOK`, `CountersOK`).
`BooksBalance` alone is not inductive: it does not say that the entry `do_delete` finds in
a directory is the one of its path, nor that it frees an inode and blocks that no other
name has. From the code of a command the proof goes to `Creates` and `Deletes`, which say
what a command does that nothing stops, and from there to each part of `Books`.

That nothing stops a command, except for the reasons `ErrorsAreExplained` names, rests on
the searches. `Near` meets every other group (`NearMeetsAll`) and the group with most free
inodes has one if the counter is not 0, so `pick_group` returns a group with a free inode
when `-A` is 1 (`PickedGroup`). The loop of `allocate_blocks` never takes a block that is
in use (`TakesFree`), and it ends: after its first time round the groups it asks for one
block at a time, and a time round that has taken nothing so far has passed no free block
(`Barren`), so each takes one as long as some are missing (`Fruitful`), which the counter
promises (`SomeRoom`). This also shows that the bound of the model's loop, `MaxTurns`,
cuts nothing off.

For `FilesArePlaced` the same loop is followed with two more invariants, for files whose
blocks need not lie together. `Home`: while a group has room and `-L` allows it, the search
stays in it; all of a group's addresses lie within `group_size`, so the span is smaller.
`Even`: in its r-th time round the search has given every group it has passed r + 1 times
the limit, and every group ahead r times, or all it had.

*RAID.* Quotient and remainder determine a number, so cells of an array are
met once; the rest of `NoPlaceSharedTwice` is that the correction for the parity disk maps
the data disks of a row one to one to the disks without the parity. For the requests,
`Settles(x, blocks, asked)` says of a list of I/Os that it writes the places and parities
of `blocks`, each once, that it stays in the rows of their stripes, and that what a parity
follows from has been read before it is written. `Piece` shows it of `doPartialWrite` when
nothing else of the stripe is asked for; `Joined` puts two such lists of different stripes
together, which have no place in common; `OneMoreStripe` is one turn of the loop of
`enqueue45`, whose state (`begin`, `left`) it ties to the number of stripes done. That the
functions defined by recursion exist is shown first (`OffListExists`, `LoopExists`).
When the assertion fails is settled by rows of chunks. A disk has room for `wholeRows`, and
on `begunRows` it has some (`Rows`); all levels deal their blocks out by rows (`Dealt`), so
the blocks of the whole rows lie on the disks and those behind the last row do not
(`CopiesFit`). In RAID 4 and 5 a stripe is a row (`StripesFit`), so what a write reads
besides for its parities fails only in a torn row (`FailsFor`, `MatesFit`).

*Disk.* `WindowIsRespected` is about the request that is served and says too little of
the window. `IInv` says that a running disk is `Busy`: as many requests are done as were
counted, a late one has arrived with every choice (`Arrived`), and the window is where
the policy needs it (`InWindow`). With batches, what is done lies before the end of the
current batch; when the count reaches it, the numbers done are those up to it, because
there are no more of them (`Numbers`), and only then does `GetWindow` let in the next
batch (`GetWindowMoves`). The window never falls behind the count either, unless
`disk-precise.py` cuts it, so there is always a candidate (`SomethingToChoose`), and the
assertion in `DoSATF` holds. What is left is that a cause holds in the state in which
the disk stops, not only in the one from which it chose (`SameCause`, `FailsForCause`).
Pressing "s" again chooses anew while nothing more is done: this keeps everything but
the upper bounds, which `IInv` states for one start only. That `DoSATF` and `DoSSTF`
return a candidate needs the estimates to be numbers, and so the layout of the blocks
(`Layout`, `EstimateNat`).

`TimesAreRight` compares a request's end with its begin, many ticks earlier. `InTime`
says of every tick between what is left of the estimate: `Seeking` that the arm has come
as far as the ticks that have passed take it, and that after the rest of them the head
will be at the angle from which `DoSATF` counted the rotation; `Rotating` and `Moving`
that the ticks so far and the degrees to the block's begin, or to its end, make up the
estimate. `Ending` is where this is zero, and from there the next request starts
(`NextTo`). Where `DoSATF` wraps angles beyond 360 and `Animate` at 360 already, the
difference is a whole turn, and no time. A head that stands at a block's begin waits a
turn for it, though, which `DoSATF` estimates at 0. After another request such a block
is the neighbour of the last one and is transferred at once; at the start it is a block
at angle 0, and only this first request is left out by `Exact`. `Exact` asks that the
rotation per tick divides the turn and every block's angle: with other speeds the head
steps over the begin of a block, and TLC finds requests that take longer.

*Only model-checked.* Liveness (`EventuallyAllBonded`, the fairness part of
`ImplementsMolecules`, `MainNeverHangs`, `EveryoneIsServed`, `EveryRequestIsServed`), which
the prover has no rules for. Every other property that a passing run checks is a theorem.

## Disagreements found

1. `train.c:40`, "May not return until train is fully loaded or all passengers are
   loaded". After its loop the loader waits for those who stand, and does not test the
   loop's condition again: a passenger that comes meanwhile is left behind by a train
   with free seats (run `train_late`).
2. `wserver.c:192`. A worker signals `queue->full` before it pops, and only if the queue
   is not full. With `-b 1` it is always full then, and `main` sleeps for ever
   (`wserver_one_buffer`).
3. `wserver.c:235`. The second unlock frees a default mutex (`wserver.c:140`) whoever
   holds it: two workers pop the same request and both close it, against
   `io_helper.h:52`, "assert(close(fd) == 0)" (`wserver_unlock`).
4. `lfs.py:544`. `file_link` moves the source's inode and writes the parent's chunk of
   the inode map only. With `-D` the next unlink finds the old count, frees the inode
   although a name is left, and an access by that name fails `lfs.py:332`,
   "assert(inode_address != -1)" (`lfs_link`).

Read but not made into runs:

- `lfs.py:146`. `HW-LFS/README:139-141` says "Start with the checkpoint region and see if
  you can determine which group of blocks can be reached (and hence are live); all the
  rest are thus dead". `determine_liveness` follows the inode map in memory: after the
  link of 4 the source's old inode, which the region leads to, is shown as dead and its
  new one as live; with `-N` the two differ from any command that writes until the next sync.
- `raid.py:222`. `README-raid:147-149` says "for even-numbered logical blocks, the RAID
  chooses the even-numbered disk in the pair". The code looks at the offset on the disk:
  with two pairs, block 1 at offset 0 is read from the even disk.
- `lfs.py`: a regular file in the middle of a path fails an assertion instead of being
  reported, a link into a directory that does not exist ends in a `TypeError`, and a
  write in front of earlier blocks makes a file smaller.
- `raid.py`: a random request near the default range's end leaves a disk of a two-disk
  mirror, and with a chunk that does not divide 10000 blocks (`-C 12k`, `-C 128k`) one within
  the last, torn row may (`EndsOnlyBeyondCapacity` says when the assertion fails).
- `vsfs.py`: the branch of `deleteFile` that lowers a directory's count is never taken.
- `ffs.py:289` and 294 divide by the number of groups to find a file's bits. On the default
  disk `file /a 5`, `file /b 15`, `delete /b` fails the assertion at 425; with
  `-n 2 -d 2 -i 3` nothing is noticed until two names share an inode. With `-A 2` a full
  group is picked although the comment at 332 says that it has a free inode, and 426 fails.
  A file of size 0 fails 211; 79 symbols for 100 inodes fail 389; a file used as a directory
  is a `KeyError`. `ErrorsAreExplained` says that there is no further cause.
- `disk-precise.py:478` subtracts a float from a decimal, a `TypeError` in Python 2.7,
  whenever the arm would arrive past 360 degrees for a request that `DoSATF` compares.
- `disk-precise.py:541` cuts the window at the queue's end although late requests follow,
  after which no candidate may be left and the assertion at 500 fails
  (`-p BSATF -w 2` with late requests). Late requests given by `-l` are strings and are
  not found in the block tables (`disk.py -a 7 -l 1,2`). `maxBlock` is the inner track's
  first block, so random lists leave out the rest of that track. A block that begins at
  angle 0 is estimated at 0 instead of 360 degrees when the head stands there.
- `my-zip.c` prints a run when the next one begins, so the last run of a file is lost,
  against the example in its comment (line 10).

## Not modelled

- `request.c`: what a worker does between `pop` and close is one step of `WServer`. It
  reads and writes sockets, files and CGI programs and changes none of the shared state;
  each worker waits for as many children as it forked, so `wait(NULL)` takes somebody's
  child and leaves one for everybody.
- `io_helper`, `wclient`, `spin.cgi`: input and output only.
- What a race on the list of `wserver.c` does inside `push` and `pop` once two threads are
  there: the list's links are below the model.
- Lifetime of memory (the dangling token pointers of `view_request`): below the models'
  abstraction of data.
- `checksum.py`, `my-cat`, `my-grep`, `my-zip`, `my-unzip`, `Fork()`: one pass over an input,
  or one fork, without state that an order of events could spoil.
- Drawing code, option parsing, printing, build files, random request lists of the disk.

## Plan

What is left, in this order.

1. An abstract server (each connection is accepted, served once, closed) implemented by
   `WServer` until its mutex breaks.
