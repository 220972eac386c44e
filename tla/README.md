# FileOps & ProcOps Tools: TLA+ verification

TLA+ models of the tools under `src/HW5`, checked with TLC and proved about
with TLAPS. `HW3`, `HW4` and `HW5` are three deliveries of the same project;
`HW5` is the latest, and the reference for every definition here, except that
`Inventory` models the run of `HW4` beside that of `HW5`. `db.c`, `lock.c`,
`main_file_indexer.c`, `main_procs.c` and `main_db_diff.c` are byte for byte the
same in the three. Line numbers below are those of `HW5/src` unless a path says
otherwise.

## The system

| Part | Sources | State | Operations |
|---|---|---|---|
| Job queue and inventory workers | `main_fileops_worker.c`, `fileops_ipc.[ch]` | in shared memory: `job_queue`, `queue_head`, `queue_tail`, `jobs_waiting`, `jobs_running`, `job_sem`, `queue_read_sem`, `queue_write_sem`, `quitting`; per process: overflow stack, `sigterm_received` | pick a job, list a directory, hand on subdirectories, leave when idle or told to |
| Result channels | the same | per worker: a ring of 64 records, `records_head`, `records_tail`, `sem`, `read_sem`, `write_sem`, `done`, `stats` | worker fills a record, manager stores it; final drain |
| Manager supervision | `main_fileops_manager.c`, `fileops_ipc.c` | worker pids, signal flags, control pipe, shutdown deadline | fork, reap on SIGCHLD, STATUS on SIGUSR1, shutdown on SIGTERM/SIGINT, SIGKILL at the deadline |
| Inventory database | `fileops_ipc.c`, `main_fileops_manager.c` | temporary file, header with `complete` and `file_records`, final path | create, append, complete, rename; `--dump`, `--verify` |
| Snapshot database | `db.c`, `lock.c` | file header (`snapshot_state`, `active_writers`, `record_count`), rows, fcntl region locks | open or create, count writers, seal, count records |
| File indexer, process lister | `main_file_indexer.c`, `main_procs.c` | the scan of the rows | upsert of a row, by several processes at once |
| `db_diff` | `main_db_diff.c` | two sorted arrays of rows | merge into appeared, disappeared, modified |
| `fileops.sh` | `tools/fileops.sh` | object files | init, build, run, test, clean |

Interactions. The manager forks the workers, which share one memory mapping
with it. Workers and manager meet at the job counters (the manager's exit
decision reads them), at the result channels (one producer and one consumer
each), through signals (SIGTERM and SIGKILL one way, SIGCHLD the other), and
through the control pipe. File indexers and process listers share nothing but
the database file and its locks.

What is hard: every exit of the worker loop is a race between counters that
several processes update in separate critical sections; each of its waits can be
cut short by SIGTERM between two halves of an operation; a full queue diverts
jobs to private stacks that the shared counter still counts; the rings wrap and
fill; the final drain takes no lock; a message to the manager waits for room in a
pipe that only the manager empties; in the snapshot database every check is
made under one lock and acted on under another. `PROJECT.json` lists these
hazards by line, with the properties that cover them.

What makes each part correct:

* job queue: every directory within the depth limit is listed exactly once, no
  worker leaves before that, and all leave after it;
* result channels: records are stored in order, once, complete, and all of them;
* supervision: a shutdown ends within the deadline and no worker outlives it;
* publishing: the final path only ever holds a finished database;
* snapshot database: one header, a seal only after the last writer, unique keys,
  `record_count` equal to the rows;
* `db_diff`: the report is the difference of the two sets of rows.

## Modules

| Module | Models |
|---|---|
| `JobPool` | the job queue and the loop of the workers |
| `Traversal` | what the pool promises: an abstract, centralised traversal |
| `MCJobPool` | two small directory trees for the runs of `JobPool` |
| `JobPool_proofs` | theorems about `JobPool` |
| `Traversal_proofs` | the proof that `JobPool` implements `Traversal` |
| `ResultChannel` | the result channels, the filling worker and the collecting manager |
| `ResultChannel_proofs` | theorems about `ResultChannel` |
| `Supervisor` | the manager as the parent of its workers: signals, reaping, shutdown, deadline |
| `Supervisor_proofs` | theorems about `Supervisor` |
| `Inventory` | a whole run of workers and manager, in both versions, and the files it publishes |
| `MCInventory` | a small tree for the run of `Inventory` |
| `Inventory_proofs` | theorems about `Inventory` |
| `Snapshot` | the snapshot file, its locks, and the writers and `db_diff` that use it at once |
| `SnapshotMap` | what a snapshot promises: a map that is created, filled and sealed once |
| `DbDiff` | the comparison of two snapshots |
| `MCSnapshot` | small listings and older snapshots for the runs of `Snapshot` |
| `Snapshot_proofs` | theorems about `Snapshot` |
| `SnapshotMap_proofs` | the proof that `Snapshot` implements `SnapshotMap` |
| `DbDiff_proofs` | theorems about `DbDiff` and the rows it reads in `Snapshot` |

`Snapshot` extends `DbDiff` and instantiates `SnapshotMap`; `JobPool`
instantiates `Traversal`. `Inventory` composes what `JobPool` and
`ResultChannel` model apart.

### JobPool

`pc[w]` names the place of worker `w` in the loop of `main` (lines 210-418 of
`main_fileops_worker.c`). Control is cut at every semaphore operation. A
critical section on `job_sem` is two steps: `Acquire` (the wait returns) and the
action that does the work and posts, so `job_sem` is a real semaphore in the
model and mutual exclusion is a theorem and not an assumption. `queueHead` and
`queueTail` count slots without wrapping; the ring is always accessed through
`Slot(k) = k % QueueLen`, which is what the code stores. A job is a directory,
and the tree is a constant. `Flaky` directories may fail `lstat` or `opendir`.
Regular files and symbolic links change nothing here and are left out, and so is
the control pipe: what a worker that waits for room in it does to the others is in
the next three modules.

Shutdown: `Quit` is the manager's `header->quitting = true`; `Sigterm` sets a
worker's flag while it is awake, `Interrupt` ends its wait with -1 and takes the
failure path of that wait, which may give back a reserved slot. After `goto
cleanup` a worker is out of this module.

Abstractions: the duplicate idle check of the code (lines 215-235) is kept as
two places of one action; the output of the loop is left out; `listed`,
`skipped` and the place a worker left from are histories.

`Traversal` is the specification the pool implements: a set of pending
directories, a set of active ones, and the steps Start, Discover, Omit, Fail,
Finish and Announce. `JobPool` maps `pending` to the jobs on the queue and the
stacks, `active` to the jobs being listed, `finished` to "some worker has found
the pool idle". A job listed twice, lost, or still open at the end has no step
there.

### ResultChannel

Each worker has a channel; the worker's and the manager's halves are separate
processes that meet at `chan->sem`, `write_sem` and `read_sem`. The manager's
places follow `manager_collect_and_wait`: `top` (217-240: reap, begin a
shutdown), `pass` (303-322: at most one record of each channel), the decision
(339-352), `drain` (357-365), `reap` (367-373) and `finished` (375-385). A record
is the number of the file it describes, 0 the zeroed memory of a slot never
written; `db[w]` is the subsequence of the database that came through the
channel of `w`.

Of the job pool only the two counters are left: workers start, discover and end
jobs in any order the counters allow, which includes everything `JobPool` does.
A worker that sleeps for a job is at `top`, from where a shutdown takes it away.

The control pipe is a number of messages. Its write end blocks, its read end does
not, and the manager reads it at the beginning of an iteration only, at most
`PollLen` messages at once (lines 256-301; 4095 bytes in the code). Every message of
a worker, DIRECTORY, ERROR, JOB_DONE and WORKER_EXITING, waits for room: a worker
whose `open` failed does so at `error`, with `chan->sem` in its hands
(`main_fileops_worker.c:332-336`). `Jammed` is the state that can come of it: the
manager has taken a read token of that channel and waits for its semaphore at line
311, and the pipe is full.

Not in it: the waits of the manager itself being interrupted, and SIGKILL at the
deadline. They are the subject of `Supervisor`, and the properties of
`ResultChannel` are claimed without them.

### Supervisor

The same two programs seen from the outside: who is told what by which signal,
who is still there, and what the manager knows of it (`pids`, the entries of
`worker_pids` that are not 0). Every wait of the manager that a signal can cut
short has a place of its own: `lock` (line 311, where ERRCHECK exits: `aborted`),
`count` (346, where the error is ignored and the counters are read without the
semaphore: `unlocked` records it) and `reap` (370, where the pid is cleared
though the worker runs). `pass` is the loop over the channels, and `top` the
beginning of an iteration, where reaping, the start of a shutdown and the
deadline are one step: nothing waits between them, and a worker that exits in
the middle could have exited before the step or after it. `ChildSignal` and
`Request` deliver one signal at any moment; `Interrupted` is its effect on a sleeping manager.

A worker is at `start` until `sigaction`, when a SIGTERM ends it; later SIGTERM
sets its flag, and ends a wait only if the worker sleeps in it: one that arrives
between the check of the flag and `sem_wait` leaves the worker asleep until the
deadline. `SIGKILL` takes it wherever it is, with what it holds. Writing to the
control pipe after the manager has closed it, or has been ended, is death by
SIGPIPE; while it is open a message waits for room, an ERROR about a file with
`chan->sem` held, and SIGTERM cuts that wait short too.

The critical sections on `job_sem` keep the order of the code's accesses:
`FindJob` (the check of `jobs_waiting`, line 244 or 259), `BeginJob`
(`jobs_running++`) and `TakeJob` (`jobs_waiting--`). As long as the mutex holds,
the load and the store of one `++` or `--` are one step. Once `unlocked`, the
manager's post has given the semaphore one unit too many, two workers can be
inside, and `Load` separates the load from the store wherever another worker
inside may store the same counter in between: updates are lost, and a counter can
pass below zero (`jobsWaiting` and `jobsRunning` are integers; the code's are
unsigned and compared with 0 only). The manager reads the two counters one after
the other then (`ReadWaiting`).

Abstractions: the queue and the rings never fill (they are the business of the
two modules above), the duplicate idle check is one, an entry of a directory is
a file, a directory, or one that `lstat` fails for, as the environment likes; the
deadline may pass in any iteration after the one that began the shutdown
(`KillLate`), and SIGINT, which has the handler of SIGTERM, is SIGTERM.

### Inventory

The exit decision of the manager reads the counters the workers change, and what
is published depends on both; here they meet. A worker's places are `top` (the
idle check), `take`, `open`, `list`, `error`, `leaving`, and at the end `gone`, or `dead`
for one that an ERRCHECK has ended. The manager goes through `pass` (one channel
at a time, `next`), `drain`, `wait`, and then publishes: in HW4 `mark` (the
completion byte), `remove`, `create` and `copy` (page by page), in HW5 `close`
and `rename`. A database file is what a reader can tell: whether it is there and
has its header, the completion byte, the number of records the header announces,
how many of them are in the file, and whether the statistics are. `temp` and
`final` are the two names.

The versions differ in three ways. A failed `opendir`, `lstat` or `open` ends an
HW4 worker on the spot, with its job counted and whatever semaphore it holds; one
of HW5 writes an ERROR to the control pipe, which must have room for it (with
`chan->sem` held if it was `open` that failed), and goes on. `lstat` fails for
files and for subdirectories alike; HW5 passes over such a subdirectory, and
everything below it, and the completion byte says nothing of it: it is one of the
`refused` ones, with those `opendir` failed for. Only HW5 has a shutdown. HW4
removes the old database and copies the new one, HW5 renames it. HW4's manager,
besides, only tries `job_sem` and passes again when a worker holds it.

Abstractions: a critical section is one step, as the modules above have shown
the mutexes to work; the guard `queue # <<>>` of `TakeJob` is `TakeFindsJob` of
`JobPool`; when the manager has been killed the workers stand still, since
neither file is theirs; the SIGKILL at the deadline, and the manager's waits cut
short by a signal, are in `Supervisor` only; the
records are counted and not named (`ResultChannel` has their contents).

### Snapshot

One file and any number of processes that use it: writers, all of them
`file_indexer` or all `procs` (`kind`), and a `db_diff`. The header is its three
locked fields; `size` is how much of it is in the file, so that a process may
find the file without a header, and what a read of a missing field returns is a
member of `Garbage`. `rows` is the file after the header. A write is a step apart
from the read it depends on, with the region locked in between: `reads` and
`writes` are the locks a process keeps from one step to the next, and
`MayRead`, `MayWrite` are the rules of `fcntl`. The places follow
`db_open_connection` (`access` to `joining`), the recursive listing (`list`, with
a frame for each open directory), the upsert (`scan` to `adding`) and
`db_close_connection` (`leaving`, `seal`).

Errors are followed through. A read that returns nothing leaves the offset where
it was, so that the write and the unlock that come next, which are relative to it,
hit another region: `db_is_sealed` (lines 103-109) keeps a read lock on
`snapshot_state`, `db_record_count` (82-87) one on `record_count` while its unlock
gives back the locks on the two fields before it, and `db_inc_writers` and
`db_dec_writers` likewise. Such locks stay until the process ends, and two
processes can then wait for each other's: `F_SETLKW` fails with EDEADLK in one of
them, ERRCHECK exits, and its locks go with it (`Deadlocked`, and the `Kill` that
needs no outside killer). The short reads come from a file without its header: one
whose creator has opened it and not yet written, or was killed there before this
run (`size = 0` in `Init`). An entry that vanishes ends the listing of its
directory in `file_indexer` and is passed over in `procs`; a file that cannot be
opened is hashed for ever (`hash`); a writer may be killed anywhere, keeps its
`pc` and loses its locks.

A row is a key and one value. Hashing, the parsing of `/proc`, and the
normalisation of paths only compute these. `headers`, `shared`, `torn` and
`inserted` are histories.

`SnapshotMap` is the promise: a map that is absent, open or sealed, that takes
upserts while open and never changes once sealed. `Snapshot` keeps it as long as
no two writers overlap: for each read-modify-write across two locks there is an
interleaving of two that breaks it (a writer that joins after the seal, a row
overwritten, and the same key inserted twice, which `FORMAT_DB.md` excludes and
`snapshot_keys` exhibits); writers that were killed earlier do not. What holds for
any number of writers is stated apart: `CountExact`, `WritersExact`,
`SealedAtTheEnd`.

`DbDiff` is the comparison by itself. `qsort` is any order of the rows in which
the keys ascend; the loops are a recursive function over the places `i` and `j` in
the two sorted arrays. `ReportRight` compares its lines with the difference of the
two sets of rows, for a snapshot that is read while a writer may be filling it.
The older snapshot is supposed to have one row for each key (`OldAssumption`),
which is proved of one that was filled by one writer at a time (`Filled`, in
`SnapshotMap_proofs`); with a key twice in it the lines depend on `qsort`.

## Runs

| Run | Bounds | Shows |
|---|---|---|
| `job_pool` | 3 workers, 5 directories at depths 0-3, depth limit 2, queue of 1 slot, 1 unreadable directory, no shutdown | types, exact counters, no job taken that is not there, refinement of `Traversal`, every worker leaves |
| `job_pool_shutdown` | 2 workers (symmetric), 7 directories, queue of 2 slots, shutdown and SIGTERM at any moment | mutex, slot accounting, sound idle exit |
| `result_channel` | 2 workers, ring of 2, 3 files, the 2nd unreadable, 2 directories, a pipe with room for 1 message, shutdown and SIGTERM at any moment or never | types, mutex of a channel, its tokens, the channel is a queue, what can be missing at the end, and outside a shutdown the manager's loop ends unless it is jammed |
| `result_complete` | as above, every file readable, no shutdown | violated: a complete database without the records of a full ring |
| `result_unreadable` | as above, 2 files, the 1st unreadable | violated: the database holds a record of no file |
| `supervisor_shutdown` | 2 workers, 2 entries below the root, a pipe with room for 1 message, a SIGTERM to the manager, the SIGCHLDs, the deadline in any later iteration | types, `job_sem` a mutex with killed workers inside, nobody left behind by a shutdown, statistics of all but the killed, the shutdown ends, with three exceptions |
| `supervisor_signals` | the same with a SIGUSR1 and no SIGTERM | violated: a signal ends the manager |
| `inventory` | both versions, 2 workers, a root with 2 subdirectories, each of which `lstat` may fail for (one unreadable at times, one with a ring full of files, unreadable at times), queue of 1, rings of 2, a pipe with room for 1 message, a shutdown and a kill of the manager at any moment, with and without an older database | types, what is marked complete was listed but for what was refused, records and statistics agree up to full rings, what HW5's `--verify` approves under the final name is whole, a whole database is always on disk, the run ends unless it is jammed |
| `inventory_verify` | the same, HW5 only | violated: the temporary file of a killed manager is approved with records missing |
| `snapshot` | 2 writers of files or processes, a directory with one file that may vanish or be unreadable, no file or an empty one, one kill, counters modulo 4, 5 older snapshots | types, exact counters, the last one seals, the report of `db_diff`, refinement of `SnapshotMap`, every writer ends |
| `snapshot_keys` | 2 writers of files, nothing fails | violated: a sealed snapshot has the same path twice |
| `diff_tail` | 1 writer of files, 5 older snapshots | violated: the file that has appeared is named by another row |

Why the bounds are enough. A queue of one slot with three subdirectories in flight
makes the overflow stacks, the jobs counted on them and a second worker waiting on
the queue all happen together, and three workers make the chain of wake-ups at the
end longer than one link. One slot also makes every index wrap. In the channel
runs more files than slots make the ring fill, wrap and block the worker, and two
workers make the manager's pass visit a channel that is done beside one that is
not. A pipe with room for one message (65536 bytes hold some 980 of those of the
program, and a poll takes some 62) is full as soon as one message has come since
the last poll, so that a second one waits. `job_pool_shutdown` does not check
deadlock, because a worker killed in its sleep is out of that model; in
`ResultChannel` the states in which nothing more happens are `Stopped`. In
`Supervisor` two entries can be two files of one worker, so that the manager has a
read token of a channel whose worker is hashing (an abort, or a channel orphaned
by SIGKILL), or a second job, so that a worker wakes up to work; two workers make
one sleep while the other works, and one interrupt the manager's wait for the
other, and two that are inside `job_sem` at once lose each other's updates. The
runs of `Supervisor` do not check deadlock: the system stops when the manager has
finished or aborted, and also when it waits for an orphaned channel or a jammed
one, or in a normal run for workers that sleep because a counter was lost.

In `inventory` the queue of one slot puts the second subdirectory on a stack, the
ring is exactly filled by one directory, and each version meets each failure with
another worker idle, busy or gone; `Over` names the states in which the run may
stop, so that deadlock is checked elsewhere. In `snapshot` two writers with two
entries each make every pair of steps of creation, join, upsert, leave and seal
interleave; an overlap in creation gives two headers, a torn read, and a count
that runs past the rows, and an empty file found at the start gives short reads
and the locks they leave behind to both writers, who then wait for each other;
counters modulo 4 leave room for one writer more than there is. The older
snapshots have rows before, between and after the new ones, out of order, equal,
and different by the threshold and by one less. Garbage is 0: another value only
makes a torn read look like a file with more rows or writers, and every property
but `TypeOK` and `WritersEnd` excludes torn reads; the latter meets the scan that
runs past the rows without one, when two writers insert at one place. The theorems
hold for any garbage. The largest runs have 0.9 million
states (`inventory`), 0.75 million (`result_channel`) and 0.5 million (`snapshot`,
`supervisor_shutdown`).

Fairness. Every worker, and the manager, is scheduled whenever it can run
(`WF`): they are processes under a preemptive kernel. Waking from a semaphore is
under the same weak fairness: a sleeper is only promised to wake when the
semaphore stays posted, and in the runs the contention on each semaphore ends
because the work does. `Inventory` and `Snapshot` assume the same (a region lock
that stays free is granted; a copy has finitely many pages; of writers that wait
for each other's locks `fcntl` ends one). Nothing is assumed of failures or of the
moment of a shutdown. `Supervisor` assumes besides that the kernel delivers the
SIGTERM it has for a worker (and nothing of the signals to the manager), and that
the deadline passes: the manager looks at the clock in
every iteration, so if it comes by again and again one of them is late enough (`SF`
of `KillLate`, the only strong fairness).

The exceptions of the liveness properties are all real. A jam: worker and manager
wait for each other at a full pipe and a channel's semaphore (`ManagerFinishes`,
`RunEnds`, `ShutdownEnds`). Nothing ends it in a normal run but a signal to the
manager, which ERRCHECK then exits on; in a shutdown the SIGTERM of the worker
does, unless it came before the write. A manager ended by a signal, and a worker
killed while it holds the semaphore of its channel with an unread record, for which
the manager then waits for ever (`ShutdownEnds`). A worker of HW4 that a failed call
has ended with its job counted (`RunEnds`). A file that cannot be opened and is
hashed for ever (`WritersEnd`). `AllWorkersFinish` is claimed of the pool by itself,
where no worker waits for the manager.

## Findings

* `result_complete`: `records_tail != records_head` cannot tell a full ring from
  an empty one. Once a worker has set `done` the passes take its read tokens
  without collecting, so a worker that leaves with the ring exactly full (64
  unread records; a directory of many files keeps the ring full, as the manager
  takes one record per pass) loses all of them, and `complete` is still 1.
  `LossIsFullRing` shows that this is the only loss.
* `result_unreadable`: `records_head` moves before `open`; when `open` fails it
  stays moved, and the drain stores a slot that was never filled, or an old
  record again.
* `supervisor_signals`: the handlers are installed without SA_RESTART and
  `sem_wait` on a channel is not retried, so a SIGUSR1, SIGCHLD or SIGTERM that
  arrives while the manager sleeps there makes ERRCHECK exit: no shutdown, no
  database, and workers without a parent that die of SIGPIPE at their next
  message.
* `diff_tail`: when the old snapshot is exhausted, the files left in the new one
  are printed as `new_rows[i]` with the index of the old rows
  (`main_db_diff.c:121`), so the report names a file twice, another one not at
  all, or reads behind the array. For processes the index is right (`:190`).

* `snapshot_keys`: `db_indexer_upsert` and `db_procs_upsert` search the rows that
  `record_count` announced, and then lock a place to insert at; two instances of
  one listing can both miss the key and insert it at two places. The sealed
  snapshot then has it twice, with one creator, exact counters and nobody killed.

* `inventory_verify`: `--verify` of HW5 compares format and signature and nothing
  else (`main_fileops_manager.c:182-193`). The header is mapped, so its count of
  records is in the file at once, while the records wait in the stream's buffer: the
  temporary file of a manager that was killed is approved although records and
  statistics are missing from it. `T4_DB_FORMAT.md:45` asks for a file size that is
  sufficient for all of them. Under the final name HW5 never has such a file
  (`ApprovedIsWhole`). HW4's `--verify` (`:154-168`) looks at the completion byte
  too, but not at the size, and a file it is still copying passes; HW4 has no
  document about it.

Documented otherwise, and seen in the models without a run of their own, as the
hypotheses and exceptions of the properties state them:

* Two processes that both create the snapshot reset its counters (`db.c:238-251`:
  neither `O_EXCL` nor a lock between `access` and the header): a row or a writer
  is no longer counted. `FORMAT_DB.md:65` says that the header fields are
  protected by region locks, and `:67` that the instance that finds no snapshot
  creates it and the others join it. `CountExact` and `WritersExact` are claimed
  with one header (`OneHeader`); the snapshot is still sealed in the end
  (`SealedAtTheEnd`).
* A worker that reports an unreadable file to a full control pipe keeps the
  manager from its loop, in a shutdown also from the deadline, and so does a
  channel orphaned by SIGKILL. `T5_CONTROL_PLANE.md:32` promises an end of the
  shutdown within the deadline.

Other things met on the way, which contradict no document. The result of
`waitpid` is not checked (`fileops_ipc.c:370`), so that the SIGCHLD of one worker
makes the manager forget another and print that all are dead, though never in a
shutdown (`ShutdownLeavesNobody`), whose loop only ends when every worker has
been reaped. The wait for `job_sem` is not checked either (`:346`): cut short, it
lets two workers into the critical section, where they lose updates of the
counters, so that in a normal run the exit decision may come too early or never.
HW5 passes over a subdirectory that `lstat` fails for with an ERROR message, and
still marks the database complete. After a kill of HW4's manager during its copy
the temporary file is the only whole database, and the next run removes it.
`active_writers` is a byte, so that 256 writers at once count as none and the first
to leave seals (`WritersExact` says so). HW5's `--verify` does not look at the
completion byte, so a partial database is approved like a complete one, which
`T4_DB_FORMAT.md:45` says it should be.

## Proofs

`JobPool_proofs` proves, for every finite set of workers, every finite or
infinite tree, every depth limit and every queue length, with shutdown and
SIGTERM at any moment:

| Theorem | Property |
|---|---|
| `TypeCorrect` | `TypeOK` |
| `MutexInvariant` | `JobSemMutex` |
| `CountersInvariant` | `CountersExact` |
| `TakeInvariant` | `TakeFindsJob` |
| `SlotsInvariant` | `SlotsAccounted` |
| `IdleExitIsSound` | `IdleExitSound` |

The assumptions are those named in `JobPool`: the workers are finitely many and
not none, the depth of a subdirectory is one more than its parent's, and the
queue has a slot. The argument goes in layers, each inductive given the ones
before it:

1. `Types`, with the counters in the integers: that they never go below zero is
   not inductive by itself.
2. `JobSemMutex`: the value of `job_sem` and the set of workers inside.
3. `Counts`: the counters equal the numbers of workers at certain places plus
   queue and stack lengths, and until somebody has found the pool idle the read
   tokens, held or posted, equal the jobs in the queue. Once somebody has, no job
   is left anywhere and none can appear. The key is that the idle check holds the
   mutex and sees exact counters. `TypeCorrect`, `CountersInvariant` and
   `TakeInvariant` follow.
4. `SlotsAccounted`: write tokens, jobs in the ring and slots in hand add up to
   the length of the ring. With it distinct jobs of the queue are in distinct
   slots (`SlotsDistinct`), which layer 5 needs when a slot is rewritten.
5. `Found`: each directory found and within the depth limit is queued, stacked,
   active, listed, skipped, or in the hands of a worker that is listing. With
   layer 3, an idle pool has none of the former, so all are listed or skipped:
   `IdleExitSound`.

`Traversal_proofs` goes on from there, with the further assumption that a
directory has one parent (`ParentAssumption`: the file system has no hard links
to directories, and `lstat` does not follow symbolic ones):

| Theorem | Property |
|---|---|
| `OnceInvariant` | `Once`, the invariant below |
| `ImplementsTraversal` | `TraversalSpec` |

`Once` has four parts, none inductive without the others. `Distinct`: no two
slots of the queue, no two entries of the stacks and no two workers have the
same directory. `Apart`: queued, stacked, popped, active, listed and skipped
exclude one another. `Coming`: what a worker is about to place is a child of the
directory it lists, and is in none of these sets yet. `Parented`: a child that
is in one of them has a parent that was listed or is being listed, so that a
directory that is listed for the first time has no child anywhere; this is
where one parent is needed. Then the refinement goes step by step: taking a job
is Start, placing one (in a slot or on a stack) is Discover, a failed `lstat` is
Omit, a failed `opendir` Fail, the end of a directory Finish, an idle check that
succeeds Announce, and every other step leaves the mapped state as it is. Layer
3 gives Announce its guard. Without
`Once` the mapped sets could not tell a job taken once from one taken twice.

`ResultChannel_proofs` proves, for every number of workers, every ring length
every number of files, any set of unreadable ones and a pipe of any length, with
shutdown and SIGTERM at any moment:

| Theorem | Property |
|---|---|
| `TypeCorrect` | `TypeOK` |
| `MutexInvariant` | `ChannelMutex` |
| `TokensInvariant` | `TokensConserved` |
| `QueueInvariant` | `ChannelIsQueue` |
| `LossInvariant` | `LossIsFullRing` |

From the assumptions of `ResultChannel` (a worker, a ring with a slot, and a
directory at least) and again in layers:

1. `Types`, with what types need: a worker at a file has one in hand, and the
   manager's loop index is a worker's between taking a token and returning it.
   Here the semaphores are naturals at once, because a wait checks them.
2. `Mutex`: the value of `chan->sem` and who holds it, and that only a worker
   with `sigterm` set is at the post without a wait.
3. `TokensConserved`, inductive by itself with the types; a worker that waits to
   write an error has a slot in hand.
4. `Rings`, of the workers none of whose opens has failed: the lengths of the two
   histories are the two indexes, at most a ring apart; what is stored is the
   beginning of what was filled, and the rest of it is in its slots; until the
   worker is done the read tokens are the records between the indexes; and after
   the loop no worker runs or will run again. Layer 3 gives the bound that keeps a
   slot from being written again before it is stored, and the last part lets the
   drain go without a semaphore. Layer 2 is not used: the tokens alone keep the
   two sides apart, which is why the post of a semaphore not held (the last,
   unchecked wait) does no harm to the records.

That the two last theorems leave out a worker whose `open` has failed
(`failed`) is necessary: `result_unreadable` is the counterexample.

`Supervisor_proofs` proves, for every number of workers and of entries, a pipe of
any length and with any of the signals:

| Theorem | Property |
|---|---|
| `TypeCorrect` | `TypeOK` |
| `MutexInvariant` | `JobSemMutex` |
| `NobodyLeftBehind` | `ShutdownLeavesNobody` |
| `StatisticsInvariant` | `OnlyTheKilledLoseStatistics` |

From the assumption that there is a worker and a pipe, in layers:

1. `Types`, with both counters, and what a worker has loaded of one, in the
   integers.
2. `JobSemMutex`, inductive by itself with the types, as long as the manager's wait
   has not been cut short.
3. `Counted`, for the second half of `TypeOK`: so long `jobs_running` is at least
   the number of workers with a job, and `jobs_waiting` is positive while a worker
   that has seen a job has not yet counted it down. Layer 2 says that there is one
   such worker at most and that nobody else's load lies between. Equality is lost
   as soon as a worker leaves or is killed with its job. Afterwards nothing is
   claimed of the counters: two workers inside lose updates, and both may pass
   zero.
4. `Family`: in the loop the pipe is open and every living worker is in `pids`
   (the only step that drops the pid of a living worker is the interrupted
   `waitpid` after the loop); and in a shutdown the loop is left only when
   nobody is alive. `NobodyLeftBehind` is a part of it.
5. `Accounts`: as long as the pipe is open, the dead have written their
   statistics or were killed. With `Family`, closing the pipe in a shutdown can
   hurt nobody.

Layers 4 and 5 use nothing of the counters or the mutex, so the two theorems about
the shutdown hold also after the mutex is broken.

`Inventory_proofs` proves, for both versions, every tree, every number of workers
and files and every length of queue, rings and pipe, with any failures, a shutdown
and a kill of the manager at any moment:

| Theorem | Property |
|---|---|
| `TypeCorrect` | `TypeOK` |
| `CompleteInvariant` | `CompleteIsListed` |
| `OneIsWholeInvariant` | `OneIsWhole` |
| `ApprovedInvariant` | `ApprovedIsWhole` |
| `RecordsInvariant` | `RecordsAgree` |

The assumptions are those named in `Inventory`, among them that an older database
is whole. In layers:

1. `Types`, with the counters in the integers.
2. `Names`: what the two names hold at each place of the manager. `OneIsWhole`
   and `ApprovedIsWhole` are read off it.
3. `RunCounts` and `WaitCounts`: `jobs_running` is the number of workers in a
   directory, the dead ones included (in a shutdown, which drops jobs in hand, at
   least the number of the living), and `jobs_waiting` the jobs in the queue and
   on the stacks. The counters are therefore never negative, and an idle pool has
   no job anywhere. A worker that died with its job keeps the count above zero,
   so that HW4 does not end such a run.
4. `Traversed` and `Marked`: every subdirectory of a directory that was opened is
   opened, refused (by `opendir` or by `lstat`), or pending; and once the manager
   is past its loop without a shutdown nothing is pending and nothing can become
   so. Only then is the database marked complete: `CompleteIsListed`.
5. `ChanCounts` and `Tallied`: there are numbers `u[w]`, of the files of `w` that
   no record stands for yet, that account for all files emitted. What the
   indexes of a ring show of `u[w]` is its remainder modulo the length; while the
   worker is at work the read semaphore shows it exactly. The numbers are not in
   the state: each step is given new ones. The drain stores what the indexes
   show, so what is left of `u[w]` is nothing or a whole ring, and counting the
   workers with one gives `RecordsAgree`. The total of the files emitted is the
   size of a set of pairs, which a step enlarges by one, so that no sum over the
   workers has to be unfolded.

`Snapshot_proofs` proves, for every finite set of writers, every listing, every
width of the counter and every garbage, with any number of kills:

| Theorem | Property |
|---|---|
| `TypeCorrect` | `TypeOK` |
| `CountInvariant` | `CountExact` |
| `WritersInvariant` | `WritersExact` |
| `SealedInvariant` | `SealedAtTheEnd` |

In layers:

1. `Types`.
2. `Exclusive` and `Held`: no region has two writers, and who is about to store a
   field has it locked, unless its read was short.
   The unlock after a short read gives back no lock under which a counter is being
   changed.
3. `Header`: unless some read was torn, the file has a whole header or none, in
   the latter case nobody is past creating or joining it, and no read in
   progress was short.
4. `Counts`, for `CountExact`: while there is one header, `record_count` plus the
   writers between the row and the counter is the number of rows inserted, and
   the value a writer has read is the value of the field (layer 2).
5. `Joined`, for `WritersExact`: the same argument for `active_writers`, with the
   killed ones still counted. That the number of writers fits the byte makes the
   increment modulo its width an increment.
6. `Bounded` and `Sealing`, for `SealedAtTheEnd`, which must not rely on the
   counters being exact: a second header may make `active_writers` too low, and a
   wrap lowers it too, but nothing makes it too high; so as long as a snapshot is
   open there is a writer that has not ended or is on its way to the seal.
   Hence it is sealed when all have ended, though perhaps too early.

`SnapshotMap_proofs` proves, with the same generality:

| Theorem | Property |
|---|---|
| `OwnedInvariant` | `Owned`, the invariant of layers 1 and 2 |
| `ImplementsMap` | `SnapshotIsMap` |

`SnapshotIsMap` speaks of runs in which no two writers overlap, one after the
other in any number, each of which may be killed anywhere. In layers:

1. `Single` and `Unlocked`: one writer runs at most, and the others, the killed
   ones included, hold no lock. So no row is ever refused to it.
2. `Mine`: what the writer that runs knows of the file. `Place` follows the
   upsert: the rows passed do not have the key in hand, the row found has it, and
   the insertion point is the row after the last one counted. `Filled`: the
   rows that are counted have different keys. `Closed`: nobody writes to a sealed
   snapshot. `Fresh`: a header is written only where there is none. Rows behind
   the count, left by writers that were killed between the row and the counter,
   are not part of the map, and are overwritten.
3. What each of the five steps that write does to the counted rows.
4. The invariant.
5. The refinement: the header creates the map, a replaced row and an advanced
   count are the two upserts, the seal freezes it, and the other steps are stutters.

`DbDiff_proofs` uses them for the report:

| Theorem | Property |
|---|---|
| `ReportInvariant` | `ReportRight` |

It assumes of the older snapshots what `OldAssumption` says. In layers:

1. `Induct`: induction over the naturals, from the pigeonhole principle. The
   library's induction theorems cannot be used here, as the provers do not
   instantiate their operator parameter; this one is about a set instead.
2. Rows of different keys have an order (each row goes to the place that is the
   number of keys not above its own), and `Sorted` has the same rows, ascending.
3. `LinesExist`: the recursion of `Merge` has a solution, by induction on what is
   left of the two arrays. Without it nothing follows from the definition.
4. `Right`: what the lines written from `i` and `j` on say about the rows from
   there on; one lemma for each of the branches of the loops. For the files that
   have appeared it speaks of the number of lines only, since their names are
   wrong (`diff_tail`).
5. The whole report, by the same induction.
6. The rows that `db_diff` has read are counted ones (`Awaited`), so they have
   different keys by layer 2 of `SnapshotMap_proofs`, whatever the writer has
   inserted in the meantime.

Every invariant and every refinement that a passing run checks is therefore proved
for all values of the constants. Only model-checked is liveness
(`AllWorkersFinish`, `ManagerFinishes`, `ShutdownEnds`, `RunEnds`,
`WritersEnd`): the proof system does not reason about fairness and `ENABLED`.
The properties of the runs that end with a violation are false, and have no
theorem.

## Not modelled

* `fileops.sh`: a sequential script around the compiler and the tests. Its choice
  of what to recompile is a comparison of modification times of a single process.
* `t1_audit.sh` and the older build scripts: reports, pure I/O.
* Hashing, path normalisation, the parsing of `/proc`, the text of reports and
  messages, the command line: data and layout, which no property here speaks of.
* The numbers a STATUS message prints: they are read without a lock and promise
  nothing.
* Workers that die by themselves: as a failed call in `Inventory` (HW4), as
  SIGKILL in `Supervisor`; a crash at any other instruction of a worker is not
  in any module.
* `db_dec_record_count` and `db_unlock_region_wait`: they have no caller.
* In `Inventory`, the run after a killed one, which removes the temporary file.

## Plan

What is left, in this order:

1. Two runs of the inventory in a row, the second on what a killed first one
   left, for HW4's copy.
2. `Build`: what `fileops.sh build` recompiles, if it becomes parallel.
