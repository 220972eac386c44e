--------------------------- MODULE ResultChannel ---------------------------
(***************************************************************************)
(* The result side of the T5 inventory (src/HW5): each worker's result      *)
(* channel, a ring of records with a mutex and two counting semaphores, the *)
(* worker that fills it and the manager that empties it into the database,  *)
(* manager_collect_and_wait of fileops_ipc.c; and the control pipe, which   *)
(* the manager reads once in each pass.                                     *)
(*                                                                         *)
(* The job queue is the subject of JobPool; what is left of it here is the  *)
(* two counters the manager's exit decision reads: jobsWaiting, and         *)
(* jobs_running, the number of workers in Running.  A record is the number  *)
(* of the file it describes, in the order its worker met the files; 0 is    *)
(* the zeroed memory of a slot nobody wrote.  head and tail count the slots *)
(* ever passed: the code keeps them modulo ChannelLen, as in Slot.          *)
(*                                                                         *)
(* Of the control pipe there is the number of messages not read yet.  The   *)
(* write end is blocking: a worker waits there while the pipe is full.      *)
(*                                                                         *)
(* The worker's pc: "top" (no job), "list" (before the next entry),         *)
(* "report" (at the message JOB_DONE), "slot" and "lock" (at the wait for   *)
(* write_sem, for chan->sem), "fill" (holding chan->sem), "error" (holding  *)
(* it, at the message of the open that failed), "announce" and "unslot" (at *)
(* the post of read_sem, of write_sem), "exiting" (at the message           *)
(* WORKER_EXITING), "cleanup" (at the last wait for chan->sem), "mark"      *)
(* (holding it) or "markUnlocked" (that wait failed), "gone" (exited).      *)
(***************************************************************************)
EXTENDS Integers, Sequences

CONSTANTS
  NumWorkers,   \* conn->workers
  ChannelLen,   \* QUEUE_CHANNEL_LEN
  MaxFiles,     \* the regular files of the tree
  Unreadable,   \* the numbers of the files whose lstat or open may fail
  MaxDirs,      \* the directories of the tree
  PipeLen,      \* the messages the control pipe holds
  PollLen,      \* the messages the manager reads of it in one pass
  CanQuit       \* whether the manager may be told to shut down

ASSUME ConstantsAssumption ==
  /\ NumWorkers \in Nat \ {0}
  /\ ChannelLen \in Nat \ {0}
  /\ MaxFiles \in Nat
  /\ Unreadable \subseteq 1..MaxFiles
  /\ MaxDirs \in Nat \ {0}
  /\ PipeLen \in Nat \ {0}
  /\ PollLen \in Nat \ {0}
  /\ CanQuit \in BOOLEAN

Workers == 1..NumWorkers
Files   == 1..MaxFiles
Numbers == 0..MaxFiles              \* the contents of a record
Slots   == 0..(ChannelLen - 1)
Indexes == 1..(NumWorkers + 1)      \* the values of the manager's loop index

VARIABLES
  chanSem, writeSem, readSem,   \* the semaphores of each channel
  head, tail, records,          \* records_head, records_tail, records
  done,         \* chan->done
  emitted,      \* history: the records filled (stats.files_emitted of them)
  jobsWaiting,  \* header->jobs_waiting
  dirs, files,  \* history: directories discovered, regular files met so far
  messages,     \* the messages in the control pipe
  failed,       \* history: the workers one of whose opens has failed
  quitting,     \* header->quitting, and in_shutdown of the manager
  sigterm,      \* workers whose sigterm_received is set
  pc, file,     \* each worker's place, and the number of its last file
  mpc, chan,    \* the manager's place, and its loop index i
  nothing,      \* the local of the collecting pass
  alive,        \* workers whose pid the manager has not reaped
  db,           \* the records stored, per channel, in file order
  complete      \* db_header->complete

channel == <<chanSem, writeSem, readSem, head, tail, records, done, emitted>>
pool    == <<jobsWaiting, dirs, files>>
pipe    == <<messages, failed>>
signal  == <<quitting, sigterm>>
worker  == <<pc, file>>
manager == <<mpc, chan, nothing, alive, db, complete>>
vars    == <<channel, pool, pipe, signal, worker, manager>>

Places == {"top", "list", "report", "slot", "lock", "fill", "error",
           "announce", "unslot", "exiting", "cleanup", "mark", "markUnlocked",
           "gone"}
ManagerPlaces == {"top", "pass", "lock", "collect", "return", "drain", "reap",
                  "finished"}

Slot(k) == k % ChannelLen

\* A function on the workers with one entry changed, and changed by d.
Set(f, w, x) == [f EXCEPT ![w] = x]
Add(f, w, d) == [f EXCEPT ![w] = @ + d]

Init ==
  /\ chanSem = [w \in Workers |-> 1]
  /\ writeSem = [w \in Workers |-> ChannelLen]
  /\ readSem = [w \in Workers |-> 0]
  /\ head = [w \in Workers |-> 0] /\ tail = [w \in Workers |-> 0]
  /\ records = [w \in Workers |-> [i \in Slots |-> 0]]
  /\ done = [w \in Workers |-> FALSE]
  /\ emitted = [w \in Workers |-> << >>]
  /\ jobsWaiting = 1 /\ dirs = 1 /\ files = 0
  /\ messages = 0 /\ failed = {}
  /\ quitting = FALSE /\ sigterm = {}
  /\ pc = [w \in Workers |-> "top"]
  /\ file = [w \in Workers |-> 0]
  /\ mpc = "top" /\ chan = 1 /\ nothing = TRUE
  /\ alive = Workers
  /\ db = [w \in Workers |-> << >>]
  /\ complete = "START"

Running == {w \in Workers :
              pc[w] \in {"list", "report", "slot", "lock", "fill", "error",
                         "announce", "unslot"}}

\* The manager closes the pipe when its loop has ended.
PipeClosed == mpc \in {"drain", "reap", "finished"}
PipeFull   == messages = PipeLen /\ ~PipeClosed

\* write of one message: it waits for room.
Send == messages < PipeLen /\ messages' = messages + 1 /\ UNCHANGED failed

-----------------------------------------------------------------------------
(* The worker: jobs.                                                        *)

Move(w, p, q) == pc[w] = p /\ pc' = Set(pc, w, q)

\* Fault: a job is taken on any wake-up, without a look at jobs_waiting.
StartJobUnchecked(w) ==
  /\ Move(w, "top", "list") /\ ~quitting
  /\ jobsWaiting' = jobsWaiting - 1
  /\ UNCHANGED <<channel, dirs, files, pipe, signal, file, manager>>

StartJob(w) ==
  /\ Move(w, "top", "list") /\ ~quitting
  /\ jobsWaiting > 0
  /\ jobsWaiting' = jobsWaiting - 1
  /\ UNCHANGED <<channel, dirs, files, pipe, signal, file, manager>>

Discover(w) ==
  /\ pc[w] = "list" /\ ~quitting /\ dirs < MaxDirs
  /\ jobsWaiting' = jobsWaiting + 1 /\ dirs' = dirs + 1
  /\ UNCHANGED <<channel, files, pipe, signal, worker, manager>>

EndListing(w) ==
  /\ Move(w, "list", "report")
  /\ UNCHANGED <<channel, pool, pipe, signal, file, manager>>

\* The message JOB_DONE, or ERROR if the directory could not be opened, and
\* jobs_running--.
EndJob(w) ==
  /\ Move(w, "report", "top") /\ Send
  /\ UNCHANGED <<channel, pool, signal, file, manager>>

\* goto cleanup: no job is left anywhere, or a shutdown has begun.
Leave(w) ==
  /\ \/ Move(w, "top", "exiting")
        /\ (quitting \/ (jobsWaiting = 0 /\ Running = {}))
     \/ Move(w, "list", "exiting") /\ quitting
  /\ UNCHANGED <<channel, pool, pipe, signal, file, manager>>

-----------------------------------------------------------------------------
(* The worker: one regular file.                                            *)

\* readdir returns a regular file.
Meet(w) ==
  /\ ~quitting /\ files < MaxFiles
  /\ files' = files + 1 /\ file' = Add(file, w, 1)
  /\ UNCHANGED <<jobsWaiting, dirs>>

NextFile(w) ==
  /\ Move(w, "list", "slot") /\ Meet(w)
  /\ UNCHANGED <<channel, pipe, signal, manager>>

\* lstat fails: the entry is reported and passed over.
StatFails(w) ==
  /\ pc[w] = "list" /\ file[w] + 1 \in Unreadable /\ Meet(w) /\ Send
  /\ UNCHANGED <<channel, signal, pc, manager>>

\* Fault: the record is written without waiting for a free slot.
TakeNoSlot(w) ==
  /\ Move(w, "slot", "lock")
  /\ UNCHANGED <<channel, pool, pipe, signal, file, manager>>

TakeSlot(w) ==
  /\ Move(w, "slot", "lock")
  /\ writeSem[w] > 0 /\ writeSem' = Add(writeSem, w, -1)
  /\ UNCHANGED <<chanSem, readSem, head, tail, records, done, emitted, pool, pipe,
                 signal, file, manager>>

LockRecord(w) ==
  /\ Move(w, "lock", "fill")
  /\ chanSem[w] > 0 /\ chanSem' = Add(chanSem, w, -1)
  /\ head' = Add(head, w, 1)
  /\ UNCHANGED <<writeSem, readSem, tail, records, done, emitted, pool, pipe, signal,
                 file, manager>>

FillRecord(w) ==
  /\ Move(w, "fill", "announce")
  /\ records' = [records EXCEPT ![w][Slot(head[w] - 1)] = file[w]]
  /\ emitted' = [emitted EXCEPT ![w] = Append(@, file[w])]
  /\ chanSem' = Add(chanSem, w, 1)
  /\ UNCHANGED <<writeSem, readSem, head, tail, done, pool, pipe, signal, file,
                 manager>>

Announce(w) ==
  /\ Move(w, "announce", "list")
  /\ readSem' = Add(readSem, w, 1)
  /\ UNCHANGED <<chanSem, writeSem, head, tail, records, done, emitted, pool, pipe,
                 signal, file, manager>>

\* open fails: head stays advanced.
OpenFileFails(w) ==
  /\ Move(w, "fill", "error") /\ file[w] \in Unreadable
  /\ failed' = failed \cup {w}
  /\ UNCHANGED <<channel, pool, messages, signal, file, manager>>

\* The message ERROR is written while chan->sem is held; then the semaphore is
\* posted, and the slot goes back to write_sem.
Complain(w) ==
  /\ Move(w, "error", "unslot") /\ Send
  /\ chanSem' = Add(chanSem, w, 1)
  /\ UNCHANGED <<writeSem, readSem, head, tail, records, done, emitted, pool,
                 signal, file, manager>>

\* Fault: the slot of a file that cannot be opened is not given back.
KeepUnused(w) ==
  /\ Move(w, "unslot", "list")
  /\ UNCHANGED <<channel, pool, pipe, signal, file, manager>>

ReturnUnused(w) ==
  /\ Move(w, "unslot", "list")
  /\ writeSem' = Add(writeSem, w, 1)
  /\ UNCHANGED <<chanSem, readSem, head, tail, records, done, emitted, pool, pipe,
                 signal, file, manager>>

-----------------------------------------------------------------------------
(* The worker: its end, and SIGTERM.                                        *)

\* The message WORKER_EXITING.  Once the manager has closed the pipe it ends
\* the worker instead, by SIGPIPE.
Exiting(w) ==
  /\ \/ Move(w, "exiting", "cleanup") /\ ~PipeClosed /\ Send
     \/ Move(w, "exiting", "gone") /\ PipeClosed /\ UNCHANGED pipe
  /\ UNCHANGED <<channel, pool, signal, file, manager>>

LockLast(w) ==
  /\ Move(w, "cleanup", "mark")
  /\ chanSem[w] > 0 /\ chanSem' = Add(chanSem, w, -1)
  /\ UNCHANGED <<writeSem, readSem, head, tail, records, done, emitted, pool, pipe,
                 signal, file, manager>>

\* The post of chan->sem follows whether or not the wait succeeded.
MarkDone(w) ==
  /\ Move(w, "mark", "gone") \/ Move(w, "markUnlocked", "gone")
  /\ done' = Set(done, w, TRUE)
  /\ chanSem' = Add(chanSem, w, 1)
  /\ UNCHANGED <<writeSem, readSem, head, tail, records, emitted, pool, pipe, signal,
                 file, manager>>

Sigterm(w) ==
  /\ quitting /\ pc[w] # "gone" /\ w \notin sigterm
  /\ sigterm' = sigterm \cup {w}
  /\ UNCHANGED <<channel, pool, pipe, quitting, worker, manager>>

\* Fault: the slot in hand is not given back when the second wait fails.
InterruptKeepsToken(w) ==
  /\ quitting /\ w \notin sigterm
  /\ sigterm' = sigterm \cup {w}
  /\ \/ Move(w, "slot", "exiting") \/ Move(w, "lock", "exiting")
     \/ Move(w, "cleanup", "markUnlocked")
  /\ UNCHANGED <<channel, pool, pipe, quitting, file, manager>>

\* SIGTERM while w sleeps on a semaphore of its channel: safe_sem_wait = -1.
\* At "lock" the slot is given back first.
Interrupt(w) ==
  /\ quitting /\ w \notin sigterm
  /\ sigterm' = sigterm \cup {w}
  /\ \/ Move(w, "slot", "exiting") /\ UNCHANGED writeSem
     \/ Move(w, "lock", "exiting") /\ writeSem' = Add(writeSem, w, 1)
     \/ Move(w, "cleanup", "markUnlocked") /\ UNCHANGED writeSem
  /\ UNCHANGED <<chanSem, readSem, head, tail, records, done, emitted, pool, pipe,
                 quitting, file, manager>>

\* SIGTERM while w waits for room in the pipe: the message is lost, and w goes
\* on behind the write.
InterruptWrite(w) ==
  /\ quitting /\ w \notin sigterm /\ PipeFull
  /\ sigterm' = sigterm \cup {w}
  /\ \/ Move(w, "report", "top") /\ UNCHANGED chanSem
     \/ Move(w, "error", "unslot") /\ chanSem' = Add(chanSem, w, 1)
     \/ Move(w, "exiting", "cleanup") /\ UNCHANGED chanSem
  /\ UNCHANGED <<writeSem, readSem, head, tail, records, done, emitted, pool,
                 pipe, quitting, file, manager>>

-----------------------------------------------------------------------------
(* The manager: passes over the channels, one record of each per pass.      *)

MMove(p, q) == mpc = p /\ mpc' = q

\* The head of the loop: reap the exited, begin a shutdown if told to, read
\* what one read takes of the pipe, and start a pass.
BeginPass ==
  /\ MMove("top", "pass") /\ chan' = 1 /\ nothing' = TRUE
  /\ alive' = {w \in alive : pc[w] # "gone"}
  /\ quitting' \in {quitting, quitting \/ CanQuit}
  /\ messages' = IF messages > PollLen THEN messages - PollLen ELSE 0
  /\ UNCHANGED <<channel, pool, failed, sigterm, worker, db, complete>>

SkipEmpty ==
  /\ mpc = "pass" /\ chan \in Workers /\ readSem[chan] = 0
  /\ chan' = chan + 1
  /\ UNCHANGED <<channel, pool, pipe, signal, worker, mpc, nothing, alive, db,
                 complete>>

TakeRecordToken ==
  /\ chan \in Workers /\ MMove("pass", "lock")
  /\ readSem[chan] > 0 /\ readSem' = Add(readSem, chan, -1)
  /\ UNCHANGED <<chanSem, writeSem, head, tail, records, done, emitted, pool, pipe,
                 signal, worker, chan, nothing, alive, db, complete>>

\* Fault: the channel is read without its semaphore.
LockNothing ==
  /\ MMove("lock", "collect")
  /\ UNCHANGED <<channel, pool, pipe, signal, worker, chan, nothing, alive, db,
                 complete>>

LockChannel ==
  /\ MMove("lock", "collect")
  /\ chanSem[chan] > 0 /\ chanSem' = Add(chanSem, chan, -1)
  /\ UNCHANGED <<writeSem, readSem, head, tail, records, done, emitted, pool, pipe,
                 signal, worker, chan, nothing, alive, db, complete>>

\* fwrite of the record at records_tail, which is then advanced.
Store(w) ==
  /\ db' = [db EXCEPT ![w] = Append(@, records[w][Slot(tail[w])])]
  /\ tail' = Add(tail, w, 1)

\* Fault: the record of a worker that is done is passed over, not stored.
CollectDropping ==
  /\ MMove("collect", "return")
  /\ chanSem' = Add(chanSem, chan, 1)
  /\ IF done[chan] THEN tail' = Add(tail, chan, 1) /\ UNCHANGED <<nothing, db>>
                   ELSE Store(chan) /\ nothing' = FALSE
  /\ UNCHANGED <<writeSem, readSem, head, records, done, emitted, pool, pipe, signal,
                 worker, chan, alive, complete>>

\* Once the worker is done its records are left for the final drain.
Collect ==
  /\ MMove("collect", "return")
  /\ chanSem' = Add(chanSem, chan, 1)
  /\ IF done[chan] THEN UNCHANGED <<nothing, db, tail>>
                   ELSE Store(chan) /\ nothing' = FALSE
  /\ UNCHANGED <<writeSem, readSem, head, records, done, emitted, pool, pipe, signal,
                 worker, chan, alive, complete>>

\* Fault: the slot of the stored record is not given back to the worker.
KeepSlot ==
  /\ MMove("return", "pass") /\ chan' = chan + 1
  /\ UNCHANGED <<channel, pool, pipe, signal, worker, nothing, alive, db, complete>>

ReturnSlot ==
  /\ MMove("return", "pass") /\ chan' = chan + 1
  /\ writeSem' = Add(writeSem, chan, 1)
  /\ UNCHANGED <<chanSem, readSem, head, tail, records, done, emitted, pool, pipe,
                 signal, worker, nothing, alive, db, complete>>

\* After a pass: stop when, in a shutdown, every worker has been reaped, and
\* otherwise when the pool is idle and the pass found nothing.
CanStop == IF quitting THEN alive = {}
           ELSE jobsWaiting = 0 /\ Running = {} /\ nothing

EndPass ==
  /\ mpc = "pass" /\ chan \notin Workers
  /\ IF CanStop THEN mpc' = "drain" /\ chan' = 1
                ELSE mpc' = "top" /\ UNCHANGED chan
  /\ UNCHANGED <<channel, pool, pipe, signal, worker, nothing, alive, db, complete>>

-----------------------------------------------------------------------------
(* The manager: after the loop.                                             *)

\* The final drain holds no semaphore, and compares the indexes as they are
\* kept, modulo the length of the ring.
Drain ==
  /\ mpc = "drain" /\ chan \in Workers
  /\ IF Slot(tail[chan]) # Slot(head[chan])
       THEN Store(chan) /\ UNCHANGED chan
       ELSE chan' = chan + 1 /\ UNCHANGED <<tail, db>>
  /\ UNCHANGED <<chanSem, writeSem, readSem, head, records, done, emitted, pool, pipe,
                 signal, worker, mpc, nothing, alive, complete>>

EndDrain ==
  /\ chan \notin Workers /\ MMove("drain", "reap")
  /\ UNCHANGED <<channel, pool, pipe, signal, worker, chan, nothing, alive, db,
                 complete>>

\* waitpid on each worker, then the statistics and the completion state.
Finish ==
  /\ MMove("reap", "finished") /\ \A w \in alive : pc[w] = "gone"
  /\ alive' = {}
  /\ complete' = IF quitting THEN "PART" ELSE "FULL"
  /\ UNCHANGED <<channel, pool, pipe, signal, worker, chan, nothing, db>>

-----------------------------------------------------------------------------
\* A worker that complains with chan->sem in its hands, and the manager that
\* waits for chan->sem before it reads the pipe again, wait for each other.
Jammed == mpc = "lock" /\ pc[chan] = "error" /\ PipeFull

FileStep(w) == NextFile(w) \/ StatFails(w) \/ TakeSlot(w) \/ LockRecord(w)
               \/ FillRecord(w) \/ Announce(w) \/ OpenFileFails(w)
               \/ Complain(w) \/ ReturnUnused(w)
Step(w)     == StartJob(w) \/ Discover(w) \/ EndListing(w) \/ EndJob(w)
               \/ Leave(w) \/ FileStep(w) \/ Exiting(w) \/ LockLast(w)
               \/ MarkDone(w)
Manager     == BeginPass \/ SkipEmpty \/ TakeRecordToken \/ LockChannel
               \/ Collect \/ ReturnSlot \/ EndPass \/ Drain \/ EndDrain \/ Finish
Stopped     == (mpc = "finished" \/ Jammed) /\ UNCHANGED vars

Next == (\E w \in Workers : Step(w) \/ Sigterm(w) \/ Interrupt(w)
                             \/ InterruptWrite(w))
        \/ Manager \/ Stopped

Spec == Init /\ [][Next]_vars

\* The kernel schedules every process that can run.
FairSpec == /\ Spec /\ WF_vars(Manager)
            /\ \A w \in Workers : WF_vars(Step(w))

-----------------------------------------------------------------------------
(* Properties.                                                              *)

\* Every variable keeps its type.
TypeOK ==
  /\ chanSem \in [Workers -> Nat] /\ readSem \in [Workers -> Nat]
  /\ writeSem \in [Workers -> Nat]
  /\ head \in [Workers -> Nat] /\ tail \in [Workers -> Nat]
  /\ records \in [Workers -> [Slots -> Numbers]]
  /\ done \in [Workers -> BOOLEAN]
  /\ emitted \in [Workers -> Seq(Files)]
  /\ jobsWaiting \in Nat /\ dirs \in Nat /\ files \in 0..MaxFiles
  /\ messages \in 0..PipeLen /\ failed \subseteq Workers
  /\ quitting \in BOOLEAN /\ sigterm \subseteq Workers
  /\ pc \in [Workers -> Places] /\ file \in [Workers -> Numbers]
  /\ mpc \in ManagerPlaces /\ chan \in Indexes
  /\ nothing \in BOOLEAN /\ alive \subseteq Workers
  /\ db \in [Workers -> Seq(Numbers)]
  /\ complete \in {"START", "FULL", "PART"}

\* chan->sem excludes the worker and the manager from each other.  After a
\* SIGTERM this is only known of the workers it did not reach: a worker whose
\* last wait it interrupted posts a semaphore it does not hold.
LockedByWorker(w)  == IF pc[w] \in {"fill", "error", "mark"} THEN 1 ELSE 0
LockedByManager(w) == IF chan = w /\ mpc = "collect" THEN 1 ELSE 0
ChannelMutex ==
  \A w \in Workers \ sigterm :
    chanSem[w] + LockedByWorker(w) + LockedByManager(w) = 1

\* The two counting semaphores of a channel share ChannelLen tokens: one for
\* each slot that is free, in the worker's hands, announced, or in the manager's
\* hands.  No failed open, interrupted wait or channel already done loses one
\* or makes one, so the worker never has more slots than the ring.
HeldByWorker(w)  == IF pc[w] \in {"lock", "fill", "error", "announce", "unslot"}
                    THEN 1 ELSE 0
HeldByManager(w) == IF chan = w /\ mpc \in {"lock", "collect", "return"}
                    THEN 1 ELSE 0
TokensConserved ==
  \A w \in Workers :
    writeSem[w] + readSem[w] + HeldByWorker(w) + HeldByManager(w) = ChannelLen

\* The records of w between tail and head that are filled.
Unread(w) ==
  [k \in 1..(head[w] - tail[w] - (IF pc[w] = "fill" THEN 1 ELSE 0))
     |-> records[w][Slot(tail[w] + k - 1)]]

\* The channel is a queue as long as every open succeeds: the records stored
\* and those unread are, in order and each once, the records the worker
\* filled.  Nothing is overwritten before it is stored, nothing is stored
\* twice, stale or half written, in every interleaving with done, with the
\* unlocked drain and with interrupted waits.
ChannelIsQueue ==
  \A w \in Workers \ failed : emitted[w] = db[w] \o Unread(w)

\* When the manager is finished the database has every record that a worker
\* filled whose opens succeeded, except that the whole of a ring left exactly
\* full is missing.
LossIsFullRing ==
  mpc = "finished" =>
    \A w \in Workers \ failed :
      Len(emitted[w]) - Len(db[w]) \in {0, ChannelLen}

\* Outside a shutdown the manager's loop ends, whatever the order in which
\* workers wait for slots, for room in the pipe, end, and have their records
\* stored, unless a full pipe has jammed it.
ManagerFinishes == <>quitting \/ <>(mpc = "finished") \/ <>[]Jammed

\* What T4_DB_FORMAT.md says of the two numbers the database keeps: a complete
\* database (complete = 1) holds a record of every file indexed, the
\* files_emitted of the worker statistics.
CompleteHoldsAll ==
  complete = "FULL" => \A w \in Workers : Len(db[w]) = Len(emitted[w])

\* What T4_DB_FORMAT.md says of a file record: it describes an indexed file.
RecordsDescribeFiles ==
  \A w \in Workers : \A k \in 1..Len(db[w]) :
    \E i \in 1..Len(emitted[w]) : db[w][k] = emitted[w][i]
=============================================================================
