----------------------------- MODULE Inventory -----------------------------
(***************************************************************************)
(* A whole run of the file inventory, from the root directory to the        *)
(* published database, in the version of HW4 and in that of HW5: workers    *)
(* that share the jobs and fill their rings, the manager that collects,     *)
(* reaps and publishes, and what --verify and --dump find under the final   *)
(* name when the manager is killed at any step.                             *)
(*                                                                         *)
(* The versions differ where a call fails (an HW4 worker exits on the spot, *)
(* ERRCHECK, with its job counted and whatever semaphore it holds; one of   *)
(* HW5 writes to the control pipe and goes on), in the shutdown, which only *)
(* HW5 has, and in publishing: HW4 removes the old database and copies the  *)
(* temporary file, HW5 renames it.                                          *)
(*                                                                         *)
(* A critical section of job_sem or of a channel is one step, with the      *)
(* posts and waits around it; JobPool, ResultChannel and Supervisor have    *)
(* them apart, with the signals that cut them short.                        *)
(***************************************************************************)
EXTENDS Naturals, FiniteSets, Sequences

CONSTANTS
  Versions,      \* the versions a run considers, a subset of HW4 and HW5
  N,             \* --workers
  Dirs, Root,    \* the directories, and --root
  Sub, Files,    \* subdirectories (within --max-depth) and number of files
  BadDirs,       \* directories opendir may fail for
  BadEntries,    \* directories with entries that lstat or open may fail for
  QueueLen,      \* QUEUE_JOB_LEN
  RingLen,       \* QUEUE_CHANNEL_LEN
  PipeLen,       \* the messages the control pipe has room for (HW5)
  PollLen,       \* the messages the manager reads at one poll
  Olds,          \* what the final name may hold at the start
  MayKill        \* the manager may be killed

Workers == 1..N

File == [there : BOOLEAN, header : BOOLEAN, complete : 0..2, records : Nat,
         rows : Nat, stats : BOOLEAN]

ASSUME ConstantsAssumption ==
  /\ Versions \subseteq {"HW4", "HW5"} /\ N \in Nat \ {0}
  /\ Root \in Dirs /\ Sub \in [Dirs -> SUBSET Dirs] /\ Files \in [Dirs -> Nat]
  /\ BadDirs \subseteq Dirs /\ BadEntries \subseteq Dirs
  /\ QueueLen \in Nat \ {0} /\ RingLen \in Nat \ {0, 1} /\ MayKill \in BOOLEAN
  /\ PipeLen \in Nat \ {0} /\ PollLen \in Nat \ {0}

\* The completion byte (DB_START, DB_FULL_COMPLETE, DB_PART_COMPLETE of HW5).
Start == 0
Full == 1
Part == 2

\* A database file: the header with its mapped fields, how many records and
\* whether the statistics have reached the file.
NoFile == [there |-> FALSE, header |-> FALSE, complete |-> Start,
           records |-> 0, rows |-> 0, stats |-> FALSE]
Fresh  == [NoFile EXCEPT !.there = TRUE, !.header = TRUE]
Empty  == [NoFile EXCEPT !.there = TRUE]

\* All that the header announces and --dump reads is in the file.
Whole(f) == f.there /\ f.header /\ f.rows = f.records /\ f.stats

ASSUME OldsAssumption == Olds \subseteq File /\ \A f \in Olds : f.there => Whole(f)

VARIABLES
  version,
  queue, tokens,       \* the shared jobs, and queue_read_sem
  running, waiting,    \* jobs_running and jobs_waiting
  pc, stack, job, todo,    \* each worker: place, private jobs, job in hand
                           \* and what is left of its directory
  chan,                \* each worker's channel
  messages,            \* how many the control pipe holds
  quitting,            \* HW5: the manager has begun a shutdown
  mpc, next, nothing,  \* manager: place, next channel of the pass, and whether
                       \* the pass has collected nothing
  killed,              \* the manager was killed, or an ERRCHECK ended it
  temp, final,         \* the temporary file and the final name
  opened, refused      \* history: directories that opendir opened, and that
                       \* opendir or lstat refused

pool    == <<queue, tokens, running, waiting>>
worker  == <<pc, stack, job, todo>>
loop    == <<mpc, next, nothing>>
disk    == <<temp, final>>
history == <<opened, refused>>
vars    == <<version, pool, worker, chan, messages, quitting, loop, killed, disk,
             history>>

NoJob == [dirs |-> {}, files |-> 0]

\* manager_init, and the start of the workers.
Init ==
  /\ version \in Versions
  /\ queue = <<Root>> /\ tokens = 1 /\ running = 0 /\ waiting = 1
  /\ pc = [w \in Workers |-> "top"] /\ stack = [w \in Workers |-> << >>]
  /\ job = [w \in Workers |-> Root] /\ todo = [w \in Workers |-> NoJob]
  /\ chan = [w \in Workers |-> [sem |-> 1, writeSem |-> RingLen, readSem |-> 0,
                                head |-> 0, tail |-> 0, done |-> FALSE,
                                emitted |-> 0, odd |-> FALSE]]
  /\ messages = 0 /\ quitting = FALSE
  /\ mpc = "begin" /\ next = 1 /\ nothing = TRUE
  /\ killed = FALSE /\ temp = Fresh /\ final \in Olds
  /\ opened = {} /\ refused = {}

-----------------------------------------------------------------------------
(* Workers (main_fileops_worker.c).                                         *)

At(w, l)   == ~killed /\ pc[w] = l
Goto(w, l) == pc' = [pc EXCEPT ![w] = l]
\* Fault: the jobs in hand are not looked at.
NoneWaiting == waiting = 0

NoJobs == waiting = 0 /\ running = 0

\* What a worker leaves alone, with a message to the manager and without one.
\* In HW5 each message waits for room in the pipe.
Others  == UNCHANGED <<version, quitting, loop, killed, disk>>
Reports == Others /\ IF version = "HW5"
                       THEN messages < PipeLen /\ messages' = messages + 1
                       ELSE UNCHANGED messages
Static  == Others /\ UNCHANGED messages

\* Fault: an idle pool is left without a token for the next sleeper.
CheckIdleSilently(w) ==
  /\ At(w, "top")
  /\ Goto(w, IF NoJobs /\ stack[w] = << >> THEN "leaving" ELSE "take")
  /\ UNCHANGED <<pool, stack, job, todo, chan, history>> /\ Static

\* The check under job_sem, made twice: an idle pool is left, with a token for
\* the next sleeper.
CheckIdle(w) ==
  /\ At(w, "top")
  /\ \/ /\ NoJobs /\ stack[w] = << >>
        /\ tokens' = tokens + 1 /\ Goto(w, "leaving")
     \/ /\ ~(NoJobs /\ stack[w] = << >>)
        /\ Goto(w, "take") /\ UNCHANGED tokens
  /\ UNCHANGED <<queue, running, waiting, stack, job, todo, chan, history>> /\ Static

\* Fault: a job from the private stack is not counted as running.
PopStackUncounted(w) ==
  /\ At(w, "take") /\ stack[w] # << >> /\ Goto(w, "open")
  /\ job' = [job EXCEPT ![w] = Head(stack[w])]
  /\ stack' = [stack EXCEPT ![w] = Tail(@)]
  /\ waiting' = waiting - 1
  /\ UNCHANGED <<queue, tokens, running, todo, chan, history>> /\ Static

PopStack(w) ==
  /\ At(w, "take") /\ stack[w] # << >> /\ Goto(w, "open")
  /\ job' = [job EXCEPT ![w] = Head(stack[w])]
  /\ stack' = [stack EXCEPT ![w] = Tail(@)]
  /\ running' = running + 1 /\ waiting' = waiting - 1
  /\ UNCHANGED <<queue, tokens, todo, chan, history>> /\ Static

\* queue_read_sem; a token without a job sends the worker back.  (TakeFindsJob
\* of JobPool: a job that is waiting then is one in the queue.)
TakeJob(w) ==
  /\ At(w, "take") /\ stack[w] = << >> /\ tokens > 0 /\ tokens' = tokens - 1
  /\ \/ /\ waiting = 0 /\ Goto(w, "top")
        /\ UNCHANGED <<queue, running, waiting, job>>
     \/ /\ waiting # 0 /\ queue # << >> /\ Goto(w, "open")
        /\ job' = [job EXCEPT ![w] = Head(queue)] /\ queue' = Tail(queue)
        /\ running' = running + 1 /\ waiting' = waiting - 1
  /\ UNCHANGED <<stack, todo, chan, history>> /\ Static

OpenDir(w) ==
  /\ At(w, "open") /\ Goto(w, "list")
  /\ todo' = [todo EXCEPT ![w] = [dirs |-> Sub[job[w]], files |-> Files[job[w]]]]
  /\ opened' = opened \cup {job[w]}
  /\ UNCHANGED <<pool, stack, job, chan, refused>> /\ Static

\* Fault: the worker that exits takes its count back.
OpenFailsUncounted(w) ==
  /\ At(w, "open") /\ job[w] \in BadDirs /\ refused' = refused \cup {job[w]}
  /\ Goto(w, IF version = "HW4" THEN "dead" ELSE "top") /\ running' = running - 1
  /\ UNCHANGED <<queue, tokens, waiting, stack, job, todo, chan, opened>> /\ Reports

\* opendir fails: an HW4 worker exits, one of HW5 takes its count back.
OpenFails(w) ==
  /\ At(w, "open") /\ job[w] \in BadDirs /\ refused' = refused \cup {job[w]}
  /\ \/ version = "HW4" /\ Goto(w, "dead") /\ UNCHANGED running
     \/ version = "HW5" /\ Goto(w, "top") /\ running' = running - 1
  /\ UNCHANGED <<queue, tokens, waiting, stack, job, todo, chan, opened>> /\ Reports

\* A subdirectory goes to the queue, or to the private stack when that is full.
Discover(w) == \E d \in todo[w].dirs :
  /\ At(w, "list") /\ todo' = [todo EXCEPT ![w].dirs = @ \ {d}]
  /\ waiting' = waiting + 1
  /\ \/ /\ Len(queue) < QueueLen
        /\ queue' = Append(queue, d) /\ tokens' = tokens + 1 /\ UNCHANGED stack
     \/ /\ Len(queue) = QueueLen
        /\ stack' = [stack EXCEPT ![w] = <<d>> \o @] /\ UNCHANGED <<queue, tokens>>
  /\ UNCHANGED <<running, pc, job, chan, history>> /\ Static

\* A regular file: wait for a slot and for the channel, fill the slot.
Emit(w) ==
  /\ At(w, "list") /\ todo[w].files > 0
  /\ chan[w].writeSem > 0 /\ chan[w].sem = 1
  /\ todo' = [todo EXCEPT ![w].files = @ - 1]
  /\ chan' = [chan EXCEPT ![w].writeSem = @ - 1, ![w].readSem = @ + 1,
                          ![w].head = (@ + 1) % RingLen, ![w].emitted = @ + 1]
  /\ UNCHANGED <<pool, pc, stack, job, history>> /\ Static

\* lstat fails, for a file or for a subdirectory, which HW5 skips.
Vanished(w) ==
  /\ At(w, "list") /\ job[w] \in BadEntries
  /\ \E rest \in {[todo[w] EXCEPT !.dirs = @ \ {d}] : d \in todo[w].dirs}
                 \cup {[todo[w] EXCEPT !.files = n] : n \in {todo[w].files - 1} \cap Nat} :
       \/ version = "HW4" /\ Goto(w, "dead") /\ UNCHANGED <<todo, refused>>
       \/ /\ version = "HW5" /\ todo' = [todo EXCEPT ![w] = rest]
          /\ refused' = refused \cup (todo[w].dirs \ rest.dirs) /\ UNCHANGED pc
  /\ UNCHANGED <<pool, stack, job, chan, opened>> /\ Reports

\* open fails, with the channel's semaphore held and the head of the ring
\* advanced: an HW4 worker exits, one of HW5 has an error to write.
OpenFileFails(w) ==
  /\ At(w, "list") /\ todo[w].files > 0 /\ job[w] \in BadEntries
  /\ chan[w].writeSem > 0 /\ chan[w].sem = 1
  /\ chan' = [chan EXCEPT ![w].writeSem = @ - 1, ![w].sem = 0,
                          ![w].head = (@ + 1) % RingLen, ![w].odd = TRUE]
  /\ \/ version = "HW4" /\ Goto(w, "dead") /\ UNCHANGED todo
     \/ /\ version = "HW5" /\ Goto(w, "error")
        /\ todo' = [todo EXCEPT ![w].files = @ - 1]
  /\ UNCHANGED <<pool, stack, job, history>> /\ Static

\* The error written, semaphore and slot are given back.
GiveBack(w) ==
  /\ At(w, "error") /\ Goto(w, "list")
  /\ chan' = [chan EXCEPT ![w].sem = 1, ![w].writeSem = @ + 1]
  /\ UNCHANGED <<pool, stack, job, todo, history>>
Complain(w)       == GiveBack(w) /\ Reports
InterruptWrite(w) == GiveBack(w) /\ quitting /\ messages = PipeLen /\ Static

EndJob(w) ==
  /\ At(w, "list") /\ todo[w] = NoJob /\ Goto(w, "top")
  /\ running' = running - 1
  /\ UNCHANGED <<queue, tokens, waiting, stack, job, todo, chan, history>> /\ Reports

\* HW5: the flag, or SIGTERM in a wait: the worker drops what it has in hand.
Abandon(w) ==
  /\ quitting /\ pc[w] \in {"top", "take", "open", "list"} /\ ~killed
  /\ Goto(w, "leaving")
  /\ UNCHANGED <<pool, stack, job, todo, chan, history>> /\ Static

\* cleanup: the last message, then statistics and done, under the channel's
\* semaphore.  In HW5 SIGPIPE ends a worker that writes after the manager has
\* left its loop.
InLoop == {"begin", "pass"}
Leave(w) ==
  /\ At(w, "leaving") /\ chan[w].sem = 1 /\ Goto(w, "gone")
  /\ \/ /\ version = "HW5" => mpc \in InLoop
        /\ chan' = [chan EXCEPT ![w].done = TRUE] /\ Reports
     \/ version = "HW5" /\ mpc \notin InLoop /\ UNCHANGED chan /\ Static
  /\ UNCHANGED <<pool, stack, job, todo, history>>

-----------------------------------------------------------------------------
(* The manager's loop (manager_collect, manager_collect_and_wait).          *)

Manager(l) == ~killed /\ mpc = l
Still == UNCHANGED <<version, pool, worker, messages, history>>

BeginShutdown ==
  /\ version = "HW5" /\ Manager("begin") /\ ~quitting
  /\ quitting' = TRUE
  /\ UNCHANGED <<chan, loop, killed, disk>> /\ Still

\* The control pipe is read.
BeginPass ==
  /\ Manager("begin") /\ mpc' = "pass"
  /\ messages' = IF messages > PollLen THEN messages - PollLen ELSE 0
  /\ UNCHANGED <<version, pool, worker, history, chan, quitting, next, nothing,
                 killed, disk>>

SkipEmpty ==
  /\ Manager("pass") /\ next \in Workers /\ chan[next].readSem = 0
  /\ next' = next + 1
  /\ UNCHANGED <<chan, quitting, mpc, nothing, killed, disk>> /\ Still

\* A token is taken in any case, a record only if the worker is not done.
Collect ==
  /\ Manager("pass") /\ next \in Workers
  /\ chan[next].readSem > 0 /\ chan[next].sem = 1
  /\ next' = next + 1
  /\ LET stored == ~chan[next].done IN
       /\ chan' = [chan EXCEPT ![next].readSem = @ - 1, ![next].writeSem = @ + 1,
                    ![next].tail = IF stored THEN (@ + 1) % RingLen ELSE @]
       /\ temp' = [temp EXCEPT !.records = IF stored THEN @ + 1 ELSE @]
       /\ nothing' = (nothing /\ ~stored)
  /\ UNCHANGED <<quitting, mpc, killed, final>> /\ Still

\* All workers have been reaped.
Reaped == \A w \in Workers : pc[w] \in {"gone", "dead"}

\* The exit decision.  HW4 only tries job_sem, and passes again when a worker
\* has it.
CanStop == IF quitting THEN Reaped ELSE NoJobs /\ nothing
EndPass ==
  /\ Manager("pass") /\ next = N + 1 /\ next' = 1 /\ nothing' = TRUE
  /\ mpc' \in (IF CanStop THEN {"drain"} ELSE {"begin"})
              \cup (IF version = "HW4" /\ ~Reaped THEN {"begin"} ELSE {})
  /\ UNCHANGED <<chan, quitting, killed, disk>> /\ Still

\* The records between tail and head of one channel after the other: none in a
\* ring that is exactly full.
Drain ==
  /\ Manager("drain")
  /\ \/ /\ next \in Workers /\ next' = next + 1
        /\ LET left == (chan[next].head + RingLen - chan[next].tail) % RingLen IN
             temp' = [temp EXCEPT !.records = @ + left]
        /\ chan' = [chan EXCEPT ![next].tail = chan[next].head]
        /\ UNCHANGED mpc
     \/ /\ next = N + 1 /\ mpc' = "wait" /\ UNCHANGED <<next, temp, chan>>
  /\ UNCHANGED <<nothing, quitting, killed, final>> /\ Still

\* Fault: the statistics are left in the buffer of the stream.
FinishUnflushed ==
  /\ Manager("wait") /\ Reaped
  /\ mpc' = IF version = "HW4" THEN "mark" ELSE "close"
  /\ temp' = [temp EXCEPT !.complete = IF version = "HW4" THEN @
                                      ELSE IF quitting THEN Part ELSE Full]
  /\ UNCHANGED <<chan, next, nothing, quitting, killed, final>> /\ Still

\* wait or waitpid for every worker, statistics, fflush; HW5 has the completion
\* byte here.
Finish ==
  /\ Manager("wait") /\ Reaped
  /\ mpc' = IF version = "HW4" THEN "mark" ELSE "close"
  /\ temp' = [temp EXCEPT !.stats = TRUE, !.rows = temp.records,
       !.complete = IF version = "HW4" THEN @ ELSE IF quitting THEN Part ELSE Full]
  /\ UNCHANGED <<chan, next, nothing, quitting, killed, final>> /\ Still

-----------------------------------------------------------------------------
(* manager_quit.                                                            *)

Publishing == UNCHANGED <<chan, next, nothing, quitting, killed>> /\ Still

\* HW4: the completion byte and msync, then access and remove.
Mark ==
  /\ Manager("mark") /\ mpc' = "remove"
  /\ temp' = [temp EXCEPT !.complete = Full]
  /\ UNCHANGED final /\ Publishing
Remove ==
  /\ Manager("remove") /\ mpc' = "create"
  /\ final' = NoFile /\ UNCHANGED temp /\ Publishing
Create ==
  /\ Manager("create") /\ mpc' = "copy"
  /\ final' = Empty /\ UNCHANGED temp /\ Publishing

\* copyfile: the first page has the header, the last one the statistics.
CopyPage ==
  /\ Manager("copy")
  /\ \E n \in final.rows..temp.rows :
       final' = [temp EXCEPT !.rows = n, !.stats = FALSE]
  /\ UNCHANGED <<temp, mpc>> /\ Publishing
CopyLast ==
  /\ Manager("copy") /\ mpc' = "end"
  /\ final' = temp /\ UNCHANGED temp /\ Publishing

\* Fault: the temporary file is published as by HW4.
CloseForCopy ==
  /\ Manager("close") /\ mpc' = "remove"
  /\ temp' = [temp EXCEPT !.rows = temp.records]
  /\ UNCHANGED final /\ Publishing
\* HW5: munmap and fclose, then rename.
Close ==
  /\ Manager("close") /\ mpc' = "rename"
  /\ temp' = [temp EXCEPT !.rows = temp.records]
  /\ UNCHANGED final /\ Publishing
Rename ==
  /\ Manager("rename") /\ mpc' = "end"
  /\ final' = temp /\ temp' = NoFile /\ Publishing

\* SIGKILL, or an ERRCHECK that fails.  What the workers do then concerns
\* neither file, and they are not followed any further.
Kill ==
  /\ MayKill /\ ~killed /\ mpc # "end" /\ killed' = TRUE
  /\ UNCHANGED <<chan, quitting, loop, disk>> /\ Still

-----------------------------------------------------------------------------
Work(w) == \/ CheckIdle(w) \/ PopStack(w) \/ TakeJob(w) \/ OpenDir(w)
           \/ OpenFails(w) \/ Discover(w) \/ Emit(w) \/ Vanished(w)
           \/ OpenFileFails(w) \/ Complain(w) \/ EndJob(w) \/ Abandon(w)
           \/ Leave(w)
CollectAndWait == BeginPass \/ SkipEmpty \/ Collect \/ EndPass \/ Drain \/ Finish
QuitManager == Mark \/ Remove \/ Create \/ CopyLast \/ Close \/ Rename

\* The manager waits for a channel whose worker, with its semaphore, waits for
\* the manager to read the pipe.
Jammed == /\ mpc = "pass" /\ next \in Workers
          /\ chan[next].readSem > 0 /\ pc[next] = "error" /\ messages = PipeLen

\* The run is over; or a worker of HW4 that died keeps the others waiting; or
\* the jam lasts.
Dead == {w \in Workers : pc[w] = "dead"}
Over == (killed \/ mpc = "end" \/ Dead # {} \/ Jammed) /\ UNCHANGED vars

Next == \/ \E w \in Workers : Work(w) \/ InterruptWrite(w)
        \/ BeginShutdown \/ CollectAndWait \/ QuitManager \/ CopyPage \/ Kill
        \/ Over

Spec == Init /\ [][Next]_vars

\* The kernel schedules every worker and the manager; a file is copied in
\* finitely many pages.
FairSpec == /\ Spec /\ \A w \in Workers : WF_vars(Work(w))
            /\ WF_vars(CollectAndWait) /\ WF_vars(QuitManager)

-----------------------------------------------------------------------------
(* What a reader does with the final name (main_fileops_manager.c).         *)

\* --verify: HW4 looks at the completion byte, HW5 only at format and signature.
Approves(f) == f.there /\ f.header /\ (version = "HW4" => f.complete # Start)

-----------------------------------------------------------------------------
(* Properties.                                                              *)

\* Every variable keeps its type; no counter or semaphore goes below zero.
TypeOK ==
  /\ version \in Versions
  /\ queue \in Seq(Dirs) /\ tokens \in Nat /\ running \in Nat /\ waiting \in Nat
  /\ pc \in [Workers -> {"top", "take", "open", "list", "error", "leaving", "gone",
                     "dead"}]
  /\ stack \in [Workers -> Seq(Dirs)] /\ job \in [Workers -> Dirs]
  /\ todo \in [Workers -> [dirs : SUBSET Dirs, files : Nat]]
  /\ chan \in [Workers -> [sem : 0..1, writeSem : Nat, readSem : Nat,
                           head : 0..(RingLen - 1), tail : 0..(RingLen - 1),
                           done : BOOLEAN, emitted : Nat, odd : BOOLEAN]]
  /\ messages \in 0..PipeLen /\ quitting \in BOOLEAN
  /\ next \in 1..(N + 1) /\ nothing \in BOOLEAN
  /\ mpc \in {"begin", "pass", "drain", "wait", "mark", "remove", "create", "copy",
              "close", "rename", "end"}
  /\ killed \in BOOLEAN /\ temp \in File /\ final \in File
  /\ opened \subseteq Dirs /\ refused \subseteq Dirs

\* The directories that have not been worked off: queued, on a private stack,
\* in hand, or still to be found in one that is being listed.
Queued    == {queue[i] : i \in 1..Len(queue)}
OnStack   == UNION {{stack[w][i] : i \in 1..Len(stack[w])} : w \in Workers}
BeingRead == UNION {{job[w]} : w \in {v \in Workers : pc[v] = "open"}}
ToBeFound == UNION {todo[w].dirs : w \in Workers}
Pending   == Queued \cup OnStack \cup BeingRead \cup ToBeFound

\* A database that is marked fully complete is the result of a whole traversal:
\* of the root and of each subdirectory of a directory that was listed, every
\* one was listed, or opendir or lstat failed for it in a worker of HW5 (which
\* leaves no trace in the database), and no worker stopped on the way.
CompleteIsListed ==
  temp.complete = Full =>
    /\ Pending = {} /\ Dead = {}
    /\ Root \in opened \cup refused
    /\ \A d \in opened : Sub[d] \subseteq opened \cup refused

\* The file the run has written, renamed or not, and the files the workers say
\* they have emitted.
Result  == IF temp.there THEN temp ELSE final
Emitted == Cardinality(UNION {{w} \X (1..chan[w].emitted) : w \in Workers})

\* Once drained, the database holds every record the statistics speak of, except
\* those of rings left exactly full, each of which is missing as a whole.  (A
\* file that could not be opened leaves a slot that may be counted.)
RecordsAgree ==
  mpc \notin InLoop \cup {"drain"} /\ (\A w \in Workers : ~chan[w].odd) =>
    \E lost \in 0..N : Result.records + lost * RingLen = Emitted

\* What HW5's --verify approves under the final name is whole, whenever it is
\* run and wherever the manager of HW5 was killed.
ApprovedIsWhole == version = "HW5" /\ Approves(final) => Whole(final)


\* From the moment the run has its statistics on, and before that if there was a
\* database, one of the two names holds a whole database, wherever the manager
\* is killed.
OneIsWhole ==
  \/ Whole(final) \/ Whole(temp)
  \/ mpc \in InLoop \cup {"drain", "wait"} /\ final \in Olds

\* A run ends, if nobody kills the manager, no worker of HW4 dies, and manager and
\* worker do not wait for each other at a full pipe.
RunEnds == <>(killed \/ mpc = "end" \/ Dead # {}) \/ <>[]Jammed
=============================================================================
