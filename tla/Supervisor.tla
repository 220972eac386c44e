----------------------------- MODULE Supervisor -----------------------------
(***************************************************************************)
(* The manager of the T5 inventory as the parent of its workers (src/HW5):  *)
(* signals to both, reaping, the shutdown with its deadline, the control     *)
(* pipe, and what an interrupted wait of the manager does.  The manager      *)
(* installs its handlers without SA_RESTART and does not retry its waits.    *)
(*                                                                         *)
(* Job queue and rings are the subject of JobPool and ResultChannel: here    *)
(* the queue and the rings never fill, the double idle check is one, and a   *)
(* record is only counted.  What is kept of them is who holds job_sem and    *)
(* each chan->sem, because a process may be interrupted or killed there.     *)
(*                                                                         *)
(* The worker's pc: "start" (its handler is not there yet), "top", "list",   *)
(* "check", "take", "push", "end" (at a critical section on job_sem; with    *)
(* w \in inside, in it), "begin", "claim" (after "take" in the same one),     *)
(* "job" (at queue_read_sem), "fill" (holding chan->sem while it hashes the   *)
(* file), "report", "error", "exiting" (at a write to the control pipe; at   *)
(* "error" with or without chan->sem), "last", "dead".                      *)
(*                                                                         *)
(* The two counters are unsigned and changed with ++ and --.  A value below  *)
(* zero stands for the one 2^32 above it: the code compares with 0 only.     *)
(***************************************************************************)
EXTENDS Integers, FiniteSets

CONSTANTS
  NumWorkers, \* conn->workers
  MaxEntries, \* the directories and regular files below the root
  PipeLen,    \* the messages the control pipe has room for
  PollLen,    \* the messages the manager reads at one poll
  Requests    \* the signals the manager is sent from outside, each once

ASSUME ConstantsAssumption ==
  /\ NumWorkers \in Nat \ {0}
  /\ MaxEntries \in Nat
  /\ PipeLen \in Nat \ {0} /\ PollLen \in Nat \ {0}
  /\ Requests \subseteq {"USR1", "TERM"}

Workers == 1..NumWorkers

VARIABLES
  jobSem,       \* header->job_sem
  inside,       \* workers in a critical section of it
  jobsWaiting, jobsRunning,  \* header->jobs_waiting, header->jobs_running
  reg,          \* reg[w]: the counter w has loaded and not yet used, if any
  tokens,       \* header->queue_read_sem
  entries,      \* history: entries met so far
  filling,      \* workers whose chan->sem is taken
  readSem,      \* channels[w].read_sem
  done,         \* channels[w].done
  pc,           \* each worker's place
  sent,         \* workers with a SIGTERM on its way
  sigterm,      \* workers with sigterm_received set
  lost,         \* history: workers ended by SIGKILL, or by an early SIGTERM
  quitting,     \* header->quitting, and in_shutdown
  mpc,          \* the manager's place
  chan,         \* its loop index i
  nothing,      \* the local of the pass, TRUE between passes
  pids,         \* workers whose entry of worker_pids is not 0
  pending,      \* {"CHLD"} with a SIGCHLD on its way to the manager
  requests,     \* signals that may still come from outside
  chldFlag, shutFlag,  \* sigchld_flag, shutdown_flag
  unlocked,     \* history: the manager's wait for job_sem was cut short
  messages,     \* the messages in the control pipe
  pipeOpen,     \* the read end of the control pipe is open
  complete      \* db_header->complete

counters == <<jobsWaiting, jobsRunning, reg>>
counts  == <<jobSem, inside, counters, tokens, entries>>
channel == <<filling, readSem, done>>
death   == <<sent, sigterm, lost>>
flags   == <<pending, requests, chldFlag, shutFlag>>
loop    == <<mpc, chan, nothing>>
result  == <<messages, pipeOpen, complete>>
vars    == <<counts, channel, pc, death, quitting, loop, pids, flags, unlocked,
             result>>

AtJobSem == {"check", "take", "push", "end"}
AtPipe   == {"report", "error", "exiting"}
Places   == AtJobSem \cup AtPipe \cup
            {"start", "top", "begin", "claim", "job", "list", "fill",
             "last", "dead"}
Over     == {"finished", "aborted"}
ManagerPlaces == Over \cup {"top", "pass", "lock", "count",
                            "counting", "counted", "close", "reap"}
Dead  == {w \in Workers : pc[w] = "dead"}
Alive == Workers \ Dead

Init ==
  /\ jobSem = 1 /\ inside = {}
  /\ jobsWaiting = 1 /\ jobsRunning = 0 /\ reg = [w \in Workers |-> {}]
  /\ tokens = 1 /\ entries = 0
  /\ filling = {}
  /\ readSem = [w \in Workers |-> 0]
  /\ done = [w \in Workers |-> FALSE]
  /\ pc = [w \in Workers |-> "start"]
  /\ sent = {} /\ sigterm = {} /\ lost = {}
  /\ quitting = FALSE
  /\ mpc = "top" /\ chan = 1 /\ nothing = TRUE
  /\ pids = Workers
  /\ pending = {} /\ requests = Requests /\ chldFlag = FALSE /\ shutFlag = FALSE
  /\ unlocked = FALSE
  /\ messages = 0 /\ pipeOpen = TRUE /\ complete = "START"

-----------------------------------------------------------------------------
(* The worker.                                                              *)

Move(w, p, q) == pc[w] = p /\ pc' = [pc EXCEPT ![w] = q]
Told(w)       == quitting \/ w \in sigterm

\* With a process its flag is gone, and a signal on its way to it.
Ended(S) == sent' = sent \ S /\ sigterm' = sigterm \ S

\* fork, exec and sigaction.
Start(w) ==
  /\ Move(w, "start", "top")
  /\ UNCHANGED <<counts, channel, death, quitting, loop, pids, flags, unlocked,
                 result>>

Top(w) ==
  /\ Move(w, "top", IF Told(w) THEN "exiting" ELSE "check")
  /\ UNCHANGED <<counts, channel, death, quitting, loop, pids, flags, unlocked,
                 result>>

EnterJobSem(w) ==
  /\ pc[w] \in AtJobSem /\ w \notin inside
  /\ jobSem > 0 /\ jobSem' = jobSem - 1 /\ inside' = inside \cup {w}
  /\ UNCHANGED <<counters, tokens, entries, channel, pc, death,
                 quitting, loop, pids, flags, unlocked, result>>

\* A step in a critical section changes nothing but the counters.
InCritical(w) ==
  w \in inside /\ UNCHANGED <<channel, death, quitting, loop, pids, flags, unlocked,
                              result>>

\* The end of the critical section of w.
PostJobSem(w) ==
  InCritical(w) /\ inside' = inside \ {w} /\ jobSem' = jobSem + 1

\* Once the mutex is broken another worker inside may store a counter between the
\* load and the store, or the test, of w.  Loads that none overtakes are left out.
StoresRunning == {"begin", "end"}
StoresWaiting == {"claim", "push"}
OthersStore(w, places) ==
  unlocked /\ \E v \in inside \ {w} : pc[v] \in places
Load(w) ==
  /\ w \in inside /\ reg[w] = {}
  /\ \/ /\ pc[w] \in StoresRunning /\ OthersStore(w, StoresRunning)
        /\ reg' = [reg EXCEPT ![w] = {jobsRunning}]
     \/ /\ pc[w] \in StoresWaiting \cup {"check"} /\ OthersStore(w, StoresWaiting)
        /\ reg' = [reg EXCEPT ![w] = {jobsWaiting}]
  /\ InCritical(w)
  /\ UNCHANGED <<jobSem, inside, jobsWaiting, jobsRunning, tokens, entries, pc>>
Read(w, c) == IF reg[w] = {} THEN {c} ELSE reg[w]
Used(w)    == reg' = [reg EXCEPT ![w] = {}]

\* Fault: the worker that finds no job leaves without the post.
IdleKeepsJobSem(w) ==
  /\ pc[w] = "check" /\ InCritical(w) /\ inside' = inside \ {w}
  /\ \E v \in Read(w, jobsWaiting) :
       LET idle == v = 0 /\ jobsRunning = 0
       IN  /\ jobSem' = IF idle THEN jobSem ELSE jobSem + 1
           /\ pc' = [pc EXCEPT ![w] = IF idle THEN "exiting" ELSE "job"]
           /\ tokens' = IF idle THEN tokens + 1 ELSE tokens
  /\ Used(w) /\ UNCHANGED <<jobsWaiting, jobsRunning, entries>>

CheckIdle(w) ==
  /\ pc[w] = "check" /\ PostJobSem(w)
  /\ \E v \in Read(w, jobsWaiting) :
       LET idle == v = 0 /\ jobsRunning = 0
       IN  /\ pc' = [pc EXCEPT ![w] = IF idle THEN "exiting" ELSE "job"]
           /\ tokens' = IF idle THEN tokens + 1 ELSE tokens
  /\ Used(w) /\ UNCHANGED <<jobsWaiting, jobsRunning, entries>>

TakeToken(w) ==
  /\ Move(w, "job", "take")
  /\ tokens > 0 /\ tokens' = tokens - 1
  /\ UNCHANGED <<jobSem, inside, counters, entries, channel, death,
                 quitting, loop, pids, flags, unlocked, result>>

\* Without a job the critical section ends here.
TakeNothing(w) ==
  /\ Move(w, "take", "top")
  /\ jobsWaiting = 0 /\ PostJobSem(w)
  /\ UNCHANGED <<counters, tokens, entries>>

\* Fault: a token is taken for a job.
FindJobUnchecked(w) ==
  /\ Move(w, "take", "begin")
  /\ InCritical(w)
  /\ UNCHANGED <<jobSem, inside, counters, tokens, entries>>

\* The job is copied from the queue.
FindJob(w) ==
  /\ Move(w, "take", "begin")
  /\ jobsWaiting # 0 /\ InCritical(w)
  /\ UNCHANGED <<jobSem, inside, counters, tokens, entries>>

BeginJob(w) ==
  /\ Move(w, "begin", "claim") /\ InCritical(w)
  /\ \E v \in Read(w, jobsRunning) : jobsRunning' = v + 1
  /\ Used(w) /\ UNCHANGED <<jobSem, inside, jobsWaiting, tokens, entries>>

TakeJob(w) ==
  /\ Move(w, "claim", "list") /\ PostJobSem(w)
  /\ \E v \in Read(w, jobsWaiting) : jobsWaiting' = v - 1
  /\ Used(w) /\ UNCHANGED <<jobsRunning, tokens, entries>>

\* chan->sem is taken: the manager never keeps it from one step to the next.
LockChannel(w) == w \notin filling /\ filling' = filling \cup {w}

\* The next entry of the directory.
Entry(w) ==
  /\ ~Told(w) /\ entries < MaxEntries /\ entries' = entries + 1
  /\ \/ Move(w, "list", "fill") /\ LockChannel(w)
     \/ Move(w, "list", "push") /\ UNCHANGED filling
     \/ Move(w, "list", "error") /\ UNCHANGED filling  \* lstat fails
  /\ UNCHANGED <<jobSem, inside, counters, tokens, readSem, done,
                 death, quitting, loop, pids, flags, unlocked, result>>

\* The directory is at its end, or has an entry that is skipped, before which
\* the two flags are read as well.
EndListing(w) ==
  /\ \/ Move(w, "list", "report")
     \/ Told(w) /\ Move(w, "list", "exiting")
  /\ UNCHANGED <<counts, channel, death, quitting, loop, pids, flags, unlocked,
                 result>>

PushJob(w) ==
  /\ Move(w, "push", "list") /\ PostJobSem(w)
  /\ \E v \in Read(w, jobsWaiting) : jobsWaiting' = v + 1
  /\ tokens' = tokens + 1
  /\ Used(w) /\ UNCHANGED <<jobsRunning, entries>>

EndJob(w) ==
  /\ Move(w, "end", "top") /\ PostJobSem(w)
  /\ \E v \in Read(w, jobsRunning) : jobsRunning' = v - 1
  /\ Used(w) /\ UNCHANGED <<jobsWaiting, tokens, entries>>

\* The file hashed, the record written, chan->sem and read_sem posted.
FillRecord(w) ==
  /\ Move(w, "fill", "list")
  /\ filling' = filling \ {w}
  /\ readSem' = [readSem EXCEPT ![w] = @ + 1]
  /\ UNCHANGED <<counts, done, death, quitting, loop, pids, flags, unlocked,
                 result>>

\* The file cannot be opened: the error is written with chan->sem held.
OpenFileFails(w) ==
  /\ Move(w, "fill", "error")
  /\ UNCHANGED <<counts, channel, death, quitting, loop, pids, flags, unlocked,
                 result>>

AfterWrite(w) == CASE pc[w] = "report"  -> "end"
                   [] pc[w] = "error"   -> "list"
                   [] pc[w] = "exiting" -> "last"

\* The message of w, ERROR for a directory that cannot be opened or JOB_DONE at
\* "report": the write waits for room, and if nobody can read SIGPIPE ends w.
\* Afterwards chan->sem is posted, if it is held.
Write(w) ==
  /\ pc[w] \in AtPipe
  /\ IF pipeOpen
       THEN /\ messages < PipeLen /\ messages' = messages + 1
            /\ pc' = [pc EXCEPT ![w] = AfterWrite(w)]
            /\ filling' = filling \ {w} /\ UNCHANGED <<sent, sigterm, pending>>
       ELSE /\ pc' = [pc EXCEPT ![w] = "dead"] /\ Ended({w})
            /\ pending' = pending \cup {"CHLD"}
            /\ UNCHANGED <<filling, messages>>
  /\ UNCHANGED <<counts, readSem, done, lost, quitting, loop, pids, requests,
                 chldFlag, shutFlag, unlocked, pipeOpen, complete>>

\* The statistics and done, under chan->sem, and the exit.
MarkDone(w) ==
  /\ Move(w, "last", "dead") /\ w \notin filling
  /\ done' = [done EXCEPT ![w] = TRUE]
  /\ pending' = pending \cup {"CHLD"}
  /\ Ended({w})
  /\ UNCHANGED <<counts, filling, readSem, lost, quitting, loop, pids,
                 requests, chldFlag, shutFlag, unlocked, result>>

Job(w)  == TakeNothing(w) \/ FindJob(w) \/ BeginJob(w) \/ TakeJob(w)
           \/ PushJob(w) \/ EndJob(w)
Step(w) == Start(w) \/ Top(w) \/ EnterJobSem(w) \/ Load(w) \/ CheckIdle(w)
           \/ TakeToken(w) \/ Job(w) \/ Entry(w) \/ EndListing(w)
           \/ FillRecord(w) \/ OpenFileFails(w) \/ Write(w) \/ MarkDone(w)

\* SIGTERM reaches w.  A wait it sleeps in fails, and so does a write that finds
\* the pipe full; one it is about to begin does not, and lasts until there is a
\* post or room.  Before exec the handler is the manager's, to no effect; after
\* it, until sigaction, there is none.
Asleep(w)  == \/ pc[w] \in AtJobSem /\ w \notin inside /\ jobSem = 0
              \/ pc[w] = "job" /\ tokens = 0
Blocked(w) == pc[w] \in AtPipe /\ pipeOpen /\ messages = PipeLen
Sigterm(w) ==
  /\ w \in sent \ Dead /\ sent' = sent \ {w}
  /\ \/ /\ pc[w] # "start" /\ sigterm' = sigterm \cup {w}
        /\ \/ UNCHANGED <<pc, filling>>
           \/ Asleep(w) /\ pc' = [pc EXCEPT ![w] = "exiting"] /\ UNCHANGED filling
           \/ /\ Blocked(w) /\ pc' = [pc EXCEPT ![w] = AfterWrite(w)]
              /\ filling' = filling \ {w}
        /\ UNCHANGED <<lost, pending>>
     \/ pc[w] = "start" /\ UNCHANGED <<pc, filling, sigterm, lost, pending>>
     \/ /\ Move(w, "start", "dead") /\ lost' = lost \cup {w}
        /\ pending' = pending \cup {"CHLD"} /\ UNCHANGED <<filling, sigterm>>
  /\ UNCHANGED <<counts, readSem, done, quitting, loop, pids, requests, chldFlag,
                 shutFlag, unlocked, result>>

-----------------------------------------------------------------------------
(* The manager.                                                             *)

MMove(p, q) == mpc = p /\ mpc' = q

\* What a step of the loop that is not about a signal leaves alone.
Still == UNCHANGED <<pc, death, flags, unlocked, inside, counters, tokens,
                     entries, filling, done, messages, complete>>

\* A pass begins: the exited are reaped if the flag says that there may be
\* some, then a shutdown is begun, or brought to its end, or neither, and the
\* control pipe is read.
Reaped == IF chldFlag THEN pids \ Dead ELSE pids
Reap   == /\ MMove("top", "pass") /\ chan' = 1 /\ chldFlag' = FALSE
          /\ messages' = IF messages > PollLen THEN messages - PollLen ELSE 0
Begun  == UNCHANGED <<counts, channel, nothing, requests,
                      shutFlag, unlocked, pipeOpen, complete>>

\* Fault: the pids are dropped once SIGTERM is sent.
ShutdownForgets ==
  /\ Reap /\ shutFlag /\ ~quitting
  /\ quitting' = TRUE /\ sent' = Reaped \cap Alive /\ pids' = {}
  /\ UNCHANGED <<pc, sigterm, lost, pending>> /\ Begun

BeginShutdown ==
  /\ Reap /\ shutFlag /\ ~quitting
  /\ quitting' = TRUE /\ sent' = Reaped \cap Alive /\ pids' = Reaped
  /\ UNCHANGED <<pc, sigterm, lost, pending>> /\ Begun

\* Fault: at the deadline nothing happens.
KillNobody ==
  /\ Reap /\ quitting
  /\ pids' = Reaped /\ UNCHANGED <<quitting, pc, death, pending>> /\ Begun

\* graceful_timeout may be over in any pass: SIGKILL to each worker not yet reaped,
\* and waitpid.
KillLate ==
  /\ Reap /\ quitting
  /\ pc' = [w \in Workers |-> IF w \in Reaped THEN "dead" ELSE pc[w]]
  /\ lost' = lost \cup (Reaped \cap Alive) /\ pids' = {}
  /\ pending' = pending \cup (IF Reaped \subseteq Dead THEN {} ELSE {"CHLD"})
  /\ Ended(Reaped) /\ UNCHANGED quitting /\ Begun

NoSignal ==
  /\ Reap /\ (quitting \/ ~shutFlag)
  /\ pids' = Reaped /\ UNCHANGED <<quitting, pc, death, pending>> /\ Begun

SkipEmpty ==
  /\ mpc = "pass" /\ chan \in Workers /\ readSem[chan] = 0
  /\ chan' = chan + 1
  /\ UNCHANGED <<jobSem, readSem, mpc, nothing, pids, quitting, pipeOpen>>
  /\ Still

TakeRecordToken ==
  /\ chan \in Workers /\ MMove("pass", "lock")
  /\ readSem[chan] > 0 /\ readSem' = [readSem EXCEPT ![chan] = @ - 1]
  /\ UNCHANGED <<jobSem, chan, nothing, pids, quitting, pipeOpen>>
  /\ Still

\* The wait for chan->sem, the record stored unless the worker is done, and
\* the posts.  (In a shutdown nobody reads nothing.)
Collect ==
  /\ MMove("lock", "pass") /\ chan \notin filling /\ chan' = chan + 1
  /\ nothing' = (nothing /\ (quitting \/ done[chan]))
  /\ UNCHANGED <<jobSem, readSem, pids, quitting, pipeOpen>>
  /\ Still

\* Fault: in a shutdown the loop is left without waiting for the workers.
EndPassAtOnce ==
  /\ mpc = "pass" /\ chan \notin Workers
  /\ mpc' = IF quitting THEN "close" ELSE "count"
  /\ nothing' = (quitting \/ nothing)
  /\ UNCHANGED <<jobSem, readSem, chan, pids, quitting, pipeOpen>>
  /\ Still

\* In a shutdown the loop ends when every worker has been reaped.
EndPass ==
  /\ mpc = "pass" /\ chan \notin Workers
  /\ mpc' = IF ~quitting THEN "count" ELSE IF pids = {} THEN "close" ELSE "top"
  /\ nothing' = (quitting \/ nothing)
  /\ UNCHANGED <<jobSem, readSem, chan, pids, quitting, pipeOpen>>
  /\ Still

WaitJobSem ==
  /\ MMove("count", "counting") /\ jobSem > 0 /\ jobSem' = jobSem - 1
  /\ UNCHANGED <<readSem, chan, nothing, pids, quitting, pipeOpen>>
  /\ Still

\* The test, and the post; without the lock the counters are read one after
\* the other.
ReadWaiting ==
  /\ MMove("counting", "counted") /\ jobsWaiting = 0
  /\ unlocked /\ \E w \in inside : pc[w] \in StoresWaiting
  /\ UNCHANGED <<jobSem, readSem, chan, nothing, pids, quitting, pipeOpen>>
  /\ Still

Decide ==
  /\ mpc \in {"counting", "counted"}
  /\ mpc' = IF (mpc = "counted" \/ jobsWaiting = 0) /\ jobsRunning = 0 /\ nothing
              THEN "close" ELSE "top"
  /\ jobSem' = jobSem + 1 /\ nothing' = TRUE
  /\ UNCHANGED <<readSem, chan, pids, quitting, pipeOpen>>
  /\ Still

ClosePipe ==
  /\ MMove("close", "reap") /\ pipeOpen' = FALSE /\ chan' = 1
  /\ UNCHANGED <<jobSem, readSem, nothing, pids, quitting>>
  /\ Still

WaitPid ==
  /\ mpc = "reap" /\ chan \in Workers /\ chan \notin pids \ Dead
  /\ pids' = pids \ {chan} /\ chan' = chan + 1
  /\ UNCHANGED <<jobSem, readSem, mpc, nothing, quitting, pipeOpen>>
  /\ Still

\* The statistics, the completion state and the rename.
Finish ==
  /\ MMove("reap", "finished") /\ chan \notin Workers
  /\ complete' = IF quitting THEN "PART" ELSE "FULL"
  /\ UNCHANGED <<counts, channel, pc, death, quitting, chan, nothing, pids, flags,
                 unlocked, messages, pipeOpen>>

Manager == \/ BeginShutdown \/ KillLate \/ NoSignal
           \/ SkipEmpty \/ TakeRecordToken \/ Collect \/ EndPass
           \/ WaitJobSem \/ ReadWaiting \/ Decide \/ ClosePipe \/ WaitPid \/ Finish

-----------------------------------------------------------------------------
(* Signals to the manager.                                                  *)

\* What EINTR does to the wait the manager sleeps in: for a chan->sem, ERRCHECK
\* ends the process, which closes the pipe; for job_sem nothing is checked, and
\* what follows is done without it; from waitpid the pid is forgotten.
Undisturbed == UNCHANGED <<mpc, chan, pids, unlocked, pipeOpen>>
Interrupted ==
  \/ /\ MMove("lock", "aborted") /\ chan \in filling /\ pipeOpen' = FALSE
     /\ UNCHANGED <<chan, pids, unlocked>>
  \/ /\ MMove("count", "counting") /\ jobSem = 0 /\ unlocked' = TRUE
     /\ UNCHANGED <<chan, pids, pipeOpen>>
  \/ /\ mpc = "reap" /\ chan \in pids \ Dead
     /\ pids' = pids \ {chan} /\ chan' = chan + 1
     /\ UNCHANGED <<mpc, unlocked, pipeOpen>>

Delivered(s) ==
  /\ mpc \notin Over
  /\ chldFlag' = (chldFlag \/ s = "CHLD")
  /\ shutFlag' = (shutFlag \/ s = "TERM")
  /\ Undisturbed \/ Interrupted
  /\ UNCHANGED <<counts, channel, pc, death, quitting, nothing, messages, complete>>

\* SIGCHLD.
ChildSignal ==
  /\ "CHLD" \in pending /\ pending' = {} /\ UNCHANGED requests
  /\ Delivered("CHLD")

\* SIGUSR1, or SIGTERM or SIGINT, from outside.
Request(s) ==
  /\ s \in requests /\ requests' = requests \ {s} /\ UNCHANGED pending
  /\ Delivered(s)

-----------------------------------------------------------------------------
Next == \/ \E w \in Workers : Step(w) \/ Sigterm(w)
        \/ Manager \/ ChildSignal
        \/ \E s \in Requests : Request(s)

Spec == Init /\ [][Next]_vars

\* The kernel schedules every process that can run and delivers every SIGTERM it
\* has for a worker; a deadline that the manager looks at over and over comes.
\* Nothing is assumed of the signals to the manager.
FairSpec == /\ Spec /\ WF_vars(Manager) /\ SF_vars(KillLate)
            /\ \A w \in Workers : WF_vars(Step(w) \/ Sigterm(w))

-----------------------------------------------------------------------------
(* Properties.                                                              *)

\* Every variable keeps its type.  As long as the mutex is whole the counters,
\* changed without a check, do not go below zero.
TypeOK ==
  /\ jobSem \in Nat /\ inside \subseteq Workers
  /\ jobsWaiting \in Int /\ jobsRunning \in Int
  /\ ~unlocked => jobsWaiting \in Nat /\ jobsRunning \in Nat
  /\ reg \in [Workers -> SUBSET Int] /\ tokens \in Nat
  /\ entries \in 0..MaxEntries
  /\ filling \subseteq Workers
  /\ readSem \in [Workers -> Nat]
  /\ done \in [Workers -> BOOLEAN] /\ pc \in [Workers -> Places]
  /\ sent \subseteq Workers /\ sigterm \subseteq Workers
  /\ lost \subseteq Workers
  /\ quitting \in BOOLEAN
  /\ mpc \in ManagerPlaces /\ chan \in 1..(NumWorkers + 1)
  /\ nothing \in BOOLEAN /\ pids \subseteq Workers
  /\ pending \subseteq {"CHLD"} /\ requests \subseteq Requests
  /\ chldFlag \in BOOLEAN /\ shutFlag \in BOOLEAN
  /\ unlocked \in BOOLEAN
  /\ messages \in 0..PipeLen /\ pipeOpen \in BOOLEAN
  /\ complete \in {"START", "FULL", "PART"}

\* job_sem excludes workers and manager from each other, also with workers that
\* are killed inside, until a signal has cut the manager's own wait short: from
\* then on it has one post too many.
JobSemMutex ==
  ~unlocked =>
    jobSem + Cardinality(inside) + (IF mpc = "counting" THEN 1 ELSE 0) = 1

\* A manager that finishes a shutdown leaves no worker behind, however the
\* signals come in.
ShutdownLeavesNobody == mpc = "finished" /\ quitting => Alive = {}

\* In a shutdown a worker that is not killed (by the deadline, or by a SIGTERM
\* that comes before its handler is there) ends with its statistics written: the
\* pipe stays open as long as one can write to it, if the manager is not ended.
OnlyTheKilledLoseStatistics ==
  quitting /\ mpc # "aborted" => \A w \in Dead : done[w] \/ w \in lost

\* A shutdown ends: the manager finishes with no worker left, though one whose
\* SIGTERM came between a check and a wait sleeps on until the deadline.  The
\* exceptions are a manager that a signal has ended, a worker killed while it
\* holds the semaphore of its channel, and the manager waiting for that semaphore
\* while the worker, its SIGTERM come and gone, waits for room in the pipe.
ChannelOrphaned == filling \cap Dead # {}
Jammed ==
  /\ mpc = "lock" /\ chan \in filling \ sent
  /\ pc[chan] = "error" /\ Blocked(chan)
ShutdownEnds ==
  quitting ~> (mpc = "finished" /\ Alive = {}) \/ mpc = "aborted"
              \/ ChannelOrphaned \/ Jammed

\* What T5_CONTROL_PLANE.md says of SIGUSR1 and SIGCHLD: they make the manager
\* report and reap, so neither ends it.
SignalsDoNotEndManager == mpc # "aborted"
=============================================================================
