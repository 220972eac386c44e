------------------------------ MODULE JobPool ------------------------------
(***************************************************************************)
(* The job side of the T5 inventory workers (src/HW5): the shared job queue *)
(* and its semaphores in ipc_header, the two job counters, each worker's    *)
(* private overflow stack, and the loop of main_fileops_worker.c that lists *)
(* one directory after another until every directory has been listed.       *)
(*                                                                         *)
(* A job is a directory.  What a worker does with the regular files it      *)
(* meets does not touch this state; it is the subject of ResultChannel.     *)
(*                                                                         *)
(* pc[w] names the place of worker w in the loop.  A worker at one of the   *)
(* Locking places is at a safe_sem_wait(&header->job_sem); it is in "inside" *)
(* from the return of that wait to the matching sem_post.  queueHead and    *)
(* queueTail count the slots ever written and read: the values the code     *)
(* keeps are these modulo QueueLen, as in Slot.  Control is cut at the      *)
(* semaphore operations, so that everything two processes can interleave    *)
(* is a step of its own.                                                    *)
(***************************************************************************)
EXTENDS Integers, Sequences, FiniteSets

CONSTANTS
  Workers,      \* the worker processes
  Dirs,         \* every directory below the root, and the root
  Root,         \* the directory of the command line
  Children,     \* the subdirectories readdir reports, per directory
  Depth,        \* distance from the root, the depth field of a job
  MaxDepth,     \* header->max_depth
  QueueLen,     \* QUEUE_JOB_LEN
  Flaky,        \* directories whose lstat or opendir may fail
  CanQuit       \* whether the manager may be told to shut down

ASSUME WorkersAssumption == IsFiniteSet(Workers) /\ Workers # {}

ASSUME TreeAssumption ==
  /\ Root \in Dirs
  /\ Children \in [Dirs -> SUBSET Dirs]
  /\ Depth \in [Dirs -> Nat]
  /\ Depth[Root] = 0
  /\ \A d \in Dirs : \A c \in Children[d] : Depth[c] = Depth[d] + 1
  /\ MaxDepth \in Nat
  /\ Flaky \subseteq Dirs

\* A directory has one parent: there are no hard links to directories, and the
\* workers do not follow symbolic links.
ASSUME ParentAssumption ==
  \A d, e \in Dirs : d # e => Children[d] \cap Children[e] = {}

ASSUME QueueAssumption == QueueLen \in Nat \ {0}

ASSUME QuitAssumption == CanQuit \in BOOLEAN

VARIABLES
  jobSem, queueReadSem, queueWriteSem,   \* the semaphores' values
  jobsWaiting, jobsRunning,              \* header->jobs_waiting, jobs_running
  ring, queueHead, queueTail,            \* job_queue and its two indexes
  quitting,     \* header->quitting
  sigterm,      \* workers whose sigterm_received is set
  pc,           \* place of each worker in the loop
  inside,       \* workers between the wait and the post of job_sem
  left,         \* "no" in the loop, "idle"/"term" after goto cleanup
  stack,        \* global_job_stack of each worker
  job, njob,    \* the locals job and njob
  todo,         \* directory entries readdir has not returned yet
  listed,       \* history: directories read to the end (jobs_processed)
  skipped       \* history: directories whose lstat or opendir failed

sems   == <<jobSem, queueReadSem, queueWriteSem>>
counts == <<jobsWaiting, jobsRunning>>
queue  == <<ring, queueHead, queueTail>>
signal == <<quitting, sigterm>>
local  == <<stack, job, njob, todo>>
past   == <<listed, skipped>>
vars   == <<sems, counts, queue, signal, pc, inside, left, local, past>>

Locking  == {"idle1", "idle2", "pop", "take", "fail", "push", "put", "done"}
Places   == Locking \cup
            {"top", "passToken", "pick", "giveSlot", "open", "read", "putToken"}

\* The slot a count stands for, (queue_head or queue_tail) % QUEUE_JOB_LEN.
Slot(k) == k % QueueLen

Init ==
  /\ jobSem = 1 /\ queueReadSem = 1 /\ queueWriteSem = QueueLen - 1
  /\ jobsWaiting = 1 /\ jobsRunning = 0
  /\ ring = [i \in 0..(QueueLen - 1) |-> Root]
  /\ queueHead = 1 /\ queueTail = 0
  /\ quitting = FALSE /\ sigterm = {}
  /\ pc = [w \in Workers |-> "top"]
  /\ inside = {}
  /\ left = [w \in Workers |-> "no"]
  /\ stack = [w \in Workers |-> << >>]
  /\ job = [w \in Workers |-> Root]
  /\ njob = [w \in Workers |-> Root]
  /\ todo = [w \in Workers |-> {}]
  /\ listed = {} /\ skipped = {}

-----------------------------------------------------------------------------
At(w, p)   == left[w] = "no" /\ pc[w] = p
Goto(w, p) == pc' = [pc EXCEPT ![w] = p]
Leave(w, why) == left' = [left EXCEPT ![w] = why]

\* sem_post(&header->job_sem) at the end of a critical section.
Release(w) == jobSem' = jobSem + 1 /\ inside' = inside \ {w}

\* safe_sem_wait(&header->job_sem) returning 0.
Acquire(w) ==
  /\ left[w] = "no" /\ pc[w] \in Locking /\ w \notin inside
  /\ jobSem > 0
  /\ jobSem' = jobSem - 1
  /\ inside' = inside \cup {w}
  /\ UNCHANGED <<queueReadSem, queueWriteSem, counts, queue, signal, pc, left,
                 local, past>>

\* The head of the loop: leave when a shutdown is under way.
Top(w) ==
  /\ At(w, "top")
  /\ IF quitting THEN Leave(w, "term") /\ UNCHANGED pc
                 ELSE Goto(w, "idle1") /\ UNCHANGED left
  /\ UNCHANGED <<sems, counts, queue, signal, inside, local, past>>

\* Fault: jobs being listed, which may still discover others, are ignored.
IdleIgnoringRunning(w) == jobsWaiting = 0 /\ stack[w] = << >>

Idle(w) == jobsWaiting = 0 /\ jobsRunning = 0 /\ stack[w] = << >>

\* The check for "no job anywhere", which the code makes twice in a row.
CheckIdle(w) ==
  /\ w \in inside
  /\ \/ At(w, "idle1") /\ Goto(w, IF Idle(w) THEN "passToken" ELSE "idle2")
     \/ At(w, "idle2") /\ Goto(w, IF Idle(w) THEN "passToken" ELSE "pick")
  /\ Release(w)
  /\ UNCHANGED <<queueReadSem, queueWriteSem, counts, queue, signal, left,
                 local, past>>

\* Fault: the worker leaves without waking the next one.
LeaveSilently(w) ==
  /\ At(w, "passToken") /\ Leave(w, "idle")
  /\ UNCHANGED <<sems, counts, queue, signal, pc, inside, local, past>>

\* Before it leaves, an idle worker posts the read semaphore once more, for
\* the next worker asleep on it.
PassToken(w) ==
  /\ At(w, "passToken")
  /\ queueReadSem' = queueReadSem + 1
  /\ Leave(w, "idle")
  /\ UNCHANGED <<jobSem, queueWriteSem, counts, queue, signal, pc, inside,
                 local, past>>

-----------------------------------------------------------------------------
\* Choosing a job: the private stack first, then the shared queue.
PopStack(w) ==
  /\ At(w, "pick") /\ stack[w] # << >>
  /\ job' = [job EXCEPT ![w] = stack[w][Len(stack[w])]]
  /\ stack' = [stack EXCEPT ![w] = SubSeq(@, 1, Len(@) - 1)]
  /\ Goto(w, "pop")
  /\ UNCHANGED <<sems, counts, queue, signal, inside, left, njob, todo, past>>

\* Fault: a job from the private stack is not counted as running.
StartStackedUncounted(w) ==
  /\ At(w, "pop") /\ w \in inside
  /\ jobsWaiting' = jobsWaiting - 1
  /\ Release(w) /\ Goto(w, "open")
  /\ UNCHANGED <<queueReadSem, queueWriteSem, jobsRunning, queue, signal, left,
                 local, past>>

StartStacked(w) ==
  /\ At(w, "pop") /\ w \in inside
  /\ jobsRunning' = jobsRunning + 1
  /\ jobsWaiting' = jobsWaiting - 1
  /\ Release(w) /\ Goto(w, "open")
  /\ UNCHANGED <<queueReadSem, queueWriteSem, queue, signal, left, local, past>>

TakeToken(w) ==
  /\ At(w, "pick") /\ stack[w] = << >>
  /\ queueReadSem > 0
  /\ queueReadSem' = queueReadSem - 1
  /\ Goto(w, "take")
  /\ UNCHANGED <<jobSem, queueWriteSem, counts, queue, signal, inside, left,
                 local, past>>

\* The token was the one an idle worker passed on: there is no job.
TakeNothing(w) ==
  /\ At(w, "take") /\ w \in inside /\ jobsWaiting = 0
  /\ Release(w) /\ Goto(w, "top")
  /\ UNCHANGED <<queueReadSem, queueWriteSem, counts, queue, signal, left,
                 local, past>>

\* Fault: queue_tail is not advanced.
TakeJobAgain(w) ==
  /\ At(w, "take") /\ w \in inside /\ jobsWaiting # 0
  /\ job' = [job EXCEPT ![w] = ring[Slot(queueTail)]]
  /\ jobsRunning' = jobsRunning + 1
  /\ jobsWaiting' = jobsWaiting - 1
  /\ Release(w) /\ Goto(w, "giveSlot")
  /\ UNCHANGED <<queueReadSem, queueWriteSem, queue, signal, left, stack, njob,
                 todo, past>>

TakeJob(w) ==
  /\ At(w, "take") /\ w \in inside /\ jobsWaiting # 0
  /\ job' = [job EXCEPT ![w] = ring[Slot(queueTail)]]
  /\ queueTail' = queueTail + 1
  /\ jobsRunning' = jobsRunning + 1
  /\ jobsWaiting' = jobsWaiting - 1
  /\ Release(w) /\ Goto(w, "giveSlot")
  /\ UNCHANGED <<queueReadSem, queueWriteSem, ring, queueHead, signal, left,
                 stack, njob, todo, past>>

GiveSlot(w) ==
  /\ At(w, "giveSlot")
  /\ queueWriteSem' = queueWriteSem + 1
  /\ Goto(w, "open")
  /\ UNCHANGED <<jobSem, queueReadSem, counts, queue, signal, inside, left,
                 local, past>>

-----------------------------------------------------------------------------
\* Listing a directory.
OpenDir(w) ==
  /\ At(w, "open")
  /\ todo' = [todo EXCEPT ![w] = Children[job[w]]]
  /\ Goto(w, "read")
  /\ UNCHANGED <<sems, counts, queue, signal, inside, left, stack, job, njob,
                 past>>

OpenFails(w) ==
  /\ At(w, "open") /\ job[w] \in Flaky
  /\ skipped' = skipped \cup {job[w]}
  /\ Goto(w, "fail")
  /\ UNCHANGED <<sems, counts, queue, signal, inside, left, local, listed>>

\* A subdirectory that readdir returns to w outside a shutdown.
Entry(w, d) == At(w, "read") /\ ~quitting /\ d \in todo[w]
Drop(w, d)  == todo' = [todo EXCEPT ![w] = @ \ {d}]

LstatFails(w) == \E d \in Flaky :
  /\ Entry(w, d) /\ Drop(w, d)
  /\ skipped' = skipped \cup {d}
  /\ UNCHANGED <<sems, counts, queue, signal, pc, inside, left, stack, job,
                 njob, listed>>

TooDeep(w) == \E d \in Dirs :
  /\ Entry(w, d) /\ Drop(w, d)
  /\ Depth[job[w]] + 1 > MaxDepth
  /\ UNCHANGED <<sems, counts, queue, signal, pc, inside, left, stack, job,
                 njob, past>>

\* sem_trywait(&header->queue_write_sem) succeeds: a slot is reserved.
ReserveSlot(w) == \E d \in Dirs :
  /\ Entry(w, d) /\ Drop(w, d)
  /\ Depth[job[w]] + 1 <= MaxDepth
  /\ queueWriteSem > 0
  /\ queueWriteSem' = queueWriteSem - 1
  /\ njob' = [njob EXCEPT ![w] = d]
  /\ Goto(w, "put")
  /\ UNCHANGED <<jobSem, queueReadSem, counts, queue, signal, inside, left,
                 stack, job, past>>

\* Fault: a job on the private stack is not counted as waiting.
PushStackUncounted(w) == \E d \in Dirs :
  /\ Entry(w, d) /\ Drop(w, d)
  /\ Depth[job[w]] + 1 <= MaxDepth
  /\ queueWriteSem = 0
  /\ stack' = [stack EXCEPT ![w] = Append(@, d)]
  /\ UNCHANGED <<sems, counts, queue, signal, pc, inside, left, job, njob, past>>

\* The queue is full: the job goes on the private stack, and is counted as
\* waiting in a critical section of its own.
PushStack(w) == \E d \in Dirs :
  /\ Entry(w, d) /\ Drop(w, d)
  /\ Depth[job[w]] + 1 <= MaxDepth
  /\ queueWriteSem = 0
  /\ stack' = [stack EXCEPT ![w] = Append(@, d)]
  /\ Goto(w, "push")
  /\ UNCHANGED <<sems, counts, queue, signal, inside, left, job, njob, past>>

\* Fault: a job on the private stack is announced to the readers of the queue.
CountStackedWithToken(w) ==
  /\ At(w, "push") /\ w \in inside
  /\ jobsWaiting' = jobsWaiting + 1
  /\ queueReadSem' = queueReadSem + 1
  /\ Release(w) /\ Goto(w, "read")
  /\ UNCHANGED <<queueWriteSem, jobsRunning, queue, signal, left, local, past>>

CountStacked(w) ==
  /\ At(w, "push") /\ w \in inside
  /\ jobsWaiting' = jobsWaiting + 1
  /\ Release(w) /\ Goto(w, "read")
  /\ UNCHANGED <<queueReadSem, queueWriteSem, jobsRunning, queue, signal, left,
                 local, past>>

PutJob(w) ==
  /\ At(w, "put") /\ w \in inside
  /\ ring' = [ring EXCEPT ![Slot(queueHead)] = njob[w]]
  /\ queueHead' = queueHead + 1
  /\ jobsWaiting' = jobsWaiting + 1
  /\ Release(w) /\ Goto(w, "putToken")
  /\ UNCHANGED <<queueReadSem, queueWriteSem, jobsRunning, queueTail, signal,
                 left, local, past>>

PutToken(w) ==
  /\ At(w, "putToken")
  /\ queueReadSem' = queueReadSem + 1
  /\ Goto(w, "read")
  /\ UNCHANGED <<jobSem, queueWriteSem, counts, queue, signal, inside, left,
                 local, past>>

CloseDir(w) ==
  /\ At(w, "read") /\ todo[w] = {}
  /\ listed' = listed \cup {job[w]}
  /\ Goto(w, "done")
  /\ UNCHANGED <<sems, counts, queue, signal, inside, left, local, skipped>>

\* jobs_running-- after a listing, or after an opendir that failed.
EndJob(w) ==
  /\ (At(w, "done") \/ At(w, "fail")) /\ w \in inside
  /\ jobsRunning' = jobsRunning - 1
  /\ Release(w) /\ Goto(w, "top")
  /\ UNCHANGED <<queueReadSem, queueWriteSem, jobsWaiting, queue, signal, left,
                 local, past>>

-----------------------------------------------------------------------------
(* Shutdown.  The manager sets header->quitting, then signals each worker.   *)
(* A worker sees either at the head of the loop and before each directory    *)
(* entry; a SIGTERM that arrives while it sleeps in a semaphore makes        *)
(* safe_sem_wait return -1.  pc keeps the place a worker left from.          *)
Quit ==
  /\ CanQuit /\ ~quitting /\ quitting' = TRUE
  /\ UNCHANGED <<sems, counts, queue, sigterm, pc, inside, left, local, past>>

\* Fault: a worker that gives up its directory ends its job all the same.
LeaveListingEnded(w) ==
  /\ At(w, "read") /\ quitting
  /\ Leave(w, "term") /\ Goto(w, "top")
  /\ jobsRunning' = jobsRunning - 1
  /\ UNCHANGED <<sems, jobsWaiting, queue, signal, inside, local, past>>

LeaveListing(w) ==
  /\ At(w, "read") /\ quitting
  /\ Leave(w, "term")
  /\ UNCHANGED <<sems, counts, queue, signal, pc, inside, local, past>>

\* SIGTERM while w is not asleep: only sigterm_received is set.
Sigterm(w) ==
  /\ quitting /\ w \notin sigterm /\ left[w] = "no"
  /\ sigterm' = sigterm \cup {w}
  /\ UNCHANGED <<sems, counts, queue, quitting, pc, inside, left, local, past>>

Asleep(w) == /\ left[w] = "no" /\ w \notin inside
             /\ \/ pc[w] \in Locking
                \/ pc[w] = "pick" /\ stack[w] = << >>

\* Fault: the failed wait is followed by the post of the critical section.
InterruptPosts(w) ==
  /\ quitting /\ w \notin sigterm /\ Asleep(w) /\ pc[w] \in Locking
  /\ sigterm' = sigterm \cup {w}
  /\ Leave(w, "term")
  /\ jobSem' = jobSem + 1
  /\ UNCHANGED <<queueReadSem, queueWriteSem, counts, queue, quitting, pc, inside,
                 local, past>>

\* Fault: the slot reserved for the job in hand is not given back.
InterruptKeepsSlot(w) ==
  /\ quitting /\ w \notin sigterm /\ Asleep(w)
  /\ sigterm' = sigterm \cup {w}
  /\ Leave(w, "term")
  /\ UNCHANGED <<sems, counts, queue, quitting, pc, inside, local, past>>

\* SIGTERM while w sleeps in safe_sem_wait; a reserved slot is given back.
Interrupt(w) ==
  /\ quitting /\ w \notin sigterm /\ Asleep(w)
  /\ sigterm' = sigterm \cup {w}
  /\ Leave(w, "term")
  /\ queueWriteSem' = IF pc[w] = "put" THEN queueWriteSem + 1 ELSE queueWriteSem
  /\ UNCHANGED <<jobSem, queueReadSem, counts, queue, quitting, pc, inside,
                 local, past>>

-----------------------------------------------------------------------------
Choose(w) == PopStack(w) \/ StartStacked(w) \/ TakeToken(w) \/ TakeNothing(w)
             \/ TakeJob(w) \/ GiveSlot(w)
List(w)   == OpenDir(w) \/ OpenFails(w) \/ LstatFails(w) \/ TooDeep(w)
             \/ ReserveSlot(w) \/ PushStack(w) \/ CountStacked(w) \/ PutJob(w)
             \/ PutToken(w) \/ CloseDir(w) \/ EndJob(w) \/ LeaveListing(w)
Step(w)   == Acquire(w) \/ Top(w) \/ CheckIdle(w) \/ PassToken(w)
             \/ Choose(w) \/ List(w)

\* Every worker has reached its cleanup: nothing moves here any more.
Terminated == (\A w \in Workers : left[w] # "no") /\ UNCHANGED vars

Next == (\E w \in Workers : Step(w) \/ Sigterm(w) \/ Interrupt(w))
        \/ Quit \/ Terminated

Spec == Init /\ [][Next]_vars

\* The kernel schedules every runnable worker, and a worker sleeping on a
\* semaphore that stays posted is woken.
FairSpec == Spec /\ \A w \in Workers : WF_vars(Step(w))

-----------------------------------------------------------------------------
(* Where the jobs are.                                                      *)

Queued  == {ring[Slot(k)] : k \in queueTail..(queueHead - 1)}
Stacked == UNION {{stack[w][i] : i \in 1..Len(stack[w])} : w \in Workers}
On(S)   == {w \in Workers : pc[w] \in S}

\* The stack entries of all workers that jobs_waiting includes: a worker at
\* "push" has pushed the topmost one and not counted it yet.
CountedLen(w) == Len(stack[w]) - (IF pc[w] = "push" THEN 1 ELSE 0)
Counted == UNION {{w} \X (1..CountedLen(w)) : w \in Workers}

\* Places at which the worker's job is counted in jobs_running.
Running == {"giveSlot", "open", "fail", "read", "push", "put", "putToken", "done"}
\* Places at which the directory w is listing is not finished.
Listing == {"giveSlot", "open", "read", "push", "put", "putToken"}

\* Workers that hold a slot of the queue they have not written yet.
Reserved == {w \in On({"put"}) : left[w] = "no"}

Pending == Queued \cup Stacked \cup {job[w] : w \in On({"pop"})}
Active  == {job[w] : w \in On(Listing)}

\* The subdirectories of d that the depth limit admits.
Wanted(d) == {c \in Children[d] : Depth[c] <= MaxDepth}

-----------------------------------------------------------------------------
(* Properties.                                                              *)

\* Every variable keeps its type; an index never runs behind the other.
TypeOK ==
  /\ jobSem \in Nat /\ queueReadSem \in Nat /\ queueWriteSem \in Nat
  /\ jobsWaiting \in Nat /\ jobsRunning \in Nat
  /\ ring \in [0..(QueueLen - 1) -> Dirs]
  /\ queueHead \in Nat /\ queueTail \in Nat /\ queueTail <= queueHead
  /\ quitting \in BOOLEAN /\ sigterm \subseteq Workers
  /\ pc \in [Workers -> Places]
  /\ inside \subseteq Workers
  /\ left \in [Workers -> {"no", "idle", "term"}]
  /\ stack \in [Workers -> Seq(Dirs)]
  /\ job \in [Workers -> Dirs] /\ njob \in [Workers -> Dirs]
  /\ todo \in [Workers -> SUBSET Dirs]
  /\ listed \subseteq Dirs /\ skipped \subseteq Dirs

\* job_sem is a mutex: its value is 1 with nobody in a critical section or 0
\* with exactly one worker in it, and no way out of the loop, by idleness, by
\* the flag or by EINTR, leaves with it held.
JobSemMutex ==
  /\ \/ jobSem = 1 /\ inside = {}
     \/ jobSem = 0 /\ \E w \in Workers : inside = {w}
  /\ \A w \in inside : left[w] = "no" /\ pc[w] \in Locking

\* The counters that decide termination are exact: jobs_running is the number
\* of workers between starting and ending a job, and jobs_waiting the number
\* of jobs in the queue, on the private stacks, or just popped from one, but
\* for a job its worker has pushed and is about to count.
CountersExact ==
  /\ jobsRunning = Cardinality(On(Running))
  /\ jobsWaiting = (queueHead - queueTail) + Cardinality(Counted)
                   + Cardinality(On({"pop"}))

\* Every slot of job_queue is accounted for: free (a write token), holding a
\* job, reserved by a worker about to write it, or read and about to be
\* returned.  So no job is overwritten before it has been taken.
SlotsAccounted ==
  QueueLen = queueWriteSem + (queueHead - queueTail)
             + Cardinality(Reserved) + Cardinality(On({"giveSlot"}))

\* A worker holding a read token that finds jobs_waiting # 0 finds a job in
\* the queue, even though jobs_waiting also counts the jobs on the private
\* stacks of the others, which it cannot take.
TakeFindsJob ==
  \A w \in inside : pc[w] = "take" /\ jobsWaiting # 0 => queueTail < queueHead

\* The root and every subdirectory the depth limit admits of each listed
\* directory have been listed, or skipped after a failed lstat or opendir.
Complete == /\ Root \in listed \cup skipped
            /\ \A d \in listed : Wanted(d) \subseteq listed \cup skipped

\* Some worker has found the pool idle: it is about to leave, or has left.
FoundIdle == \E w \in Workers : pc[w] = "passToken"

\* When a worker leaves because the pool is idle, the traversal is complete,
\* whatever the other workers are doing and even if a shutdown has begun.
IdleExitSound == FoundIdle => Complete

\* The pool never falls asleep with work left or without it: unless it is
\* shut down, every worker leaves the loop, each woken by the token of the
\* one before it.
AllWorkersFinish == <>quitting \/ <>(\A w \in Workers : left[w] = "idle")

\* The workers implement an abstract traversal that discovers each directory
\* once, lists each discovered one once, and ends when none is left.
Traversal == INSTANCE Traversal WITH
  pending <- Pending, active <- Active,
  finished <- FoundIdle
TraversalSpec == Traversal!Spec
=============================================================================
