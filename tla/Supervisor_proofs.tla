-------------------------- MODULE Supervisor_proofs --------------------------
(***************************************************************************)
(* Theorems about Supervisor, for every number of workers and of entries,   *)
(* any pipe and any set of signals.  The layers are: types, the mutex        *)
(* job_sem, the two counters it protects, and who is alive and known to the  *)
(* manager.                                                                 *)
(***************************************************************************)
EXTENDS Supervisor, FiniteSetTheorems, TLAPS

-----------------------------------------------------------------------------
(* Layer 1.  Types, and the range of the loop index.                         *)

Types ==
  /\ jobSem \in Nat /\ inside \subseteq Workers
  /\ jobsWaiting \in Int /\ jobsRunning \in Int
  /\ reg \in [Workers -> SUBSET Int] /\ tokens \in Nat
  /\ entries \in 0..MaxEntries
  /\ filling \subseteq Workers
  /\ readSem \in [Workers -> Nat]
  /\ done \in [Workers -> BOOLEAN] /\ pc \in [Workers -> Places]
  /\ sent \subseteq Workers /\ sigterm \subseteq Workers
  /\ lost \subseteq Workers
  /\ quitting \in BOOLEAN
  /\ mpc \in ManagerPlaces /\ chan \in 1..(NumWorkers + 1)
  /\ mpc = "lock" => chan \in Workers
  /\ nothing \in BOOLEAN /\ pids \subseteq Workers
  /\ pending \subseteq {"CHLD"} /\ requests \subseteq Requests
  /\ chldFlag \in BOOLEAN /\ shutFlag \in BOOLEAN
  /\ unlocked \in BOOLEAN /\ (mpc = "counted" => unlocked)
  /\ messages \in 0..PipeLen /\ pipeOpen \in BOOLEAN
  /\ complete \in {"START", "FULL", "PART"}

\* The initial state is typed.
LEMMA TypesInit == Init => Types
<1> SUFFICES ASSUME Init PROVE Types
  OBVIOUS
<1>1. /\ jobSem \in Nat /\ inside \subseteq Workers
      /\ jobsWaiting \in Int /\ jobsRunning \in Int
      /\ reg \in [Workers -> SUBSET Int] /\ tokens \in Nat
      /\ entries \in 0..MaxEntries /\ messages \in 0..PipeLen
  BY ConstantsAssumption DEF ConstantsAssumption, Init
<1>2. /\ readSem \in [Workers -> Nat] /\ done \in [Workers -> BOOLEAN]
      /\ pc \in [Workers -> Places]
  BY DEF Init, Places
<1>3. /\ mpc \in ManagerPlaces /\ mpc # "lock" /\ mpc # "counted"
      /\ chan \in 1..(NumWorkers + 1)
  BY ConstantsAssumption DEF ConstantsAssumption, Init, ManagerPlaces
<1>4. /\ filling \subseteq Workers /\ sent \subseteq Workers
      /\ sigterm \subseteq Workers /\ lost \subseteq Workers
      /\ pids \subseteq Workers /\ pending \subseteq {"CHLD"}
      /\ requests \subseteq Requests
  BY DEF Init
<1> QED
  BY <1>1, <1>2, <1>3, <1>4 DEF Init, Types

\* What a worker reads of a counter is an integer, as is what it stores.
LEMMA ReadInt ==
  ASSUME Types, NEW w \in Workers, NEW c \in Int, NEW v \in Read(w, c)
  PROVE  v \in Int /\ v + 1 \in Int /\ v - 1 \in Int
<1>1. v \in Int
  BY DEF Types, Read
<1> QED
  BY <1>1

\* Each step of a worker in a critical section keeps the types.
LEMMA TypesCounting ==
  ASSUME Types, NEW w \in Workers, Load(w) \/ CheckIdle(w) \/ Job(w)
  PROVE  Types'
<1> USE DEF Move, Places, AtJobSem, AtPipe
<1>1. /\ jobsWaiting' \in Int /\ jobsRunning' \in Int
      /\ reg' \in [Workers -> SUBSET Int]
  <2>1. CASE Load(w)
    BY <2>1 DEF Load, Types
  <2>2. CASE CheckIdle(w) \/ TakeNothing(w) \/ FindJob(w)
    BY <2>2 DEF CheckIdle, TakeNothing, FindJob, Used, counters, Types
  <2>3. CASE BeginJob(w) \/ EndJob(w)
    <3>1. PICK v \in Read(w, jobsRunning) :
             jobsRunning' = v + 1 \/ jobsRunning' = v - 1
      BY <2>3 DEF BeginJob, EndJob
    <3>2. jobsRunning' \in Int
      BY <3>1, ReadInt DEF Types
    <3> QED BY <2>3, <3>2 DEF BeginJob, EndJob, Used, Types
  <2>4. CASE TakeJob(w) \/ PushJob(w)
    <3>1. PICK v \in Read(w, jobsWaiting) :
             jobsWaiting' = v + 1 \/ jobsWaiting' = v - 1
      BY <2>4 DEF TakeJob, PushJob
    <3>2. jobsWaiting' \in Int
      BY <3>1, ReadInt DEF Types
    <3> QED BY <2>4, <3>2 DEF TakeJob, PushJob, Used, Types
  <2> QED BY <2>1, <2>2, <2>3, <2>4 DEF Job
<1>2. /\ jobSem' \in Nat /\ inside' \subseteq Workers /\ tokens' \in Nat
      /\ UNCHANGED entries /\ InCritical(w)
  BY DEF Load, CheckIdle, Job, TakeNothing, FindJob, BeginJob, TakeJob, PushJob,
     EndJob, PostJobSem, InCritical, Types
<1>3. pc' \in [Workers -> Places]
  BY DEF Load, CheckIdle, Job, TakeNothing, FindJob, BeginJob, TakeJob, PushJob,
     EndJob, Types
<1> QED
  BY <1>1, <1>2, <1>3 DEF InCritical, channel, death, loop, flags, result, Types

\* Each operation of a worker keeps the types.
LEMMA TypesStep == ASSUME Types, NEW w \in Workers, Step(w) \/ Sigterm(w)
                   PROVE  Types'
<1> USE DEF Types, Places, AtJobSem, AtPipe, Move, counters, counts, channel,
            death, loop, flags, result
<1>1. CASE Start(w)
  BY <1>1 DEF Start
<1>2. CASE Top(w)
  BY <1>2 DEF Top
<1>3. CASE EnterJobSem(w)
  BY <1>3 DEF EnterJobSem
<1>4. CASE Load(w) \/ CheckIdle(w) \/ Job(w)
  BY <1>4, TypesCounting
<1>5. CASE TakeToken(w)
  BY <1>5 DEF TakeToken
<1>6. CASE Entry(w)
  <2>1. entries' \in 0..MaxEntries /\ filling' \subseteq Workers
        /\ pc' \in [Workers -> Places]
    BY <1>6, ConstantsAssumption DEF Entry, LockChannel, ConstantsAssumption
  <2> QED BY <1>6, <2>1 DEF Entry
<1>7. CASE EndListing(w)
  BY <1>7 DEF EndListing
<1>8. CASE FillRecord(w)
  BY <1>8 DEF FillRecord
<1>9. CASE OpenFileFails(w)
  BY <1>9 DEF OpenFileFails
<1>10. CASE Write(w)
  <2>1. messages' \in 0..PipeLen
    BY <1>10, ConstantsAssumption DEF Write, ConstantsAssumption
  <2>2. pc' \in [Workers -> Places] /\ filling' \subseteq Workers
        /\ pending' \subseteq {"CHLD"}
    BY <1>10 DEF Write, AfterWrite
  <2> QED BY <1>10, <2>1, <2>2 DEF Write, Ended
<1>11. CASE MarkDone(w)
  BY <1>11 DEF MarkDone, Ended
<1>12. CASE Sigterm(w)
  <2>1. /\ pc' \in [Workers -> Places] /\ sigterm' \subseteq Workers
        /\ lost' \subseteq Workers /\ pending' \subseteq {"CHLD"}
        /\ filling' \subseteq Workers
    BY <1>12 DEF Sigterm, Blocked, AfterWrite
  <2> QED BY <1>12, <2>1 DEF Sigterm
<1> QED
  BY <1>1, <1>2, <1>3, <1>4, <1>5, <1>6, <1>7, <1>8, <1>9, <1>10, <1>11, <1>12
     DEF Step

\* Each step of the manager keeps the types.
LEMMA TypesManager == ASSUME Types, Manager PROVE Types'
<1> "dead" \in Places /\ 1 \in 1..(NumWorkers + 1)
    /\ (\A i \in Workers : i + 1 \in 1..(NumWorkers + 1))
  BY ConstantsAssumption DEF ConstantsAssumption, Places, Workers
<1> Reaped \subseteq Workers /\ Alive \subseteq Workers
  BY DEF Types, Reaped, Alive
<1> (IF messages > PollLen THEN messages - PollLen ELSE 0) \in 0..PipeLen
  BY ConstantsAssumption DEF ConstantsAssumption, Types
<1> USE DEF Types, ManagerPlaces, Over, MMove, Still, counts, channel, death,
            loop, flags, result, counters
<1>1. CASE BeginShutdown
  BY <1>1 DEF BeginShutdown, Reap, Begun
<1>2. CASE KillLate
  BY <1>2 DEF KillLate, Reap, Begun, Ended
<1>3. CASE NoSignal
  BY <1>3 DEF NoSignal, Reap, Begun
<1>4. CASE SkipEmpty
  BY <1>4 DEF SkipEmpty
<1>5. CASE TakeRecordToken
  BY <1>5 DEF TakeRecordToken
<1>6. CASE Collect
  BY <1>6 DEF Collect
<1>7. CASE EndPass
  BY <1>7 DEF EndPass
<1>8. CASE WaitJobSem
  BY <1>8 DEF WaitJobSem
<1>9. CASE ReadWaiting
  BY <1>9 DEF ReadWaiting
<1>10. CASE Decide
  <2>1. mpc' \in {"close", "top"} /\ nothing' = TRUE /\ jobSem' = jobSem + 1
    BY <1>10 DEF Decide
  <2> QED BY <1>10, <2>1 DEF Decide
<1>11. CASE ClosePipe
  BY <1>11 DEF ClosePipe
<1>12. CASE WaitPid
  BY <1>12 DEF WaitPid
<1>13. CASE Finish
  BY <1>13 DEF Finish
<1> QED
  BY <1>1, <1>2, <1>3, <1>4, <1>5, <1>6, <1>7, <1>8, <1>9, <1>10, <1>11, <1>12,
     <1>13 DEF Manager

\* A signal to the manager keeps the types of what it may change.
LEMMA TypesDelivered ==
  ASSUME Types, NEW s, Delivered(s), pending' \subseteq {"CHLD"},
         requests' \subseteq Requests
  PROVE  Types'
<1> USE DEF Types, counters, counts, channel, death, loop, flags, result
<1>1. CASE Undisturbed
  BY <1>1 DEF Delivered, Undisturbed
<1>2. CASE Interrupted
  <2>1. /\ mpc' \in ManagerPlaces /\ chan' \in 1..(NumWorkers + 1)
        /\ pids' \subseteq Workers /\ unlocked' \in BOOLEAN
        /\ mpc' # "lock" /\ mpc' # "counted" /\ pipeOpen' \in BOOLEAN
    <3>1. CASE /\ MMove("lock", "aborted") /\ pipeOpen' = FALSE
               /\ UNCHANGED <<chan, pids, unlocked>>
      BY <3>1 DEF MMove, ManagerPlaces, Over
    <3>2. CASE /\ MMove("count", "counting") /\ unlocked' = TRUE
               /\ UNCHANGED <<chan, pids, pipeOpen>>
      BY <3>2 DEF MMove, ManagerPlaces
    <3>3. CASE /\ mpc = "reap" /\ chan \in pids
               /\ pids' = pids \ {chan} /\ chan' = chan + 1
               /\ UNCHANGED <<mpc, unlocked, pipeOpen>>
      <4>1. chan' \in 1..(NumWorkers + 1)
        BY <3>3, ConstantsAssumption DEF ConstantsAssumption, Workers
      <4> QED BY <3>3, <4>1
    <3> QED BY <1>2, <3>1, <3>2, <3>3 DEF Interrupted
  <2> QED BY <1>2, <2>1 DEF Delivered
<1> QED
  BY <1>1, <1>2 DEF Delivered

\* Every step keeps the types.
LEMMA TypesNext == Types /\ [Next]_vars => Types'
<1> SUFFICES ASSUME Types, [Next]_vars PROVE Types'
  OBVIOUS
<1>1. CASE UNCHANGED vars
  BY <1>1 DEF vars, Types, counters, counts, channel, death, loop, flags, result
<1>2. CASE \E w \in Workers : Step(w) \/ Sigterm(w)
  BY <1>2, TypesStep
<1>3. CASE Manager
  BY <1>3, TypesManager
<1>4. CASE ChildSignal
  BY <1>4, TypesDelivered DEF ChildSignal, Types
<1>5. CASE \E s \in Requests : Request(s)
  BY <1>5, TypesDelivered DEF Request, Types
<1> QED
  BY <1>1, <1>2, <1>3, <1>4, <1>5 DEF Next

\* The types hold in every reachable state.
THEOREM TypesInvariant == Spec => []Types
  BY TypesInit, TypesNext, PTL DEF Spec

-----------------------------------------------------------------------------
(* Layer 2.  The mutex.                                                      *)

\* The workers inside are finitely many.
LEMMA InsideFinite ==
  ASSUME inside \subseteq Workers
  PROVE  IsFiniteSet(inside) /\ Cardinality(inside) \in Nat
<1>1. IsFiniteSet(Workers)
  BY ConstantsAssumption, FS_Interval DEF ConstantsAssumption, Workers
<1> QED
  BY <1>1, FS_Subset, FS_CardinalityType

\* Each operation keeps the sum of the value of job_sem and of those inside.
LEMMA MutexNext == Types /\ JobSemMutex /\ [Next]_vars => JobSemMutex'
<1> SUFFICES ASSUME Types, JobSemMutex, [Next]_vars PROVE JobSemMutex'
  OBVIOUS
<1> USE DEF JobSemMutex
<1>0. IsFiniteSet(inside) /\ Cardinality(inside) \in Nat /\ jobSem \in Nat
  BY InsideFinite DEF Types
<1>1. ASSUME NEW w \in Workers, EnterJobSem(w) PROVE JobSemMutex'
  <2>1. Cardinality(inside') = Cardinality(inside) + 1
    BY <1>1, <1>0, FS_AddElement DEF EnterJobSem
  <2> QED BY <1>0, <1>1, <2>1 DEF EnterJobSem, loop
<1>2. ASSUME NEW w \in Workers, PostJobSem(w) PROVE JobSemMutex'
  <2>1. Cardinality(inside') = Cardinality(inside) - 1
    BY <1>2, <1>0, FS_RemoveElement DEF PostJobSem, InCritical
  <2> QED BY <1>0, <1>2, <2>1 DEF PostJobSem, InCritical, loop
<1>3. ASSUME NEW w \in Workers, Step(w) \/ Sigterm(w), ~EnterJobSem(w),
             ~PostJobSem(w)
      PROVE  JobSemMutex'
  <2>1. UNCHANGED <<jobSem, inside, mpc, unlocked>>
    BY <1>3 DEF Step, Start, Top, Load, CheckIdle, TakeToken, Job, TakeNothing,
       FindJob, BeginJob, TakeJob, PushJob, EndJob, InCritical, Entry, EndListing,
       FillRecord, OpenFileFails, Write, MarkDone, Sigterm, counts, loop
  <2> QED BY <2>1
<1>4. CASE WaitJobSem \/ (Decide /\ mpc = "counting")
  BY <1>0, <1>4 DEF WaitJobSem, Decide, MMove, Still, flags
<1>5. CASE ReadWaiting \/ (Decide /\ mpc = "counted")
  BY <1>5 DEF ReadWaiting, Decide, Still, Types
<1>6. ASSUME Manager, ~WaitJobSem, ~ReadWaiting, ~Decide PROVE JobSemMutex'
  <2>1. UNCHANGED <<jobSem, inside, unlocked>>
    BY <1>6 DEF Manager, BeginShutdown, KillLate, NoSignal, SkipEmpty,
       TakeRecordToken, Collect, EndPass, ClosePipe, WaitPid, Finish, Begun,
       Still, counts
  <2>2. mpc # "counting" /\ mpc' # "counting"
    BY <1>6 DEF Manager, BeginShutdown, KillLate, NoSignal, SkipEmpty,
       TakeRecordToken, Collect, EndPass, ClosePipe, WaitPid, Finish, Reap, MMove
  <2> QED BY <2>1, <2>2
<1>7. ASSUME NEW s, Delivered(s) PROVE JobSemMutex'
  <2>1. UNCHANGED <<jobSem, inside>>
    BY <1>7 DEF Delivered, counts
  <2>2. CASE unlocked'
    BY <2>2
  <2>3. CASE ~unlocked'
    <3>1. ~unlocked /\ (mpc = "counting" <=> mpc' = "counting")
      BY <1>7, <2>3 DEF Delivered, Undisturbed, Interrupted, MMove, Types
    <3> QED BY <2>1, <3>1
  <2> QED BY <2>2, <2>3
<1>8. CASE UNCHANGED vars
  BY <1>8 DEF vars, counts, loop
<1>9. mpc = "counting" \/ mpc = "counted" \/ ~Decide
  BY DEF Decide
<1> QED
  BY <1>1, <1>2, <1>3, <1>4, <1>5, <1>6, <1>7, <1>8, <1>9
     DEF Next, ChildSignal, Request

\* job_sem stays a mutex of the workers and the manager, wherever SIGTERM and
\* SIGKILL find a worker, as long as no signal has cut short the manager's wait.
THEOREM MutexInvariant == Spec => []JobSemMutex
<1>1. Init => JobSemMutex
  BY FS_EmptySet DEF Init, JobSemMutex
<1> QED
  BY <1>1, TypesInvariant, MutexNext, PTL DEF Spec

\* With the mutex whole a worker inside is alone.
LEMMA AloneInside ==
  ASSUME Types, JobSemMutex, ~unlocked, NEW w \in inside
  PROVE  inside = {w}
<1>1. IsFiniteSet(inside) /\ Cardinality(inside) <= 1
  BY InsideFinite DEF Types, JobSemMutex
<1>2. /\ Cardinality(inside \ {w}) = Cardinality(inside) - 1
      /\ IsFiniteSet(inside \ {w})
  BY <1>1, FS_RemoveElement
<1>3. Cardinality(inside \ {w}) = 0
  BY <1>1, <1>2, FS_CardinalityType
<1>4. inside \ {w} = {}
  BY <1>2, <1>3, FS_EmptySet
<1> QED
  BY <1>4

-----------------------------------------------------------------------------
(* Layer 3.  The two counters, as long as the mutex is whole.  jobs_running   *)
(* is never less than the number of workers with a job; it may be more, as    *)
(* workers leave, or are killed, with a job counted.  A worker that has seen  *)
(* a job and has not yet counted it down is inside, so it is still there.    *)

Running == {w \in Workers : pc[w] \in {"claim", "list", "push", "fill", "report",
                                       "error", "end"}}
Claiming == {w \in Workers : pc[w] \in {"begin", "claim"}}
Counted ==
  /\ Claiming \subseteq inside
  /\ ~unlocked => /\ Cardinality(Running) <= jobsRunning
                  /\ jobsWaiting >= 0 /\ (Claiming # {} => jobsWaiting > 0)
                  /\ \A w \in Workers : reg[w] = {}

\* The set of workers with a job is finite, so that it can be counted.
LEMMA RunningFinite == /\ IsFiniteSet(Running) /\ Cardinality(Running) \in Nat
                       /\ IsFiniteSet(Running')
                       /\ Cardinality(Running') \in Nat
<1>1. IsFiniteSet(Workers)
  BY ConstantsAssumption, FS_Interval DEF ConstantsAssumption, Workers
<1>2. IsFiniteSet(Running) /\ IsFiniteSet(Running')
  BY <1>1, FS_Subset DEF Running
<1> QED
  BY <1>2, FS_CardinalityType

\* A step that gives no worker a job and changes no counter.
LEMMA CountedSmaller ==
  ASSUME Types, Counted, Running' \subseteq Running, Claiming' \subseteq Claiming,
         UNCHANGED counters, Claiming' \subseteq inside', unlocked => unlocked'
  PROVE  Counted'
<1>1. Cardinality(Running') <= Cardinality(Running)
  BY RunningFinite, FS_Subset
<1> QED
  BY <1>1, RunningFinite DEF Counted, counters, Types

\* The steps of a worker in its critical section.
LEMMA CountedJob ==
  ASSUME Types, JobSemMutex, Counted, NEW w \in Workers,
         Load(w) \/ CheckIdle(w) \/ Job(w)
  PROVE  Counted'
<1>0. w \in inside /\ UNCHANGED unlocked
  BY DEF Load, CheckIdle, Job, TakeNothing, FindJob, BeginJob, TakeJob, PushJob,
     EndJob, PostJobSem, InCritical
<1>1. Claiming' \subseteq inside'
  BY <1>0 DEF Load, CheckIdle, Job, TakeNothing, FindJob, BeginJob, TakeJob,
     PushJob, EndJob, PostJobSem, InCritical, Move, Claiming, Counted, Types
<1>2. CASE unlocked
  BY <1>0, <1>1, <1>2 DEF Counted
<1>3. CASE ~unlocked
  <2>1. inside = {w} /\ Claiming \subseteq {w}
    BY <1>0, <1>3, AloneInside DEF Counted
  <2>2. \A c : Read(w, c) = {c}
    BY <1>3 DEF Counted, Read
  <2>3. CASE Load(w)
    BY <1>3, <2>3 DEF Load, OthersStore
  <2>4. CASE CheckIdle(w) \/ TakeNothing(w)
    <3>1. /\ Running' \subseteq Running /\ Claiming' \subseteq Claiming
          /\ UNCHANGED <<jobsWaiting, jobsRunning>>
      BY <2>4 DEF CheckIdle, TakeNothing, Move, counters, Types, Running, Claiming
    <3>2. UNCHANGED reg
      BY <1>3, <2>4 DEF CheckIdle, TakeNothing, Used, counters, Counted, Types
    <3> QED BY <3>1, <3>2, <1>0, <1>1, CountedSmaller DEF counters
  <2>5. CASE FindJob(w)
    <3>1. Running' = Running /\ jobsWaiting # 0 /\ UNCHANGED counters
      BY <2>5 DEF FindJob, Move, Types, Running
    <3> QED BY <3>1, <1>0, <1>1, <1>3 DEF Counted, counters, Types
  <2>6. CASE BeginJob(w)
    <3>1. /\ Running' = Running \cup {w} /\ Claiming' = Claiming
          /\ jobsRunning' = jobsRunning + 1 /\ UNCHANGED jobsWaiting
      BY <2>2, <2>6 DEF BeginJob, Move, Types, Running, Claiming
    <3>2. \A v \in Workers : reg'[v] = {}
      BY <1>3, <2>6 DEF BeginJob, Used, Counted, Types
    <3>3. Cardinality(Running') <= Cardinality(Running) + 1
      BY <3>1, RunningFinite, FS_AddElement
    <3> QED BY <3>1, <3>2, <3>3, <1>1, <1>3, RunningFinite DEF Counted, Types
  <2>7. CASE TakeJob(w)
    <3>1. /\ Running' = Running /\ Claiming' = {} /\ w \in Claiming
          /\ jobsWaiting' = jobsWaiting - 1 /\ UNCHANGED jobsRunning
      BY <2>1, <2>2, <2>7 DEF TakeJob, Move, Types, Running, Claiming
    <3>2. \A v \in Workers : reg'[v] = {}
      BY <1>3, <2>7 DEF TakeJob, Used, Counted, Types
    <3> QED BY <3>1, <3>2, <1>1, <1>3 DEF Counted, Types
  <2>8. CASE PushJob(w)
    <3>1. /\ Running' = Running /\ Claiming' = Claiming
          /\ jobsWaiting' = jobsWaiting + 1 /\ UNCHANGED jobsRunning
      BY <2>2, <2>8 DEF PushJob, Move, Types, Running, Claiming
    <3>2. \A v \in Workers : reg'[v] = {}
      BY <1>3, <2>8 DEF PushJob, Used, Counted, Types
    <3> QED BY <3>1, <3>2, <1>1, <1>3 DEF Counted, Types
  <2>9. CASE EndJob(w)
    <3>1. /\ Running' = Running \ {w} /\ w \in Running /\ Claiming' = Claiming
          /\ jobsRunning' = jobsRunning - 1 /\ UNCHANGED jobsWaiting
      BY <2>2, <2>9 DEF EndJob, Move, Types, Running, Claiming
    <3>2. \A v \in Workers : reg'[v] = {}
      BY <1>3, <2>9 DEF EndJob, Used, Counted, Types
    <3>3. Cardinality(Running') = Cardinality(Running) - 1
      BY <3>1, RunningFinite, FS_RemoveElement
    <3> QED BY <3>1, <3>2, <3>3, <1>1, <1>3, RunningFinite DEF Counted, Types
  <2> QED BY <2>3, <2>4, <2>5, <2>6, <2>7, <2>8, <2>9 DEF Job
<1> QED
  BY <1>2, <1>3

\* Each operation keeps the count.
LEMMA CountedNext == Types /\ JobSemMutex /\ Counted /\ [Next]_vars => Counted'
<1> SUFFICES ASSUME Types, JobSemMutex, Counted, [Next]_vars PROVE Counted'
  OBVIOUS
<1>1. ASSUME Running' \subseteq Running, Claiming' \subseteq Claiming,
             UNCHANGED counters, Claiming \cap inside \subseteq inside',
             unlocked => unlocked'
      PROVE  Counted'
  BY <1>1, CountedSmaller DEF Counted
<1>2. ASSUME NEW w \in Workers, Load(w) \/ CheckIdle(w) \/ Job(w) PROVE Counted'
  BY <1>2, CountedJob
<1>3. ASSUME NEW w \in Workers, Step(w), ~(Load(w) \/ CheckIdle(w) \/ Job(w))
      PROVE  Counted'
  <2>1. Running' \subseteq Running /\ Claiming' \subseteq Claiming
    BY <1>3 DEF Step, Start, Top, EnterJobSem, TakeToken, Entry, EndListing,
       FillRecord, OpenFileFails, Write, AfterWrite, AtPipe, MarkDone, Move, Types,
       Running, Claiming
  <2>2. UNCHANGED counters /\ inside \subseteq inside' /\ UNCHANGED unlocked
    BY <1>3 DEF Step, Start, Top, EnterJobSem, TakeToken, Entry, EndListing,
       FillRecord, OpenFileFails, Write, MarkDone, counts
  <2> QED BY <2>1, <2>2, <1>1
<1>4. ASSUME NEW w \in Workers, Sigterm(w) PROVE Counted'
  <2>1. Running' \subseteq Running /\ Claiming' \subseteq Claiming
    BY <1>4 DEF Sigterm, Blocked, AfterWrite, AtPipe, Move, Types, Running,
       Claiming
  <2>2. UNCHANGED counters /\ inside' = inside /\ UNCHANGED unlocked
    BY <1>4 DEF Sigterm, counts
  <2> QED BY <2>1, <2>2, <1>1
<1>5. CASE Manager
  <2>1. Running' \subseteq Running /\ Claiming' \subseteq Claiming
    BY <1>5 DEF Manager, BeginShutdown, KillLate, NoSignal, SkipEmpty,
       TakeRecordToken, Collect, EndPass, WaitJobSem, ReadWaiting, Decide,
       ClosePipe, WaitPid, Finish, Still, Types, Running, Claiming
  <2>2. UNCHANGED counters /\ inside' = inside /\ UNCHANGED unlocked
    BY <1>5 DEF Manager, BeginShutdown, KillLate, NoSignal, SkipEmpty,
       TakeRecordToken, Collect, EndPass, WaitJobSem, ReadWaiting, Decide,
       ClosePipe, WaitPid, Finish, Begun, Still, counts
  <2> QED BY <2>1, <2>2, <1>1
<1>6. ASSUME NEW s, Delivered(s) PROVE Counted'
  <2>1. /\ Running' = Running /\ Claiming' = Claiming /\ UNCHANGED counters
        /\ inside' = inside
    BY <1>6 DEF Delivered, counts, Running, Claiming
  <2>2. unlocked => unlocked'
    BY <1>6 DEF Delivered, Undisturbed, Interrupted
  <2> QED BY <2>1, <2>2, <1>1
<1>7. CASE UNCHANGED vars
  <2>1. /\ Running' = Running /\ Claiming' = Claiming /\ UNCHANGED counters
        /\ inside' = inside /\ UNCHANGED unlocked
    BY <1>7 DEF vars, counts, Running, Claiming
  <2> QED BY <2>1, <1>1
<1> QED
  BY <1>2, <1>3, <1>4, <1>5, <1>6, <1>7 DEF Next, ChildSignal, Request

\* The code changes jobs_running and jobs_waiting under job_sem without looking
\* at their values: as long as no signal has broken the mutex the two never go
\* below zero, with workers killed or told to leave at any moment.
THEOREM TypeCorrect == Spec => []TypeOK
<1>1. Init => Counted
  <2>1. Init => Running = {} /\ Claiming = {}
    BY DEF Init, Running, Claiming
  <2> QED BY <2>1, FS_EmptySet DEF Init, Counted
<1>2. Types /\ Counted => TypeOK
  BY RunningFinite DEF Types, Counted, TypeOK
<1> QED
  BY <1>1, <1>2, TypesInvariant, MutexInvariant, CountedNext, PTL DEF Spec

-----------------------------------------------------------------------------
(* Layer 4.  Until it closes the pipe the manager knows all that are alive.   *)
(* It leaves the loop of a shutdown when it knows of none; the waitpid that  *)
(* an interrupt may cut short comes only after that.                        *)

InLoop == {"top", "pass", "lock", "count", "counting", "counted"}

Family ==
  /\ mpc \in InLoop => Alive \subseteq pids
  /\ mpc \in InLoop \cup {"close"} => pipeOpen
  /\ quitting => mpc \notin {"count", "counting", "counted"}
  /\ quitting /\ mpc \notin InLoop \cup {"aborted"} => Alive = {}

Accounts == ~pipeOpen \/ \A w \in Dead : done[w] \/ w \in lost

\* No step brings a worker back to life.
LEMMA DeadStay == Types /\ [Next]_vars => Dead \subseteq Dead'
<1> SUFFICES ASSUME Types, [Next]_vars PROVE Dead \subseteq Dead'
  OBVIOUS
<1> USE DEF Types, Dead
<1>1. ASSUME NEW w \in Workers, Step(w) PROVE Dead \subseteq Dead'
  BY <1>1 DEF Step, Start, Top, EnterJobSem, CheckIdle, TakeToken, Load,
     Job, TakeNothing, FindJob, BeginJob, TakeJob, Entry, Write, PushJob,
     EndJob, LockChannel, EndListing, FillRecord, OpenFileFails, MarkDone,
     PostJobSem, InCritical, Move, AtPipe
<1>2. ASSUME NEW w \in Workers, Sigterm(w) PROVE Dead \subseteq Dead'
  BY <1>2 DEF Sigterm, Move, Asleep, AtJobSem, Blocked, AtPipe
<1>3. CASE Manager
  BY <1>3 DEF Manager, BeginShutdown, KillLate, NoSignal, SkipEmpty,
     TakeRecordToken, Collect, EndPass, WaitJobSem, ReadWaiting, Decide,
     ClosePipe, WaitPid, Finish, Still
<1>4. CASE UNCHANGED vars \/ ChildSignal \/ \E s \in Requests : Request(s)
  BY <1>4 DEF vars, Request, ChildSignal, Delivered
<1> QED
  BY <1>1, <1>2, <1>3, <1>4 DEF Next

\* Each operation keeps what the manager knows of the living.
LEMMA FamilyNext == Types /\ Family /\ [Next]_vars => Family'
<1> SUFFICES ASSUME Types, Family, [Next]_vars PROVE Family'
  OBVIOUS
<1>0. Alive' \subseteq Alive /\ Alive \subseteq Workers
  BY DeadStay DEF Alive, Dead
<1>1. ASSUME UNCHANGED <<mpc, pids, quitting, pipeOpen>> PROVE Family'
  BY <1>0, <1>1 DEF Family, InLoop
<1>2. ASSUME NEW w \in Workers, Step(w) \/ Sigterm(w) PROVE Family'
  <2>1. UNCHANGED <<mpc, pids, quitting, pipeOpen>>
    BY <1>2 DEF Step, Start, Top, EnterJobSem, CheckIdle, TakeToken, Load,
       Job, TakeNothing, FindJob, BeginJob, TakeJob, Entry, PushJob, EndJob,
       LockChannel, EndListing, FillRecord, OpenFileFails, Write, MarkDone,
       Sigterm, PostJobSem, InCritical, loop, result
  <2> QED BY <2>1, <1>1
<1>3. CASE BeginShutdown \/ NoSignal
  <2>1. Alive \subseteq Reaped
    BY <1>3 DEF BeginShutdown, NoSignal, Reap, MMove, Reaped, Family,
       InLoop, Alive
  <2> QED
    BY <2>1, <1>0, <1>3 DEF BeginShutdown, NoSignal, Reap, MMove, Begun,
       result, Family, InLoop
<1>4. CASE KillLate
  <2>1. Alive' = {}
    BY <1>4 DEF KillLate, Reap, MMove, Reaped, Family, InLoop, Alive, Dead,
       Types
  <2> QED
    BY <2>1, <1>4 DEF KillLate, Reap, MMove, Begun, result, Family, InLoop
<1>5. CASE SkipEmpty \/ TakeRecordToken \/ Collect \/ WaitJobSem \/ EndPass
           \/ ReadWaiting \/ Decide \/ ClosePipe
  BY <1>0, <1>5 DEF SkipEmpty, TakeRecordToken, Collect, WaitJobSem,
     EndPass, ReadWaiting, Decide, ClosePipe, MMove, Still, Family, InLoop
<1>6. CASE WaitPid \/ Finish
  BY <1>0, <1>6 DEF WaitPid, Finish, MMove, Family, InLoop
<1>7. CASE ChildSignal \/ \E s \in Requests : Request(s)
  BY <1>0, <1>7 DEF ChildSignal, Request, Delivered, Undisturbed,
     Interrupted, MMove, Family, InLoop
<1>8. CASE UNCHANGED vars
  BY <1>1, <1>8 DEF vars, Request, loop, result
<1> QED
  BY <1>2, <1>3, <1>4, <1>5, <1>6, <1>7, <1>8 DEF Next, Manager

\* What the manager knows of the living holds in every reachable state.
THEOREM FamilyInvariant == Spec => []Family
<1>1. Init => Family
  BY DEF Init, Family, InLoop, Alive
<1> QED
  BY <1>1, TypesInvariant, FamilyNext, PTL DEF Spec

\* A shutdown, whatever signals interrupt it and whichever workers have to be
\* killed, leaves no worker behind when the manager finishes.
THEOREM NobodyLeftBehind == Spec => []ShutdownLeavesNobody
<1>1. Family => ShutdownLeavesNobody
  BY DEF Family, InLoop, ShutdownLeavesNobody
<1> QED
  BY <1>1, FamilyInvariant, PTL

\* What happens to the pipe: the manager closes it, or is ended.
LEMMA PipeClosed ==
  ASSUME [Next]_vars
  PROVE  \/ UNCHANGED pipeOpen
         \/ pipeOpen' = FALSE /\ (ClosePipe \/ mpc' = "aborted")
<1>1. ASSUME NEW w \in Workers, Step(w) \/ Sigterm(w) PROVE UNCHANGED pipeOpen
  BY <1>1 DEF Step, Start, Top, EnterJobSem, Load, CheckIdle, TakeToken, Job,
     TakeNothing, FindJob, BeginJob, TakeJob, PushJob, EndJob, PostJobSem,
     InCritical, Entry, EndListing, FillRecord, OpenFileFails, Write, MarkDone,
     Sigterm, result
<1>2. ASSUME Manager, ~ClosePipe PROVE UNCHANGED pipeOpen
  BY <1>2 DEF Manager, BeginShutdown, KillLate, NoSignal, Begun, SkipEmpty,
     TakeRecordToken, Collect, EndPass, WaitJobSem, ReadWaiting, Decide,
     WaitPid, Finish
<1>3. CASE ClosePipe
  BY <1>3 DEF ClosePipe
<1>4. CASE ChildSignal \/ \E s \in Requests : Request(s)
  BY <1>4 DEF ChildSignal, Request, Delivered, Undisturbed, Interrupted, MMove
<1>5. CASE UNCHANGED vars
  BY <1>5 DEF vars, result
<1> QED
  BY <1>1, <1>2, <1>3, <1>4, <1>5 DEF Next

\* Each operation keeps the account of the dead, as long as the pipe is open.
LEMMA AccountsNext == Types /\ Accounts /\ [Next]_vars => Accounts'
<1> SUFFICES ASSUME Types, Accounts, [Next]_vars, pipeOpen'
             PROVE  \A w \in Dead' : done'[w] \/ w \in lost'
  BY DEF Accounts
<1>0. pipeOpen /\ \A w \in Dead : done[w] \/ w \in lost
  <2>1. UNCHANGED pipeOpen
    BY PipeClosed
  <2> QED BY <2>1 DEF Accounts
<1>1. ASSUME Dead' \subseteq Dead, UNCHANGED <<done, lost>>
      PROVE  \A w \in Dead' : done'[w] \/ w \in lost'
  BY <1>0, <1>1
<1>2. ASSUME NEW v \in Workers, MarkDone(v)
      PROVE  \A w \in Dead' : done'[w] \/ w \in lost'
  <2>1. Dead' \subseteq Dead \cup {v}
    BY <1>2 DEF MarkDone, Move, Dead, Types
  <2> QED BY <1>0, <1>2, <2>1 DEF MarkDone, death, Types
<1>3. ASSUME NEW v \in Workers, Step(v), ~MarkDone(v)
      PROVE  \A w \in Dead' : done'[w] \/ w \in lost'
  <2>1. Dead' \subseteq Dead
    BY <1>0, <1>3 DEF Step, Start, Top, EnterJobSem, CheckIdle, TakeToken,
       Load, Job, TakeNothing, FindJob, BeginJob, TakeJob, Entry, Write,
       PushJob, EndJob, LockChannel, EndListing, FillRecord, OpenFileFails,
       PostJobSem, InCritical, Move, Dead, Types, AtPipe, AfterWrite
  <2>2. UNCHANGED <<done, lost>>
    BY <1>3 DEF Step, Start, Top, EnterJobSem, CheckIdle, TakeToken, Load,
       Job, TakeNothing, FindJob, BeginJob, TakeJob, Entry, PushJob, EndJob,
       LockChannel, EndListing, FillRecord, OpenFileFails, Write, PostJobSem,
       InCritical, channel, death
  <2> QED BY <1>1, <2>1, <2>2
<1>4. ASSUME NEW v \in Workers, Sigterm(v)
      PROVE  \A w \in Dead' : done'[w] \/ w \in lost'
  <2>1. CASE UNCHANGED lost /\ Dead' \subseteq Dead
    BY <1>1, <1>4, <2>1 DEF Sigterm, channel
  <2>2. CASE lost' = lost \cup {v} /\ Dead' \subseteq Dead \cup {v}
    BY <1>0, <1>4, <2>2 DEF Sigterm, channel
  <2> QED BY <1>4, <2>1, <2>2 DEF Sigterm, Move, Dead, Types, Blocked, AtPipe,
             AfterWrite
<1>5. CASE KillLate
  <2>1. Dead' \subseteq Dead \cup (Reaped \cap Alive)
    BY <1>5 DEF KillLate, Alive, Dead, Types
  <2> QED BY <1>0, <1>5, <2>1 DEF KillLate, Begun, channel
<1>6. ASSUME Manager, ~KillLate
      PROVE  \A w \in Dead' : done'[w] \/ w \in lost'
  <2>1. UNCHANGED <<pc, done, lost>>
    BY <1>6 DEF Manager, BeginShutdown, NoSignal, SkipEmpty,
       TakeRecordToken, Collect, EndPass, WaitJobSem, ReadWaiting, Decide,
       ClosePipe, WaitPid, Finish, Begun, Still, channel, death
  <2> QED BY <1>1, <2>1 DEF Dead
<1>7. CASE UNCHANGED vars \/ ChildSignal \/ \E s \in Requests : Request(s)
  BY <1>1, <1>7 DEF vars, Request, ChildSignal, Delivered, channel, death, Dead
<1> QED
  BY <1>2, <1>3, <1>4, <1>5, <1>6, <1>7 DEF Next

\* Statistics once written stay, and so does the mark of a killed worker.
LEMMA RecordsStay ==
  ASSUME Types, [Next]_vars
  PROVE  lost \subseteq lost' /\ \A w \in Workers : done[w] => done'[w]
<1>1. ASSUME NEW v \in Workers, Step(v) \/ Sigterm(v)
      PROVE  lost \subseteq lost' /\ \A w \in Workers : done[w] => done'[w]
  BY <1>1 DEF Step, Start, Top, EnterJobSem, CheckIdle, TakeToken, Load,
     Job, TakeNothing, FindJob, BeginJob, TakeJob, Entry, PushJob, EndJob,
     LockChannel, EndListing, FillRecord, OpenFileFails, Write, MarkDone,
     Sigterm, PostJobSem, InCritical, channel, death, Types
<1>2. CASE Manager
  BY <1>2 DEF Manager, BeginShutdown, KillLate, NoSignal, SkipEmpty,
     TakeRecordToken, Collect, EndPass, WaitJobSem, ReadWaiting, Decide,
     ClosePipe, WaitPid, Finish, Begun, Still, channel, death
<1>3. CASE UNCHANGED vars \/ ChildSignal \/ \E s \in Requests : Request(s)
  BY <1>3 DEF vars, Request, ChildSignal, Delivered, channel, death
<1> QED
  BY <1>1, <1>2, <1>3 DEF Next

\* Before a shutdown begins the pipe is open, and an ended manager stays ended.
LEMMA ShutdownStays ==
  ASSUME Family, [Next]_vars, quitting', mpc' # "aborted", ~pipeOpen
  PROVE  quitting /\ mpc # "aborted"
<1>1. ASSUME NEW w \in Workers, Step(w) \/ Sigterm(w) PROVE UNCHANGED <<quitting, mpc>>
  BY <1>1 DEF Step, Start, Top, EnterJobSem, Load, CheckIdle, TakeToken, Job,
     TakeNothing, FindJob, BeginJob, TakeJob, PushJob, EndJob, PostJobSem,
     InCritical, Entry, EndListing, FillRecord, OpenFileFails, Write, MarkDone,
     Sigterm, loop
<1>2. CASE Manager
  <2>1. ~BeginShutdown
    BY DEF BeginShutdown, Reap, MMove, Family, InLoop
  <2>2. UNCHANGED quitting /\ mpc # "aborted"
    BY <1>2, <2>1 DEF Manager, KillLate, NoSignal, Reap, SkipEmpty,
       TakeRecordToken, Collect, EndPass, WaitJobSem, ReadWaiting, Decide,
       ClosePipe, WaitPid, Finish, MMove
  <2> QED BY <2>2
<1>3. CASE ChildSignal \/ \E s \in Requests : Request(s)
  BY <1>3 DEF ChildSignal, Request, Delivered, Over
<1>4. CASE UNCHANGED vars
  BY <1>4 DEF vars, loop
<1> QED
  BY <1>1, <1>2, <1>3, <1>4 DEF Next

\* Each operation keeps the account of the dead, also after the pipe is closed:
\* in a shutdown there is nobody left then.
LEMMA StatisticsNext ==
  Types /\ Family /\ Accounts /\ OnlyTheKilledLoseStatistics /\ [Next]_vars
    => OnlyTheKilledLoseStatistics'
<1> SUFFICES ASSUME Types, Family, Accounts, OnlyTheKilledLoseStatistics,
                    [Next]_vars, quitting', mpc' # "aborted"
             PROVE  \A w \in Dead' : done'[w] \/ w \in lost'
  BY DEF OnlyTheKilledLoseStatistics
<1>1. CASE pipeOpen'
  BY <1>1, AccountsNext DEF Accounts
<1>2. CASE pipeOpen /\ ~pipeOpen'
  <2>1. UNCHANGED <<pc, done, lost>>
    BY <1>2, PipeClosed DEF ClosePipe, Still, death
  <2> QED BY <1>2, <2>1 DEF Accounts, Dead
<1>3. CASE ~pipeOpen /\ ~pipeOpen'
  <2>1. quitting /\ mpc # "aborted"
    BY <1>3, ShutdownStays
  <2>2. Dead = Workers
    BY <1>3, <2>1 DEF Family, Alive, Dead
  <2>3. Dead' \subseteq Workers
    BY DEF Dead
  <2> QED BY <2>1, <2>2, <2>3, RecordsStay DEF OnlyTheKilledLoseStatistics
<1> QED
  BY <1>1, <1>2, <1>3 DEF Types

\* In a shutdown a worker that nobody kills ends with its statistics written.
THEOREM StatisticsInvariant == Spec => []OnlyTheKilledLoseStatistics
<1>1. Init => Accounts /\ OnlyTheKilledLoseStatistics
  BY DEF Init, Accounts, OnlyTheKilledLoseStatistics, Dead
<1>2. Spec => []Accounts
  BY <1>1, TypesInvariant, AccountsNext, PTL DEF Spec
<1> QED
  BY <1>1, <1>2, TypesInvariant, FamilyInvariant, StatisticsNext, PTL DEF Spec
=============================================================================
