------------------------ MODULE ResultChannel_proofs ------------------------
(***************************************************************************)
(* Theorems about ResultChannel, for every number of workers, every length   *)
(* of the rings and every number of files, with a shutdown and SIGTERM at    *)
(* any moment.  The layers are: types, the mutex of a channel, the tokens of *)
(* its counting semaphores, and the contents of the ring.                   *)
(***************************************************************************)
EXTENDS ResultChannel, TLAPS

\* A worker at these places has a file in hand.
AtFile == {"slot", "lock", "fill"}

-----------------------------------------------------------------------------
(* Layer 1.  Types, and who may be where.                                    *)

Types ==
  /\ chanSem \in [Workers -> Nat] /\ readSem \in [Workers -> Nat]
  /\ writeSem \in [Workers -> Nat]
  /\ head \in [Workers -> Nat] /\ tail \in [Workers -> Nat]
  /\ records \in [Workers -> [Slots -> Numbers]]
  /\ done \in [Workers -> BOOLEAN]
  /\ emitted \in [Workers -> Seq(Files)]
  /\ jobsWaiting \in Nat /\ dirs \in Nat /\ files \in 0..MaxFiles
  /\ messages \in 0..PipeLen /\ failed \subseteq Workers
  /\ quitting \in BOOLEAN /\ sigterm \subseteq Workers
  /\ pc \in [Workers -> Places] /\ file \in [Workers -> Numbers]
  /\ \A w \in Workers : pc[w] \in AtFile => file[w] \in Files
  /\ \A w \in Workers : file[w] <= files
  /\ mpc \in ManagerPlaces /\ chan \in Indexes
  /\ mpc \in {"lock", "collect", "return"} => chan \in Workers
  /\ nothing \in BOOLEAN /\ alive \subseteq Workers
  /\ db \in [Workers -> Seq(Numbers)]
  /\ complete \in {"START", "FULL", "PART"}

\* The slot of a count is an index of the ring.
LEMMA SlotType == \A k \in Int : Slot(k) \in Slots
  BY ConstantsAssumption DEF ConstantsAssumption, Slot, Slots

\* The next file is a file, and the loop index runs through the workers.
LEMMA NextOne ==
  /\ 0 \in Numbers /\ Files \subseteq Numbers /\ Numbers \subseteq Nat
  /\ \A m \in 0..MaxFiles, n \in Numbers :
       n <= m /\ m < MaxFiles => n + 1 \in Files /\ m + 1 \in 0..MaxFiles
  /\ 0 \in 0..MaxFiles /\ 0 \in 0..PipeLen
  /\ 1 \in Indexes /\ Workers \subseteq Indexes
  /\ \A i \in Workers : i + 1 \in Indexes
  BY ConstantsAssumption DEF ConstantsAssumption, Files, Numbers, Workers, Indexes

\* The pipe takes a message when there is room, and a read takes some out.
LEMMA PipeRoom ==
  ASSUME messages \in 0..PipeLen
  PROVE  /\ messages < PipeLen => messages + 1 \in 0..PipeLen
         /\ (IF messages > PollLen THEN messages - PollLen ELSE 0) \in 0..PipeLen
  BY ConstantsAssumption DEF ConstantsAssumption

\* Meeting a file keeps the numbers of files within their bounds.
LEMMA MetFile ==
  ASSUME file \in [Workers -> Numbers], files \in 0..MaxFiles,
         \A v \in Workers : file[v] <= files,
         NEW w \in Workers, file[w] + 1 \in Files, files + 1 \in 0..MaxFiles,
         files' = files + 1, file' = [file EXCEPT ![w] = @ + 1]
  PROVE  /\ files' \in 0..MaxFiles /\ file' \in [Workers -> Numbers]
         /\ file'[w] \in Files /\ \A v \in Workers : file'[v] <= files'
<1>1. file'[w] \in Files /\ file' \in [Workers -> Numbers]
  BY NextOne
<1>2. ASSUME NEW v \in Workers PROVE file'[v] <= files'
  <2>1. file[v] \in Nat /\ files \in Nat /\ file[v] <= files
    <3>1. file[v] \in Numbers /\ file[v] <= files
      OBVIOUS
    <3> QED BY <3>1, ConstantsAssumption DEF ConstantsAssumption, Numbers
  <2>2. file'[v] = file[v] \/ file'[v] = file[v] + 1
    OBVIOUS
  <2> QED BY <2>1, <2>2
<1> QED
  BY <1>1, <1>2

\* The initial state of the channels and of the manager is typed.
LEMMA TypesInit == Init => Types
<1> SUFFICES ASSUME Init PROVE Types
  OBVIOUS
<1>1. << >> \in Seq(Files) /\ << >> \in Seq(Numbers)
  OBVIOUS
<1>2. emitted \in [Workers -> Seq(Files)]
      /\ db \in [Workers -> Seq(Numbers)]
  BY <1>1 DEF Init
<1>3. records \in [Workers -> [Slots -> Numbers]]
      /\ file \in [Workers -> Numbers]
  BY NextOne DEF Init
<1>4. pc \in [Workers -> Places]
      /\ \A w \in Workers : pc[w] \in AtFile => file[w] \in Files
  BY DEF Init, Places, AtFile
<1>5. mpc \in ManagerPlaces /\ chan \in Indexes
  BY NextOne DEF Init, ManagerPlaces
<1>7. files \in 0..MaxFiles /\ messages \in 0..PipeLen
      /\ \A w \in Workers : file[w] <= files
  BY NextOne DEF Init
<1>6. chanSem \in [Workers -> Nat] /\ readSem \in [Workers -> Nat]
      /\ writeSem \in [Workers -> Nat]
      /\ head \in [Workers -> Nat] /\ tail \in [Workers -> Nat]
      /\ done \in [Workers -> BOOLEAN]
  BY ConstantsAssumption DEF Init, ConstantsAssumption
<1> QED
  BY <1>2, <1>3, <1>4, <1>5, <1>6, <1>7 DEF Init, Types

\* Each operation keeps the types, one step per action.
LEMMA TypesNext == Types /\ [Next]_vars => Types'
<1> SUFFICES ASSUME Types, [Next]_vars PROVE Types'
  OBVIOUS
<1> USE DEF Types, Places, ManagerPlaces, AtFile, Set, Add, Move, MMove,
            channel, pool, pipe, signal, worker, manager, Send, Meet
<1>0. CASE UNCHANGED vars
  BY <1>0 DEF vars
<1>1. ASSUME NEW w \in Workers, StartJob(w) PROVE Types'
  BY <1>1 DEF StartJob
<1>2. ASSUME NEW w \in Workers, Discover(w) PROVE Types'
  BY SMTT(30), <1>2 DEF Discover
<1>3. ASSUME NEW w \in Workers, EndJob(w) PROVE Types'
  BY <1>3, PipeRoom DEF EndJob
<1>4. ASSUME NEW w \in Workers, Leave(w) PROVE Types'
  BY <1>4 DEF Leave
<1>5. ASSUME NEW w \in Workers, NextFile(w) PROVE Types'
  <2>1. files' = files + 1 /\ file' = [file EXCEPT ![w] = @ + 1]
    BY <1>5 DEF NextFile
  <2>2. file[w] + 1 \in Files /\ files + 1 \in 0..MaxFiles
    BY <1>5, NextOne DEF NextFile
  <2>3. /\ files' \in 0..MaxFiles /\ file' \in [Workers -> Numbers]
        /\ file'[w] \in Files /\ \A v \in Workers : file'[v] <= files'
    BY <2>1, <2>2, NextOne, MetFile
  <2> QED
    BY SMTT(30), <1>5, <2>1, <2>3 DEF NextFile
<1>6. ASSUME NEW w \in Workers, TakeSlot(w) PROVE Types'
  BY SMTT(30), <1>6 DEF TakeSlot
<1>7. ASSUME NEW w \in Workers, LockRecord(w) PROVE Types'
  BY SMTT(30), <1>7 DEF LockRecord
<1>8. ASSUME NEW w \in Workers, FillRecord(w) PROVE Types'
  <2>1. file[w] \in Files
    BY <1>8 DEF FillRecord
  <2>2. records' \in [Workers -> [Slots -> Numbers]]
    BY <1>8 DEF FillRecord
  <2>3. emitted' \in [Workers -> Seq(Files)]
    BY <1>8, <2>1 DEF FillRecord
  <2> QED
    BY SMTT(60), <1>8, <2>2, <2>3 DEF FillRecord
<1>9. ASSUME NEW w \in Workers, Announce(w) PROVE Types'
  BY SMTT(30), <1>9 DEF Announce
<1>10. ASSUME NEW w \in Workers, OpenFileFails(w) PROVE Types'
  BY <1>10 DEF OpenFileFails
<1>11. ASSUME NEW w \in Workers, ReturnUnused(w) PROVE Types'
  BY SMTT(30), <1>11 DEF ReturnUnused
<1>12. ASSUME NEW w \in Workers, LockLast(w) PROVE Types'
  BY SMTT(30), <1>12 DEF LockLast
<1>13. ASSUME NEW w \in Workers, MarkDone(w) PROVE Types'
  <2>1. CASE Move(w, "mark", "gone")
    BY SMTT(30), <1>13, <2>1 DEF MarkDone
  <2>2. CASE Move(w, "markUnlocked", "gone")
    BY SMTT(30), <1>13, <2>2 DEF MarkDone
  <2> QED BY <1>13, <2>1, <2>2 DEF MarkDone
<1>14. ASSUME NEW w \in Workers, Sigterm(w) PROVE Types'
  BY <1>14 DEF Sigterm
<1>15. ASSUME NEW w \in Workers, Interrupt(w) PROVE Types'
  <2>1. CASE Move(w, "slot", "exiting") /\ UNCHANGED writeSem
    BY <1>15, <2>1 DEF Interrupt
  <2>2. CASE Move(w, "lock", "exiting") /\ writeSem' = Add(writeSem, w, 1)
    BY SMTT(30), <1>15, <2>2 DEF Interrupt
  <2>3. CASE Move(w, "cleanup", "markUnlocked") /\ UNCHANGED writeSem
    BY <1>15, <2>3 DEF Interrupt
  <2>4. \/ Move(w, "slot", "exiting") /\ UNCHANGED writeSem
        \/ Move(w, "lock", "exiting") /\ writeSem' = Add(writeSem, w, 1)
        \/ Move(w, "cleanup", "markUnlocked") /\ UNCHANGED writeSem
    BY <1>15 DEF Interrupt
  <2> QED BY <2>1, <2>2, <2>3, <2>4
<1>16. ASSUME NEW w \in Workers, Store(w)
       PROVE  /\ db' \in [Workers -> Seq(Numbers)]
              /\ tail' \in [Workers -> Nat]
  <2>1. records[w][Slot(tail[w])] \in Numbers
    BY SlotType
  <2> QED
    BY <1>16, <2>1 DEF Store
<1>17. CASE BeginPass
  BY <1>17, NextOne, PipeRoom DEF BeginPass
<1>18. CASE SkipEmpty
  BY <1>18, NextOne DEF SkipEmpty
<1>19. CASE TakeRecordToken
  BY SMTT(30), <1>19 DEF TakeRecordToken
<1>20. CASE LockChannel
  BY SMTT(30), <1>20 DEF LockChannel
<1>21. CASE Collect
  <2>1. CASE done[chan]
    BY SMTT(30), <1>21, <2>1 DEF Collect
  <2>2. CASE ~done[chan]
    <3>1. chan \in Workers /\ Store(chan)
      BY <1>21, <2>2 DEF Collect
    <3>2. db' \in [Workers -> Seq(Numbers)] /\ tail' \in [Workers -> Nat]
      BY <3>1, <1>16
    <3>3. chanSem' \in [Workers -> Nat] /\ mpc' = "return"
      BY <1>21, <3>1 DEF Collect
    <3>5. nothing' \in BOOLEAN
      BY <1>21, <2>2, Zenon DEF Collect
    <3>4. UNCHANGED <<writeSem, readSem, head, records, done, emitted, pool,
                      pipe, signal, worker, chan, alive, complete>>
      BY <1>21 DEF Collect
    <3> QED BY <3>1, <3>2, <3>3, <3>4, <3>5
  <2> QED BY <2>1, <2>2
<1>22. CASE ReturnSlot
  BY SMTT(30), <1>22, NextOne DEF ReturnSlot
<1>23. CASE EndPass
  BY <1>23, NextOne DEF EndPass
<1>24. CASE Drain
  <2>1. CASE Slot(tail[chan]) # Slot(head[chan])
    BY <1>24, <2>1, <1>16 DEF Drain
  <2>2. CASE Slot(tail[chan]) = Slot(head[chan])
    BY <1>24, <2>2, NextOne DEF Drain
  <2> QED BY <2>1, <2>2
<1>25. CASE EndDrain
  BY <1>25 DEF EndDrain
<1>26. CASE Finish
  BY <1>26 DEF Finish
<1>27. ASSUME NEW w \in Workers, EndListing(w) PROVE Types'
  BY <1>27 DEF EndListing
<1>28. ASSUME NEW w \in Workers, StatFails(w) PROVE Types'
  <2>1. files' = files + 1 /\ file' = [file EXCEPT ![w] = @ + 1]
    BY <1>28 DEF StatFails
  <2>2. file[w] + 1 \in Files /\ files + 1 \in 0..MaxFiles
    BY <1>28, NextOne DEF StatFails
  <2>3. /\ files' \in 0..MaxFiles /\ file' \in [Workers -> Numbers]
        /\ file'[w] \in Files /\ \A v \in Workers : file'[v] <= files'
    BY <2>1, <2>2, NextOne, MetFile
  <2>4. messages' \in 0..PipeLen
    BY <1>28, PipeRoom DEF StatFails
  <2> QED
    BY SMTT(30), <1>28, <2>1, <2>3, <2>4 DEF StatFails
<1>29. ASSUME NEW w \in Workers, Complain(w) PROVE Types'
  BY SMTT(30), <1>29, PipeRoom DEF Complain
<1>30. ASSUME NEW w \in Workers, Exiting(w) PROVE Types'
  <2>1. CASE Move(w, "exiting", "cleanup") /\ ~PipeClosed /\ Send
    BY <1>30, <2>1, PipeRoom DEF Exiting
  <2>2. CASE Move(w, "exiting", "gone") /\ PipeClosed /\ UNCHANGED pipe
    BY <1>30, <2>2 DEF Exiting
  <2> QED BY <1>30, <2>1, <2>2 DEF Exiting
<1>31. ASSUME NEW w \in Workers, InterruptWrite(w) PROVE Types'
  <2>1. CASE Move(w, "report", "top") /\ UNCHANGED chanSem
    BY <1>31, <2>1 DEF InterruptWrite
  <2>2. CASE Move(w, "error", "unslot") /\ chanSem' = Add(chanSem, w, 1)
    BY SMTT(30), <1>31, <2>2 DEF InterruptWrite
  <2>3. CASE Move(w, "exiting", "cleanup") /\ UNCHANGED chanSem
    BY <1>31, <2>3 DEF InterruptWrite
  <2> QED BY <1>31, <2>1, <2>2, <2>3 DEF InterruptWrite
<1> QED
  BY <1>0, <1>1, <1>2, <1>3, <1>4, <1>5, <1>6, <1>7, <1>8, <1>9, <1>10, <1>11, <1>12,
     <1>13, <1>14, <1>15, <1>17, <1>18, <1>19, <1>20, <1>21, <1>22, <1>23, <1>24, <1>25,
     <1>26, <1>27, <1>28, <1>29, <1>30, <1>31 DEF Next, Step, FileStep, Manager, Stopped

\* The channels, the workers and the manager keep every variable in its domain.
THEOREM TypesInvariant == Spec => []Types
<1> QED
  BY TypesInit, TypesNext, PTL DEF Spec
\* Every variable of the channels, the workers and the manager keeps its type.
THEOREM TypeCorrect == Spec => []TypeOK
<1>1. Types => TypeOK
  BY DEF Types, TypeOK
<1> QED
  BY <1>1, TypesInvariant, PTL

-----------------------------------------------------------------------------
(* Layer 2.  chan->sem is a mutex, but for the workers SIGTERM has reached:   *)
(* only those can be at the post of a semaphore they do not hold.            *)

Locks(w) == chanSem[w] + LockedByWorker(w) + LockedByManager(w)
Mutex == \A w \in Workers : /\ w \notin sigterm => Locks(w) = 1
                            /\ pc[w] = "markUnlocked" => w \in sigterm

\* sem_init(&channels[i].sem, 1, 1) makes free mutexes.
LEMMA MutexInit == Init => Mutex
  BY DEF Init, Mutex, Locks, LockedByWorker, LockedByManager

\* A step that keeps the sum of one channel, and all of the others.
SameMutex(v) == /\ chanSem'[v] = chanSem[v]
                /\ pc'[v] = pc[v] \/ {pc'[v], pc[v]} \cap {"fill", "error", "mark", "markUnlocked"} = {}
                /\ LockedByManager(v)' = LockedByManager(v)
OwnMutex(v)  == /\ v \notin sigterm => Locks(v)' = Locks(v)
                /\ pc'[v] = "markUnlocked" => pc[v] = "markUnlocked"
LEMMA MutexLocal ==
  ASSUME Types, Mutex, sigterm' = sigterm, NEW w \in Workers, OwnMutex(w),
         \A v \in Workers \ {w} : SameMutex(v)
  PROVE  Mutex'
<1>1. ASSUME NEW v \in Workers, v # w
      PROVE  /\ Locks(v)' = Locks(v)
             /\ pc'[v] = "markUnlocked" => pc[v] = "markUnlocked"
  BY <1>1 DEF SameMutex, Locks, LockedByWorker
<1> QED
  BY <1>1 DEF Mutex, OwnMutex

\* Each operation keeps them so, one step per action.
LEMMA MutexNext == Types /\ Mutex /\ [Next]_vars => Mutex'
<1> SUFFICES ASSUME Types, Mutex, [Next]_vars PROVE Mutex'
  OBVIOUS
<1> USE DEF Set, Add, Move, MMove, channel, pool, pipe, signal, worker, manager, Send, Meet
<1>0. CASE UNCHANGED vars
  BY <1>0 DEF vars, Mutex, Locks, LockedByWorker, LockedByManager
<1>1. ASSUME NEW w \in Workers, StartJob(w) PROVE Mutex'
  BY <1>1 DEF StartJob, Mutex, Locks, LockedByWorker, LockedByManager, Types
<1>2. ASSUME NEW w \in Workers, Discover(w) PROVE Mutex'
  BY <1>2 DEF Discover, Mutex, Locks, LockedByWorker, LockedByManager, Types
<1>3. ASSUME NEW w \in Workers, EndJob(w) PROVE Mutex'
  BY <1>3 DEF EndJob, Mutex, Locks, LockedByWorker, LockedByManager, Types
<1>4. ASSUME NEW w \in Workers, Leave(w) PROVE Mutex'
  BY <1>4 DEF Leave, Mutex, Locks, LockedByWorker, LockedByManager, Types
<1>5. ASSUME NEW w \in Workers, NextFile(w) PROVE Mutex'
  BY <1>5 DEF NextFile, Mutex, Locks, LockedByWorker, LockedByManager, Types
<1>6. ASSUME NEW w \in Workers, TakeSlot(w) PROVE Mutex'
  BY <1>6 DEF TakeSlot, Mutex, Locks, LockedByWorker, LockedByManager, Types
<1>7. ASSUME NEW w \in Workers, LockRecord(w) PROVE Mutex'
  <2>1. \A v \in Workers \ {w} : SameMutex(v)
    BY <1>7 DEF LockRecord, SameMutex, OwnMutex, Locks, LockedByWorker, LockedByManager,
       Types
  <2>2. OwnMutex(w)
    BY <1>7 DEF LockRecord, SameMutex, OwnMutex, Locks, LockedByWorker, LockedByManager,
       Types
  <2>4. sigterm' = sigterm
    BY <1>7 DEF LockRecord
  <2> QED BY <2>1, <2>2, <2>4, MutexLocal
<1>8. ASSUME NEW w \in Workers, FillRecord(w) PROVE Mutex'
  <2>1. \A v \in Workers \ {w} : SameMutex(v)
    BY <1>8 DEF FillRecord, SameMutex, OwnMutex, Locks, LockedByWorker, LockedByManager,
       Types
  <2>2. OwnMutex(w)
    BY <1>8 DEF FillRecord, SameMutex, OwnMutex, Locks, LockedByWorker, LockedByManager,
       Types
  <2>4. sigterm' = sigterm
    BY <1>8 DEF FillRecord
  <2> QED BY <2>1, <2>2, <2>4, MutexLocal
<1>9. ASSUME NEW w \in Workers, Announce(w) PROVE Mutex'
  BY <1>9 DEF Announce, Mutex, Locks, LockedByWorker, LockedByManager, Types
<1>10. ASSUME NEW w \in Workers, OpenFileFails(w) PROVE Mutex'
  <2>1. \A v \in Workers \ {w} : SameMutex(v)
    BY <1>10 DEF OpenFileFails, SameMutex, OwnMutex, Locks, LockedByWorker,
       LockedByManager, Types
  <2>2. OwnMutex(w)
    BY <1>10 DEF OpenFileFails, SameMutex, OwnMutex, Locks, LockedByWorker,
       LockedByManager, Types
  <2>4. sigterm' = sigterm
    BY <1>10 DEF OpenFileFails
  <2> QED BY <2>1, <2>2, <2>4, MutexLocal
<1>11. ASSUME NEW w \in Workers, ReturnUnused(w) PROVE Mutex'
  BY <1>11 DEF ReturnUnused, Mutex, Locks, LockedByWorker, LockedByManager, Types
<1>12. ASSUME NEW w \in Workers, LockLast(w) PROVE Mutex'
  <2>1. \A v \in Workers \ {w} : SameMutex(v)
    BY <1>12 DEF LockLast, SameMutex, OwnMutex, Locks, LockedByWorker, LockedByManager,
       Types
  <2>2. OwnMutex(w)
    BY <1>12 DEF LockLast, SameMutex, OwnMutex, Locks, LockedByWorker, LockedByManager,
       Types
  <2>4. sigterm' = sigterm
    BY <1>12 DEF LockLast
  <2> QED BY <2>1, <2>2, <2>4, MutexLocal
<1>13. ASSUME NEW w \in Workers, MarkDone(w) PROVE Mutex'
  <2>1. \A v \in Workers \ {w} : SameMutex(v)
    BY <1>13 DEF MarkDone, SameMutex, OwnMutex, Locks, LockedByWorker, LockedByManager,
       Types
  <2>2. OwnMutex(w)
    <3>1. CASE Move(w, "mark", "gone")
      BY <1>13, <3>1 DEF MarkDone, SameMutex, OwnMutex, Locks, LockedByWorker,
         LockedByManager, Types
    <3>2. CASE Move(w, "markUnlocked", "gone")
      <4>1. w \in sigterm /\ pc'[w] = "gone"
        BY <1>13, <3>2 DEF Mutex, Types
      <4> QED BY <4>1 DEF OwnMutex
    <3> QED BY <1>13, <3>1, <3>2 DEF MarkDone
  <2>4. sigterm' = sigterm
    BY <1>13 DEF MarkDone
  <2> QED BY <2>1, <2>2, <2>4, MutexLocal
<1>14. ASSUME NEW w \in Workers, Sigterm(w) PROVE Mutex'
  BY <1>14 DEF Sigterm, Mutex, Locks, LockedByWorker, LockedByManager, Types
<1>15. ASSUME NEW w \in Workers, Interrupt(w) PROVE Mutex'
  BY <1>15 DEF Interrupt, Mutex, Locks, LockedByWorker, LockedByManager, Types
<1>16. CASE BeginPass
  BY <1>16 DEF BeginPass, Mutex, Locks, LockedByWorker, LockedByManager, Types
<1>17. CASE SkipEmpty
  BY <1>17 DEF SkipEmpty, Mutex, Locks, LockedByWorker, LockedByManager, Types
<1>18. CASE TakeRecordToken
  BY <1>18 DEF TakeRecordToken, Mutex, Locks, LockedByWorker, LockedByManager, Types
<1>19. CASE LockChannel
  <2>1. PICK w \in Workers : w = chan
    BY <1>19 DEF LockChannel, Types
  <2>2. /\ chanSem' = [chanSem EXCEPT ![w] = chanSem[w] - 1]
        /\ UNCHANGED <<pc, chan, sigterm>>
        /\ mpc = "lock" /\ mpc' = "collect"
    BY <1>19, <2>1 DEF LockChannel
  <2>3. \A v \in Workers \ {w} : SameMutex(v)
    BY <2>1, <2>2 DEF SameMutex, LockedByManager, Types
  <2>4. OwnMutex(w)
    <3>1. /\ LockedByManager(w) = 0 /\ LockedByManager(w)' = 1
          /\ LockedByWorker(w)' = LockedByWorker(w) /\ LockedByWorker(w) \in Nat
      BY <2>1, <2>2 DEF LockedByManager, LockedByWorker
    <3>2. chanSem'[w] = chanSem[w] - 1 /\ chanSem[w] \in Nat
      BY <2>2 DEF Types
    <3> QED BY <2>2, <3>1, <3>2 DEF OwnMutex, Locks
  <2> QED BY <2>2, <2>3, <2>4, MutexLocal
<1>20. CASE Collect
  <2>1. PICK w \in Workers : w = chan
    BY <1>20 DEF Collect, Types
  <2>2. /\ chanSem' = [chanSem EXCEPT ![w] = chanSem[w] + 1]
        /\ UNCHANGED <<pc, chan, sigterm>>
        /\ mpc = "collect" /\ mpc' = "return"
    BY <1>20, <2>1 DEF Collect
  <2>3. \A v \in Workers \ {w} : SameMutex(v)
    BY <2>1, <2>2 DEF SameMutex, LockedByManager, Types
  <2>4. OwnMutex(w)
    <3>1. /\ LockedByManager(w) = 1 /\ LockedByManager(w)' = 0
          /\ LockedByWorker(w)' = LockedByWorker(w) /\ LockedByWorker(w) \in Nat
      BY <2>1, <2>2 DEF LockedByManager, LockedByWorker
    <3>2. chanSem'[w] = chanSem[w] + 1 /\ chanSem[w] \in Nat
      BY <2>2 DEF Types
    <3> QED BY <2>2, <3>1, <3>2 DEF OwnMutex, Locks
  <2> QED BY <2>2, <2>3, <2>4, MutexLocal
<1>21. CASE ReturnSlot
  BY <1>21 DEF ReturnSlot, Mutex, Locks, LockedByWorker, LockedByManager, Types
<1>22. CASE EndPass
  BY <1>22 DEF EndPass, Mutex, Locks, LockedByWorker, LockedByManager, Types
<1>23. CASE Drain
  BY <1>23 DEF Drain, Store, Mutex, Locks, LockedByWorker, LockedByManager, Types
<1>24. CASE EndDrain
  BY <1>24 DEF EndDrain, Mutex, Locks, LockedByWorker, LockedByManager, Types
<1>25. CASE Finish
  BY <1>25 DEF Finish, Mutex, Locks, LockedByWorker, LockedByManager, Types
<1>27. ASSUME NEW w \in Workers, EndListing(w) PROVE Mutex'
  BY <1>27 DEF EndListing, Mutex, Locks, LockedByWorker, LockedByManager, Types
<1>28. ASSUME NEW w \in Workers, StatFails(w) PROVE Mutex'
  BY <1>28 DEF StatFails, Mutex, Locks, LockedByWorker, LockedByManager, Types
<1>29. ASSUME NEW w \in Workers, Complain(w) PROVE Mutex'
  <2>1. \A v \in Workers \ {w} : SameMutex(v)
    BY <1>29 DEF Complain, SameMutex, OwnMutex, Locks, LockedByWorker, LockedByManager,
       Types
  <2>2. OwnMutex(w)
    BY <1>29 DEF Complain, SameMutex, OwnMutex, Locks, LockedByWorker, LockedByManager,
       Types
  <2>4. sigterm' = sigterm
    BY <1>29 DEF Complain
  <2> QED BY <2>1, <2>2, <2>4, MutexLocal
<1>30. ASSUME NEW w \in Workers, Exiting(w) PROVE Mutex'
  BY <1>30 DEF Exiting, Mutex, Locks, LockedByWorker, LockedByManager, Types
<1>31. ASSUME NEW w \in Workers, InterruptWrite(w) PROVE Mutex'
  BY <1>31 DEF InterruptWrite, Mutex, Locks, LockedByWorker, LockedByManager, Types
<1> QED
  BY <1>0, <1>1, <1>2, <1>3, <1>4, <1>5, <1>6, <1>7, <1>8, <1>9, <1>10, <1>11, <1>12,
     <1>13, <1>14, <1>15, <1>16, <1>17, <1>18, <1>19, <1>20, <1>21, <1>22, <1>23, <1>24,
     <1>25, <1>27, <1>28, <1>29, <1>30, <1>31 DEF Next, Step, FileStep, Manager, Stopped

\* The worker and the manager never read and write a channel at the same time,
\* as long as the worker has not been sent a SIGTERM.
THEOREM MutexInvariant == Spec => []ChannelMutex
<1>1. Spec => []Mutex
  BY MutexInit, MutexNext, TypesInvariant, PTL DEF Spec
<1>2. Mutex => ChannelMutex
  BY DEF Mutex, Locks, ChannelMutex
<1> QED
  BY <1>1, <1>2, PTL

-----------------------------------------------------------------------------
(* Layer 3.  The tokens of the two counting semaphores.                      *)

Tokens(w) == writeSem[w] + readSem[w] + HeldByWorker(w) + HeldByManager(w)

\* All of them are with write_sem at first.
LEMMA TokensInit == Init => TokensConserved
  BY ConstantsAssumption
  DEF Init, TokensConserved, HeldByWorker, HeldByManager, ConstantsAssumption

\* A step that keeps the sum of one channel, and all of the others.
SameTokens(v) == /\ writeSem'[v] = writeSem[v] /\ readSem'[v] = readSem[v]
                 /\ pc'[v] = pc[v] /\ HeldByManager(v)' = HeldByManager(v)
OwnTokens(v)  == Tokens(v)' = Tokens(v)
LEMMA TokensLocal ==
  ASSUME Types, TokensConserved, NEW w \in Workers, OwnTokens(w),
         \A v \in Workers \ {w} : SameTokens(v)
  PROVE  TokensConserved'
<1>1. ASSUME NEW v \in Workers, v # w
      PROVE  Tokens(v)' = Tokens(v)
  BY <1>1 DEF SameTokens, Tokens, HeldByWorker
<1> QED
  BY <1>1 DEF TokensConserved, OwnTokens, Tokens

\* Each operation passes tokens on, one step per action.
LEMMA TokensNext == Types /\ TokensConserved /\ [Next]_vars => TokensConserved'
<1> SUFFICES ASSUME Types, TokensConserved, [Next]_vars PROVE TokensConserved'
  OBVIOUS
<1> USE DEF Set, Add, Move, MMove, channel, pool, pipe, signal, worker, manager, Send, Meet
<1>0. CASE UNCHANGED vars
  BY <1>0 DEF vars, TokensConserved, HeldByWorker, HeldByManager
<1>1. ASSUME NEW w \in Workers, StartJob(w) PROVE TokensConserved'
  BY <1>1 DEF StartJob, TokensConserved, HeldByWorker, HeldByManager, Types
<1>2. ASSUME NEW w \in Workers, Discover(w) PROVE TokensConserved'
  BY <1>2 DEF Discover, TokensConserved, HeldByWorker, HeldByManager, Types
<1>3. ASSUME NEW w \in Workers, EndJob(w) PROVE TokensConserved'
  BY <1>3 DEF EndJob, TokensConserved, HeldByWorker, HeldByManager, Types
<1>4. ASSUME NEW w \in Workers, Leave(w) PROVE TokensConserved'
  BY <1>4 DEF Leave, TokensConserved, HeldByWorker, HeldByManager, Types
<1>5. ASSUME NEW w \in Workers, NextFile(w) PROVE TokensConserved'
  BY <1>5 DEF NextFile, TokensConserved, HeldByWorker, HeldByManager, Types
<1>6. ASSUME NEW w \in Workers, TakeSlot(w) PROVE TokensConserved'
  <2>1. \A v \in Workers \ {w} : SameTokens(v)
    BY <1>6 DEF TakeSlot, SameTokens, OwnTokens, Tokens, HeldByWorker, HeldByManager,
       Types
  <2>2. OwnTokens(w)
    BY <1>6 DEF TakeSlot, SameTokens, OwnTokens, Tokens, HeldByWorker, HeldByManager,
       Types
  <2> QED BY <2>1, <2>2, TokensLocal
<1>7. ASSUME NEW w \in Workers, LockRecord(w) PROVE TokensConserved'
  <2>1. \A v \in Workers \ {w} : SameTokens(v)
    BY <1>7 DEF LockRecord, SameTokens, OwnTokens, Tokens, HeldByWorker, HeldByManager,
       Types
  <2>2. OwnTokens(w)
    BY <1>7 DEF LockRecord, SameTokens, OwnTokens, Tokens, HeldByWorker, HeldByManager,
       Types
  <2> QED BY <2>1, <2>2, TokensLocal
<1>8. ASSUME NEW w \in Workers, FillRecord(w) PROVE TokensConserved'
  <2>1. \A v \in Workers \ {w} : SameTokens(v)
    BY <1>8 DEF FillRecord, SameTokens, OwnTokens, Tokens, HeldByWorker, HeldByManager,
       Types
  <2>2. OwnTokens(w)
    BY <1>8 DEF FillRecord, SameTokens, OwnTokens, Tokens, HeldByWorker, HeldByManager,
       Types
  <2> QED BY <2>1, <2>2, TokensLocal
<1>9. ASSUME NEW w \in Workers, Announce(w) PROVE TokensConserved'
  <2>1. \A v \in Workers \ {w} : SameTokens(v)
    BY <1>9 DEF Announce, SameTokens, OwnTokens, Tokens, HeldByWorker, HeldByManager,
       Types
  <2>2. OwnTokens(w)
    BY <1>9 DEF Announce, SameTokens, OwnTokens, Tokens, HeldByWorker, HeldByManager,
       Types
  <2> QED BY <2>1, <2>2, TokensLocal
<1>10. ASSUME NEW w \in Workers, OpenFileFails(w) PROVE TokensConserved'
  <2>1. \A v \in Workers \ {w} : SameTokens(v)
    BY <1>10 DEF OpenFileFails, SameTokens, OwnTokens, Tokens, HeldByWorker,
       HeldByManager, Types
  <2>2. OwnTokens(w)
    BY <1>10 DEF OpenFileFails, SameTokens, OwnTokens, Tokens, HeldByWorker,
       HeldByManager, Types
  <2> QED BY <2>1, <2>2, TokensLocal
<1>11. ASSUME NEW w \in Workers, ReturnUnused(w) PROVE TokensConserved'
  <2>1. \A v \in Workers \ {w} : SameTokens(v)
    BY <1>11 DEF ReturnUnused, SameTokens, OwnTokens, Tokens, HeldByWorker,
       HeldByManager, Types
  <2>2. OwnTokens(w)
    BY <1>11 DEF ReturnUnused, SameTokens, OwnTokens, Tokens, HeldByWorker,
       HeldByManager, Types
  <2> QED BY <2>1, <2>2, TokensLocal
<1>12. ASSUME NEW w \in Workers, LockLast(w) PROVE TokensConserved'
  BY <1>12 DEF LockLast, TokensConserved, HeldByWorker, HeldByManager, Types
<1>13. ASSUME NEW w \in Workers, MarkDone(w) PROVE TokensConserved'
  BY <1>13 DEF MarkDone, TokensConserved, HeldByWorker, HeldByManager, Types
<1>14. ASSUME NEW w \in Workers, Sigterm(w) PROVE TokensConserved'
  BY <1>14 DEF Sigterm, TokensConserved, HeldByWorker, HeldByManager, Types
<1>15. ASSUME NEW w \in Workers, Interrupt(w) PROVE TokensConserved'
  <2>1. \A v \in Workers \ {w} : SameTokens(v)
    BY <1>15 DEF Interrupt, SameTokens, OwnTokens, Tokens, HeldByWorker, HeldByManager,
       Types
  <2>2. OwnTokens(w)
    BY SMTT(30), <1>15 DEF Interrupt, SameTokens, OwnTokens, Tokens, HeldByWorker,
       HeldByManager, Types
  <2> QED BY <2>1, <2>2, TokensLocal
<1>16. CASE BeginPass
  BY <1>16 DEF BeginPass, TokensConserved, HeldByWorker, HeldByManager, Types
<1>17. CASE SkipEmpty
  BY <1>17 DEF SkipEmpty, TokensConserved, HeldByWorker, HeldByManager, Types
<1>18. CASE TakeRecordToken
  <2>1. PICK w \in Workers : w = chan
    BY <1>18 DEF TakeRecordToken, Types
  <2>2. /\ readSem' = [readSem EXCEPT ![w] = readSem[w] - 1]
        /\ UNCHANGED <<pc, chan, writeSem>>
        /\ mpc = "pass" /\ mpc' = "lock"
    BY <1>18, <2>1 DEF TakeRecordToken
  <2>3. \A v \in Workers \ {w} : SameTokens(v)
    BY <2>1, <2>2 DEF SameTokens, HeldByManager, Types
  <2>4. OwnTokens(w)
    BY <2>1, <2>2 DEF OwnTokens, Tokens, HeldByWorker, HeldByManager, Types
  <2> QED BY <2>3, <2>4, TokensLocal
<1>19. CASE LockChannel
  BY <1>19 DEF LockChannel, TokensConserved, HeldByWorker, HeldByManager, Types
<1>20. CASE Collect
  BY <1>20 DEF Collect, TokensConserved, HeldByWorker, HeldByManager, Types
<1>21. CASE ReturnSlot
  <2>1. PICK w \in Workers : w = chan
    BY <1>21 DEF ReturnSlot, Types
  <2>2. /\ writeSem' = [writeSem EXCEPT ![w] = writeSem[w] + 1]
        /\ chan' = w + 1
        /\ UNCHANGED <<pc, readSem>>
        /\ mpc = "return" /\ mpc' = "pass"
    BY <1>21, <2>1 DEF ReturnSlot
  <2>3. \A v \in Workers \ {w} : SameTokens(v)
    BY <2>1, <2>2 DEF SameTokens, HeldByManager, Types
  <2>4. OwnTokens(w)
    BY <2>1, <2>2 DEF OwnTokens, Tokens, HeldByWorker, HeldByManager, Types
  <2> QED BY <2>3, <2>4, TokensLocal
<1>22. CASE EndPass
  BY <1>22 DEF EndPass, TokensConserved, HeldByWorker, HeldByManager, Types
<1>23. CASE Drain
  BY <1>23 DEF Drain, Store, TokensConserved, HeldByWorker, HeldByManager, Types
<1>24. CASE EndDrain
  BY <1>24 DEF EndDrain, TokensConserved, HeldByWorker, HeldByManager, Types
<1>25. CASE Finish
  BY <1>25 DEF Finish, TokensConserved, HeldByWorker, HeldByManager, Types
<1>27. ASSUME NEW w \in Workers, EndListing(w) PROVE TokensConserved'
  BY <1>27 DEF EndListing, TokensConserved, HeldByWorker, HeldByManager, Types
<1>28. ASSUME NEW w \in Workers, StatFails(w) PROVE TokensConserved'
  BY <1>28 DEF StatFails, TokensConserved, HeldByWorker, HeldByManager, Types
<1>29. ASSUME NEW w \in Workers, Complain(w) PROVE TokensConserved'
  BY <1>29 DEF Complain, TokensConserved, HeldByWorker, HeldByManager, Types
<1>30. ASSUME NEW w \in Workers, Exiting(w) PROVE TokensConserved'
  BY <1>30 DEF Exiting, TokensConserved, HeldByWorker, HeldByManager, Types
<1>31. ASSUME NEW w \in Workers, InterruptWrite(w) PROVE TokensConserved'
  BY <1>31 DEF InterruptWrite, TokensConserved, HeldByWorker, HeldByManager, Types
<1> QED
  BY <1>0, <1>1, <1>2, <1>3, <1>4, <1>5, <1>6, <1>7, <1>8, <1>9, <1>10, <1>11, <1>12,
     <1>13, <1>14, <1>15, <1>16, <1>17, <1>18, <1>19, <1>20, <1>21, <1>22, <1>23, <1>24,
     <1>25, <1>27, <1>28, <1>29, <1>30, <1>31 DEF Next, Step, FileStep, Manager, Stopped

\* No failed open, interrupted wait or finished channel loses or makes a slot.
THEOREM TokensInvariant == Spec => []TokensConserved
<1> QED
  BY TokensInit, TokensNext, TypesInvariant, PTL DEF Spec

-----------------------------------------------------------------------------
(* Layer 4.  The contents of the ring, when opens succeed.  The           *)
(* tokens alone keep the worker from overwriting and the manager from reading *)
(* ahead: the mutex of layer 2 is not needed here, as a record is written and *)
(* read in one step each, at slots that the tokens keep apart.               *)

After == {"drain", "reap", "finished"}

\* The records of w that are written, and whether the manager has taken the
\* token of one of them and not yet stored it.
Filled(w) == head[w] - (IF pc[w] = "fill" THEN 1 ELSE 0)
Picked(w) == IF chan = w /\ mpc \in {"lock", "collect"} THEN 1 ELSE 0
Unannounced(w) == IF pc[w] = "announce" THEN 1 ELSE 0

\* The indexes are where the two histories are, and no further apart than the
\* ring is long.
Sizes(w) ==
  /\ pc[w] \notin {"error", "unslot"}
  /\ Len(db[w]) = tail[w] /\ Len(emitted[w]) = Filled(w)
  /\ tail[w] <= Filled(w) /\ head[w] - tail[w] <= ChannelLen

\* What is stored, and what is not yet, is what was filled.
Contents(w) ==
  /\ \A i \in 1..tail[w] : db[w][i] = emitted[w][i]
  /\ \A i \in (tail[w] + 1)..Filled(w) : records[w][Slot(i - 1)] = emitted[w][i]

\* Until the worker is done the read tokens are the records to be stored.
ReadTokens(w) ==
  /\ done[w] => pc[w] = "gone"
  /\ mpc \notin After /\ ~done[w]
       => readSem[w] + Picked(w) + Unannounced(w) = Filled(w) - tail[w]

Ring(w) == Sizes(w) /\ Contents(w) /\ ReadTokens(w)

\* The manager ends its loop when no worker runs or will run again, and leaves a
\* ring that the drain takes for empty.
Drained(v) == Slot(tail[v]) = Slot(head[v])
Ending ==
  /\ \A w \in Workers \ alive : pc[w] = "gone"
  /\ mpc \in After => (quitting \/ jobsWaiting = 0) /\ Running = {}
  /\ mpc = "drain" => \A v \in Workers : v < chan => Drained(v)
  /\ mpc \in {"reap", "finished"} => \A v \in Workers : Drained(v)

Rings == (\A w \in Workers \ failed : Ring(w)) /\ Ending

\* Slots less than the length of the ring apart are distinct.
LEMMA SlotsDistinct ==
  ASSUME NEW k \in Nat, NEW m \in Nat, k < m, m - k < ChannelLen
  PROVE  Slot(k) # Slot(m)
<1>0. ChannelLen \in Nat \ {0}
  BY ConstantsAssumption DEF ConstantsAssumption
<1>1. /\ k = ChannelLen * (k \div ChannelLen) + (k % ChannelLen)
      /\ m = ChannelLen * (m \div ChannelLen) + (m % ChannelLen)
      /\ k \div ChannelLen \in Int /\ m \div ChannelLen \in Int
  BY <1>0
<1>2. SUFFICES ASSUME k % ChannelLen = m % ChannelLen PROVE FALSE
  BY DEF Slot
<1>3. m - k = ChannelLen * (m \div ChannelLen) - ChannelLen * (k \div ChannelLen)
  BY <1>1, <1>2, <1>0
<1>4. ASSUME NEW x \in Int, NEW y \in Int,
             ChannelLen * y - ChannelLen * x > 0,
             ChannelLen * y - ChannelLen * x < ChannelLen
      PROVE  FALSE
  <2>1. ChannelLen * y - ChannelLen * x = ChannelLen * (y - x)
    BY <1>0
  <2>2. CASE y - x <= 0
    BY <2>1, <2>2, <1>4, <1>0
  <2>3. CASE y - x >= 1
    BY <2>1, <2>3, <1>4, <1>0
  <2> QED BY <2>2, <2>3
<1> QED
  BY <1>1, <1>3, <1>4

\* The rings are empty at first.
LEMMA RingsInit == Init => Rings
<1> SUFFICES ASSUME Init PROVE Rings
  OBVIOUS
<1>1. ASSUME NEW w \in Workers PROVE Ring(w)
  BY ConstantsAssumption
  DEF Init, ConstantsAssumption, Ring, Sizes, Contents, ReadTokens, Filled,
      Picked, Unannounced, After
<1>2. Ending
  BY DEF Init, Ending, After
<1> QED
  BY <1>1, <1>2 DEF Rings

\* A step that leaves the ring of v alone.
RingSame(v) ==
  /\ head'[v] = head[v] /\ tail'[v] = tail[v]
  /\ records'[v] = records[v] /\ readSem'[v] = readSem[v]
  /\ emitted'[v] = emitted[v] /\ db'[v] = db[v] /\ done'[v] = done[v]
  /\ \/ pc'[v] = pc[v]
     \/ {pc'[v], pc[v]} \cap {"fill", "error", "announce", "unslot", "gone"} = {}
  /\ Picked(v)' = Picked(v)
  /\ mpc \in After => mpc' \in After
LEMMA RingKept ==
  ASSUME NEW v \in Workers, Ring(v), RingSame(v)
  PROVE  Ring(v)'
<1>1. Filled(v)' = Filled(v) /\ Unannounced(v)' = Unannounced(v)
  BY DEF RingSame, Filled, Unannounced
<1>2. Sizes(v)'
  BY <1>1 DEF Ring, RingSame, Sizes
<1>3. Contents(v)'
  BY <1>1 DEF Ring, RingSame, Contents
<1>4. ReadTokens(v)'
  BY <1>1 DEF Ring, RingSame, ReadTokens
<1> QED
  BY <1>2, <1>3, <1>4 DEF Ring

\* A sequence that begins with s and goes on with t is their concatenation.
LEMMA ConcatIs ==
  ASSUME NEW S, NEW s \in Seq(S), NEW t \in Seq(S), NEW u \in Seq(S),
         Len(u) = Len(s) + Len(t),
         \A i \in 1..Len(s) : u[i] = s[i],
         \A i \in 1..Len(t) : u[Len(s) + i] = t[i]
  PROVE  u = s \o t
<1>1. s \o t \in Seq(S) /\ Len(s \o t) = Len(u)
  OBVIOUS
<1>2. ASSUME NEW i \in 1..Len(u) PROVE u[i] = (s \o t)[i]
  <2>1. CASE i <= Len(s)
    BY <2>1
  <2>2. CASE i > Len(s)
    <3> DEFINE j == i - Len(s)
    <3>1. j \in 1..Len(t) /\ Len(s) + j = i
      BY <2>2
    <3>2. (s \o t)[i] = t[j]
      BY <2>2
    <3> QED BY <3>1, <3>2
  <2> QED BY <2>1, <2>2
<1> QED
  BY <1>1, <1>2

\* Storing one of the written records moves it from the ring to the database.
LEMMA StoreOne ==
  ASSUME Types, NEW v \in Workers, Sizes(v), Contents(v), Store(v),
         tail[v] < Filled(v), Filled(v)' = Filled(v),
         UNCHANGED <<head, records, emitted, pc>>
  PROVE  Sizes(v)' /\ Contents(v)' /\ tail'[v] = tail[v] + 1
<1>1. /\ tail'[v] = tail[v] + 1
      /\ db'[v] = Append(db[v], records[v][Slot(tail[v])])
  BY DEF Store, Add, Types
<1>2. /\ tail[v] \in Nat /\ head[v] \in Nat /\ Filled(v) \in Int
      /\ db[v] \in Seq(Numbers) /\ records[v][Slot(tail[v])] \in Numbers
  BY SlotType DEF Types, Filled
<1>3. records[v][Slot(tail[v])] = emitted[v][tail[v] + 1]
  <2>1. tail[v] + 1 \in (tail[v] + 1)..Filled(v) /\ (tail[v] + 1) - 1 = tail[v]
    BY <1>2
  <2>2. records[v][Slot((tail[v] + 1) - 1)] = emitted[v][tail[v] + 1]
    BY <2>1 DEF Contents
  <2> QED BY <2>1, <2>2
<1>4. /\ Len(db'[v]) = tail[v] + 1 /\ db'[v][tail[v] + 1] = emitted[v][tail[v] + 1]
      /\ \A i \in 1..tail[v] : db'[v][i] = db[v][i]
  BY <1>1, <1>2, <1>3 DEF Sizes
<1>5. Sizes(v)'
  BY <1>1, <1>2, <1>4, ConstantsAssumption DEF Sizes, ConstantsAssumption
<1>6. \A i \in 1..(tail[v] + 1) : db'[v][i] = emitted[v][i]
  BY <1>2, <1>4 DEF Contents
<1>7. \A i \in (tail[v] + 2)..Filled(v) : records[v][Slot(i - 1)] = emitted[v][i]
  BY <1>2 DEF Contents
<1>8. tail'[v] + 1 = tail[v] + 2
  BY <1>1, <1>2
<1>9. Contents(v)'
  BY <1>1, <1>6, <1>7, <1>8 DEF Contents
<1> QED
  BY <1>1, <1>5, <1>9

\* A worker whose open has failed stays one.
LEMMA FailedGrows == [Next]_vars => failed \subseteq failed'
<1> SUFFICES ASSUME [Next]_vars PROVE failed \subseteq failed'
  OBVIOUS
<1> USE DEF pipe, Send
<1>1. ASSUME NEW w \in Workers, Step(w) PROVE failed \subseteq failed'
  <2>1. CASE FileStep(w)
    BY <2>1 DEF FileStep, NextFile, StatFails, TakeSlot, LockRecord, FillRecord,
                Announce, OpenFileFails, Complain, ReturnUnused
  <2> QED
    BY <1>1, <2>1 DEF Step, StartJob, Discover, EndListing, EndJob, Leave, Exiting,
                      LockLast, MarkDone
<1>2. CASE Manager
  BY <1>2 DEF Manager, BeginPass, SkipEmpty, TakeRecordToken, LockChannel, Collect,
              ReturnSlot, EndPass, Drain, EndDrain, Finish
<1> QED
  BY <1>1, <1>2 DEF Next, Sigterm, Interrupt, InterruptWrite, Stopped, vars

\* Each operation keeps every ring so, one step per action.
LEMMA RingNext ==
  ASSUME Types, TokensConserved, Rings, [Next]_vars,
         NEW v \in Workers, v \notin failed'
  PROVE  Ring(v)'
<1>0. Ring(v) /\ Ending
  BY FailedGrows DEF Rings
<1> USE DEF Set, Add, Move, MMove, channel, pool, pipe, signal, worker, manager, Send, Meet
<1>a. CASE UNCHANGED vars
  <2>1. RingSame(v)
    BY <1>a DEF vars, RingSame, Picked
  <2> QED BY <1>0, <2>1, RingKept
<1>1. ASSUME NEW w \in Workers, StartJob(w) PROVE Ring(v)'
  <2>1. RingSame(v)
    BY <1>1 DEF StartJob, RingSame, Picked, After, Types
  <2> QED BY <1>0, <2>1, RingKept
<1>2. ASSUME NEW w \in Workers, Discover(w) PROVE Ring(v)'
  <2>1. RingSame(v)
    BY <1>2 DEF Discover, RingSame, Picked, After, Types
  <2> QED BY <1>0, <2>1, RingKept
<1>3. ASSUME NEW w \in Workers, EndJob(w) PROVE Ring(v)'
  <2>1. RingSame(v)
    BY <1>3 DEF EndJob, RingSame, Picked, After, Types
  <2> QED BY <1>0, <2>1, RingKept
<1>4. ASSUME NEW w \in Workers, Leave(w) PROVE Ring(v)'
  <2>1. RingSame(v)
    BY <1>4 DEF Leave, RingSame, Picked, After, Types
  <2> QED BY <1>0, <2>1, RingKept
<1>5. ASSUME NEW w \in Workers, NextFile(w) PROVE Ring(v)'
  <2>1. RingSame(v)
    BY <1>5 DEF NextFile, RingSame, Picked, After, Types
  <2> QED BY <1>0, <2>1, RingKept
<1>6. ASSUME NEW w \in Workers, TakeSlot(w) PROVE Ring(v)'
  <2>1. RingSame(v)
    BY <1>6 DEF TakeSlot, RingSame, Picked, After, Types
  <2> QED BY <1>0, <2>1, RingKept
<1>7. ASSUME NEW w \in Workers, LockRecord(w) PROVE Ring(v)'
  <2>1. CASE v # w
    <3>1. RingSame(v)
      BY <1>7, <2>1 DEF LockRecord, RingSame, Picked, After, Types
    <3> QED BY <1>0, <3>1, RingKept
  <2>2. CASE v = w
    <3>1. /\ pc[v] = "lock" /\ pc'[v] = "fill" /\ head'[v] = head[v] + 1
          /\ mpc' = mpc /\ chan' = chan
          /\ UNCHANGED <<readSem, tail, records, done, emitted, db>>
      BY <1>7, <2>2 DEF LockRecord, Types
    <3>0. /\ head[v] \in Nat /\ tail[v] \in Nat
          /\ readSem[v] \in Nat /\ writeSem[v] \in Nat
      BY DEF Types
    <3>2. Filled(v)' = Filled(v) /\ Filled(v) = head[v]
      BY <3>0, <3>1 DEF Filled
    <3>3. mpc \notin After /\ ~done[v]
      BY <3>1, <1>0 DEF Ending, Running, Ring, ReadTokens
    <3>4. readSem[v] + Picked(v) = head[v] - tail[v]
      BY <3>1, <3>2, <3>3, <3>0, <1>0 DEF Ring, ReadTokens, Unannounced, Picked
    <3>5. readSem[v] + HeldByManager(v) < ChannelLen
      <4>1. writeSem[v] + readSem[v] + HeldByWorker(v) + HeldByManager(v) = ChannelLen
        BY DEF TokensConserved
      <4>2. HeldByWorker(v) = 1 /\ HeldByManager(v) \in Nat
        BY <3>1 DEF HeldByWorker, HeldByManager
      <4> QED BY <3>0, <4>1, <4>2
    <3>6. Picked(v) <= HeldByManager(v)
      BY DEF Picked, HeldByManager
    <3>7. head'[v] - tail'[v] <= ChannelLen
      <4>1. Picked(v) \in Nat /\ HeldByManager(v) \in Nat /\ ChannelLen \in Nat
        BY ConstantsAssumption DEF Picked, HeldByManager, ConstantsAssumption
      <4>2. head[v] - tail[v] < ChannelLen
        BY <3>0, <3>4, <3>5, <3>6, <4>1
      <4> QED BY <3>0, <3>1, <4>1, <4>2
    <3>8. Sizes(v)'
      BY <1>0, <3>1, <3>2, <3>7 DEF Ring, Sizes
    <3>9. Contents(v)'
      BY <1>0, <3>1, <3>2 DEF Ring, Contents
    <3>10. ReadTokens(v)'
      BY <1>0, <3>1, <3>2, <3>3
      DEF Ring, ReadTokens, Picked, Unannounced
    <3> QED BY <3>8, <3>9, <3>10 DEF Ring
  <2> QED BY <2>1, <2>2
<1>8. ASSUME NEW w \in Workers, FillRecord(w) PROVE Ring(v)'
  <2>1. CASE v # w
    <3>1. RingSame(v)
      BY <1>8, <2>1 DEF FillRecord, RingSame, Picked, After, Types
    <3> QED BY <1>0, <3>1, RingKept
  <2>2. CASE v = w
    <3>1. /\ pc[v] = "fill" /\ pc'[v] = "announce"
          /\ records'[v] = [records[v] EXCEPT ![Slot(head[v] - 1)] = file[v]]
          /\ emitted'[v] = Append(emitted[v], file[v])
          /\ mpc' = mpc /\ chan' = chan
          /\ UNCHANGED <<readSem, head, tail, done, db>>
      BY <1>8, <2>2 DEF FillRecord, Types
    <3>2. /\ head[v] \in Nat /\ tail[v] \in Nat /\ emitted[v] \in Seq(Files)
          /\ records[v] \in [Slots -> Numbers] /\ file[v] \in Files
      BY <3>1 DEF Types, AtFile
    <3>3. Filled(v) = head[v] - 1 /\ Filled(v)' = head[v]
      BY <3>1, <3>2 DEF Filled
    <3>4. /\ Len(emitted[v]) = head[v] - 1 /\ Len(db[v]) = tail[v]
          /\ tail[v] <= head[v] - 1 /\ head[v] - tail[v] <= ChannelLen
      BY <1>0, <3>3 DEF Ring, Sizes
    <3>5. /\ Len(emitted'[v]) = head[v]
          /\ emitted'[v][head[v]] = file[v]
          /\ \A i \in 1..(head[v] - 1) : emitted'[v][i] = emitted[v][i]
      BY SMTT(30), <3>1, <3>2, <3>4
    <3>6. Sizes(v)'
      BY <3>1, <3>2, <3>3, <3>4, <3>5 DEF Sizes
    <3>7. \A i \in 1..tail[v] : db'[v][i] = emitted'[v][i]
      BY <1>0, <3>1, <3>2, <3>4, <3>5 DEF Ring, Contents
    <3>8. ASSUME NEW i \in (tail[v] + 1)..head[v]
          PROVE  records'[v][Slot(i - 1)] = emitted'[v][i]
      <4>1. CASE i = head[v]
        BY <3>1, <3>2, <3>5, <4>1, SlotType
      <4>2. CASE i < head[v]
        <5>1. records[v][Slot(i - 1)] = emitted[v][i]
          BY <1>0, <3>2, <3>3, <4>2 DEF Ring, Contents
        <5>2. Slot(i - 1) # Slot(head[v] - 1)
          <6>1. /\ i - 1 \in Nat /\ head[v] - 1 \in Nat /\ i - 1 < head[v] - 1
                /\ (head[v] - 1) - (i - 1) < ChannelLen
            BY SMTT(30), <3>2, <3>4, <4>2, ConstantsAssumption DEF ConstantsAssumption
          <6> QED BY <6>1, SlotsDistinct
        <5>3. Slot(i - 1) \in Slots
          BY <3>2, SlotType
        <5> QED BY <3>1, <3>2, <3>5, <4>2, <5>1, <5>2, <5>3
      <4> QED BY <3>2, <4>1, <4>2
    <3>9. Contents(v)'
      BY <3>1, <3>3, <3>7, <3>8 DEF Contents
    <3>10. ReadTokens(v)'
      BY SMTT(30), <1>0, <3>1, <3>2, <3>3 DEF Ring, ReadTokens, Picked, Unannounced, Types
    <3> QED BY <3>6, <3>9, <3>10 DEF Ring
  <2> QED BY <2>1, <2>2
<1>9. ASSUME NEW w \in Workers, Announce(w) PROVE Ring(v)'
  <2>1. CASE v # w
    <3>1. RingSame(v)
      BY <1>9, <2>1 DEF Announce, RingSame, Picked, After, Types
    <3> QED BY <1>0, <3>1, RingKept
  <2>2. CASE v = w
    <3>1. /\ pc[v] = "announce" /\ pc'[v] = "list" /\ readSem'[v] = readSem[v] + 1
          /\ mpc' = mpc /\ chan' = chan /\ readSem[v] \in Nat
          /\ UNCHANGED <<head, tail, records, done, emitted, db>>
      BY <1>9, <2>2 DEF Announce, Types
    <3>2. Filled(v)' = Filled(v) /\ Unannounced(v) = 1 /\ Unannounced(v)' = 0
      BY <3>1 DEF Filled, Unannounced
    <3>3. Sizes(v)'
      BY <1>0, <3>1, <3>2 DEF Ring, Sizes
    <3>4. Contents(v)'
      BY <1>0, <3>1, <3>2 DEF Ring, Contents
    <3>5. ReadTokens(v)'
      BY <1>0, <3>1, <3>2 DEF Ring, ReadTokens, Picked
    <3> QED BY <3>3, <3>4, <3>5 DEF Ring
  <2> QED BY <2>1, <2>2
<1>10. ASSUME NEW w \in Workers, OpenFileFails(w) PROVE Ring(v)'
  <2>1. v # w
    BY <1>10 DEF OpenFileFails
  <2>2. RingSame(v)
    BY <1>10, <2>1 DEF OpenFileFails, RingSame, Picked, After, Types
  <2> QED BY <1>0, <2>2, RingKept
<1>11. ASSUME NEW w \in Workers, ReturnUnused(w) PROVE Ring(v)'
  <2>1. v # w
    BY <1>11, <1>0 DEF ReturnUnused, Ring, Sizes
  <2>2. RingSame(v)
    BY <1>11, <2>1 DEF ReturnUnused, RingSame, Picked, After, Types
  <2> QED BY <1>0, <2>2, RingKept
<1>12. ASSUME NEW w \in Workers, LockLast(w) PROVE Ring(v)'
  <2>1. RingSame(v)
    BY <1>12 DEF LockLast, RingSame, Picked, After, Types
  <2> QED BY <1>0, <2>1, RingKept
<1>13. ASSUME NEW w \in Workers, MarkDone(w) PROVE Ring(v)'
  <2>1. CASE v # w
    <3>1. RingSame(v)
      BY <1>13, <2>1 DEF MarkDone, RingSame, Picked, After, Types
    <3> QED BY <1>0, <3>1, RingKept
  <2>2. CASE v = w
    <3>1. /\ pc[v] \in {"mark", "markUnlocked"} /\ pc'[v] = "gone" /\ done'[v]
          /\ UNCHANGED <<head, tail, records, emitted, db>>
      BY <1>13, <2>2 DEF MarkDone, Types
    <3>2. Filled(v)' = Filled(v)
      BY <3>1 DEF Filled
    <3>3. Sizes(v)'
      BY <1>0, <3>1, <3>2 DEF Ring, Sizes
    <3>4. Contents(v)'
      BY <1>0, <3>1, <3>2 DEF Ring, Contents
    <3>5. ReadTokens(v)'
      BY <3>1 DEF ReadTokens
    <3> QED BY <3>3, <3>4, <3>5 DEF Ring
  <2> QED BY <2>1, <2>2
<1>14. ASSUME NEW w \in Workers, Sigterm(w) PROVE Ring(v)'
  <2>1. RingSame(v)
    BY <1>14 DEF Sigterm, RingSame, Picked, After, Types
  <2> QED BY <1>0, <2>1, RingKept
<1>15. ASSUME NEW w \in Workers, Interrupt(w) PROVE Ring(v)'
  <2>1. RingSame(v)
    BY <1>15 DEF Interrupt, RingSame, Picked, After, Types
  <2> QED BY <1>0, <2>1, RingKept
<1>16. CASE BeginPass
  <2>1. RingSame(v)
    BY <1>16 DEF BeginPass, RingSame, Picked, After, Types
  <2> QED BY <1>0, <2>1, RingKept
<1>17. CASE SkipEmpty
  <2>1. RingSame(v)
    BY <1>17 DEF SkipEmpty, RingSame, Picked, After, Types
  <2> QED BY <1>0, <2>1, RingKept
<1>18. CASE TakeRecordToken
  <2>1. CASE v # chan
    <3>1. RingSame(v)
      BY <1>18, <2>1 DEF TakeRecordToken, Store, RingSame, Picked, After, Types
    <3> QED BY <1>0, <3>1, RingKept
  <2>2. CASE v = chan
    <3>1. /\ readSem'[v] = readSem[v] - 1 /\ readSem[v] \in Nat
          /\ mpc = "pass" /\ mpc' = "lock" /\ chan' = v
          /\ UNCHANGED <<head, tail, records, done, emitted, db, pc>>
      BY <1>18, <2>2 DEF TakeRecordToken, Types
    <3>2. Filled(v)' = Filled(v) /\ Unannounced(v)' = Unannounced(v)
      BY <3>1 DEF Filled, Unannounced
    <3>3. Picked(v) = 0 /\ Picked(v)' = 1
      BY <3>1 DEF Picked
    <3>4. Sizes(v)'
      BY <1>0, <3>1, <3>2 DEF Ring, Sizes
    <3>5. Contents(v)'
      BY <1>0, <3>1, <3>2 DEF Ring, Contents
    <3>6. ReadTokens(v)'
      BY <1>0, <3>1, <3>2, <3>3 DEF Ring, ReadTokens, After, Unannounced
    <3> QED BY <3>4, <3>5, <3>6 DEF Ring
  <2> QED BY <2>1, <2>2
<1>19. CASE LockChannel
  <2>1. RingSame(v)
    BY <1>19 DEF LockChannel, RingSame, Picked, After, Types
  <2> QED BY <1>0, <2>1, RingKept
<1>20. CASE Collect
  <2>1. CASE v # chan
    <3>1. RingSame(v)
      BY <1>20, <2>1 DEF Collect, Store, RingSame, Picked, After, Types
    <3> QED BY <1>0, <3>1, RingKept
  <2>2. CASE v = chan
    <3>1. /\ mpc = "collect" /\ mpc' = "return" /\ chan' = v
          /\ UNCHANGED <<head, records, readSem, done, emitted, pc>>
      BY <1>20, <2>2 DEF Collect
    <3>2. Filled(v)' = Filled(v) /\ Unannounced(v)' = Unannounced(v)
      BY <3>1 DEF Filled, Unannounced
    <3>3. CASE done[v]
      <4>1. UNCHANGED <<db, tail>>
        BY <1>20, <2>2, <3>3 DEF Collect
      <4>2. Sizes(v)'
        BY <1>0, <3>1, <3>2, <4>1 DEF Ring, Sizes
      <4>3. Contents(v)'
        BY <1>0, <3>1, <3>2, <4>1 DEF Ring, Contents
      <4>4. ReadTokens(v)'
        BY <1>0, <3>1, <3>3 DEF Ring, ReadTokens
      <4> QED BY <4>2, <4>3, <4>4 DEF Ring
    <3>4. CASE ~done[v]
      <4>1. Store(v)
        BY <1>20, <2>2, <3>4 DEF Collect
      <4>2. Picked(v) = 1 /\ Picked(v)' = 0
        BY <2>2, <3>1 DEF Picked
      <4>3. readSem[v] + Picked(v) + Unannounced(v) = Filled(v) - tail[v]
        BY <1>0, <3>1, <3>4 DEF Ring, ReadTokens, After
      <4>4. tail[v] < Filled(v)
        BY <4>2, <4>3 DEF Types, Unannounced, Filled
      <4>5. Sizes(v)' /\ Contents(v)' /\ tail'[v] = tail[v] + 1
        BY <1>0, <3>1, <3>2, <4>1, <4>4, StoreOne DEF Ring
      <4>6. ReadTokens(v)'
        <5>1. /\ readSem[v] \in Nat /\ tail[v] \in Nat
              /\ Unannounced(v) \in Nat /\ Filled(v) \in Int
          BY DEF Types, Unannounced, Filled
        <5>2. readSem'[v] + Picked(v)' + Unannounced(v)' = Filled(v)' - tail'[v]
          BY <3>1, <3>2, <4>2, <4>3, <4>5, <5>1
        <5> QED BY <1>0, <3>1, <5>2 DEF Ring, ReadTokens
      <4> QED BY <4>5, <4>6 DEF Ring
    <3> QED BY <3>3, <3>4
  <2> QED BY <2>1, <2>2
<1>21. CASE ReturnSlot
  <2>1. RingSame(v)
    BY <1>21 DEF ReturnSlot, RingSame, Picked, After, Types
  <2> QED BY <1>0, <2>1, RingKept
<1>22. CASE EndPass
  <2>1. CASE ~CanStop
    <3>1. RingSame(v)
      BY <1>22, <2>1 DEF EndPass, RingSame, Picked, After, Types
    <3> QED BY <1>0, <3>1, RingKept
  <2>2. CASE CanStop
    <3>1. /\ mpc' = "drain"
          /\ UNCHANGED <<head, tail, records, readSem, done, emitted, db, pc>>
      BY <1>22, <2>2 DEF EndPass
    <3>2. Filled(v)' = Filled(v)
      BY <3>1 DEF Filled
    <3>3. Sizes(v)'
      BY <1>0, <3>1, <3>2 DEF Ring, Sizes
    <3>4. Contents(v)'
      BY <1>0, <3>1, <3>2 DEF Ring, Contents
    <3>5. ReadTokens(v)'
      BY <1>0, <3>1 DEF Ring, ReadTokens, After
    <3> QED BY <3>3, <3>4, <3>5 DEF Ring
  <2> QED BY <2>1, <2>2
<1>23. CASE Drain
  <2>1. CASE v # chan
    <3>1. RingSame(v)
      BY <1>23, <2>1 DEF Drain, Store, RingSame, Picked, After, Types
    <3> QED BY <1>0, <3>1, RingKept
  <2>2. CASE v = chan
    <3>1. /\ mpc = "drain" /\ mpc' = mpc
          /\ UNCHANGED <<head, records, readSem, done, emitted, pc>>
      BY <1>23 DEF Drain
    <3>2. Filled(v)' = Filled(v)
      BY <3>1 DEF Filled
    <3>3. ReadTokens(v)'
      BY <1>0, <3>1 DEF Ring, ReadTokens, After
    <3>4. CASE Slot(tail[v]) = Slot(head[v])
      <4>1. UNCHANGED <<db, tail>>
        BY <1>23, <2>2, <3>4 DEF Drain
      <4>2. Sizes(v)'
        BY <1>0, <3>1, <3>2, <4>1 DEF Ring, Sizes
      <4>3. Contents(v)'
        BY <1>0, <3>1, <3>2, <4>1 DEF Ring, Contents
      <4> QED BY <3>3, <4>2, <4>3 DEF Ring
    <3>5. CASE Slot(tail[v]) # Slot(head[v])
      <4>1. Store(v)
        BY <1>23, <2>2, <3>5 DEF Drain
      <4>2. Filled(v) = head[v]
        BY <1>0, <3>1 DEF Ending, After, Running, Filled, Types
      <4>3. tail[v] < Filled(v)
        BY <1>0, <3>5, <4>2 DEF Ring, Sizes, Types
      <4>4. Sizes(v)' /\ Contents(v)'
        BY <1>0, <3>1, <3>2, <4>1, <4>3, StoreOne DEF Ring
      <4> QED BY <3>3, <4>4 DEF Ring
    <3> QED BY <3>4, <3>5
  <2> QED BY <2>1, <2>2
<1>24. CASE EndDrain
  <2>1. RingSame(v)
    BY <1>24 DEF EndDrain, RingSame, Picked, After, Types
  <2> QED BY <1>0, <2>1, RingKept
<1>25. CASE Finish
  <2>1. RingSame(v)
    BY <1>25 DEF Finish, RingSame, Picked, After, Types
  <2> QED BY <1>0, <2>1, RingKept
<1>27. ASSUME NEW w \in Workers, EndListing(w) PROVE Ring(v)'
  <2>1. RingSame(v)
    BY <1>27 DEF EndListing, RingSame, Picked, After, Types
  <2> QED BY <1>0, <2>1, RingKept
<1>28. ASSUME NEW w \in Workers, StatFails(w) PROVE Ring(v)'
  <2>1. RingSame(v)
    BY <1>28 DEF StatFails, RingSame, Picked, After, Types
  <2> QED BY <1>0, <2>1, RingKept
<1>29. ASSUME NEW w \in Workers, Complain(w) PROVE Ring(v)'
  <2>1. v # w
    BY <1>29, <1>0 DEF Complain, Ring, Sizes
  <2>2. RingSame(v)
    BY <1>29, <2>1 DEF Complain, RingSame, Picked, After, Types
  <2> QED BY <1>0, <2>2, RingKept
<1>30. ASSUME NEW w \in Workers, Exiting(w) PROVE Ring(v)'
  <2>1. CASE v # w \/ pc'[w] = "cleanup"
    <3>1. RingSame(v)
      BY <1>30, <2>1 DEF Exiting, RingSame, Picked, After, Types
    <3> QED BY <1>0, <3>1, RingKept
  <2>2. CASE v = w /\ pc'[w] # "cleanup"
    <3>1. /\ pc[v] = "exiting" /\ pc'[v] = "gone" /\ mpc' = mpc /\ mpc \in After
          /\ UNCHANGED <<head, tail, records, done, emitted, db>>
      BY <1>30, <2>2 DEF Exiting, PipeClosed, After, Types
    <3>2. Filled(v)' = Filled(v)
      BY <3>1 DEF Filled
    <3>3. Sizes(v)'
      BY <1>0, <3>1, <3>2 DEF Ring, Sizes
    <3>4. Contents(v)'
      BY <1>0, <3>1, <3>2 DEF Ring, Contents
    <3>5. ReadTokens(v)'
      BY <3>1 DEF ReadTokens
    <3> QED BY <3>3, <3>4, <3>5 DEF Ring
  <2> QED BY <2>1, <2>2
<1>31. ASSUME NEW w \in Workers, InterruptWrite(w) PROVE Ring(v)'
  <2>1. ~(v = w /\ pc[w] = "error")
    BY <1>0 DEF Ring, Sizes
  <2>2. RingSame(v)
    BY <1>31, <2>1 DEF InterruptWrite, RingSame, Picked, After, Types
  <2> QED BY <1>0, <2>2, RingKept
<1> QED
  BY <1>a, <1>1, <1>2, <1>3, <1>4, <1>5, <1>6, <1>7, <1>8, <1>9, <1>10, <1>11, <1>12,
     <1>13, <1>14, <1>15, <1>16, <1>17, <1>18, <1>19, <1>20, <1>21, <1>22, <1>23, <1>24,
     <1>25, <1>27, <1>28, <1>29, <1>30, <1>31 DEF Next, Step, FileStep, Manager, Stopped

\* The conditions of the end are kept, one step per action that can disturb them.
LEMMA EndingNext ==
  ASSUME Types, Rings, [Next]_vars
  PROVE  Ending'
<1>0. Ending
  BY DEF Rings
<1> USE DEF Set, Add, Move, MMove, channel, pool, pipe, signal, worker, manager, Send, Meet
<1>a. CASE UNCHANGED vars
  BY <1>0, <1>a DEF vars, Ending, Running, Drained
<1>1. ASSUME NEW w \in Workers, StartJob(w) PROVE Ending'
  BY <1>0, <1>1 DEF StartJob, Ending, Running, Drained, After, Types
<1>2. ASSUME NEW w \in Workers, Discover(w) PROVE Ending'
  BY <1>0, <1>2 DEF Discover, Ending, Running, Drained, After, Types
<1>3. ASSUME NEW w \in Workers, EndJob(w) PROVE Ending'
  BY <1>0, <1>3 DEF EndJob, Ending, Running, Drained, After, Types
<1>4. ASSUME NEW w \in Workers, Leave(w) PROVE Ending'
  BY <1>0, <1>4 DEF Leave, Ending, Running, Drained, After, Types
<1>5. ASSUME NEW w \in Workers, NextFile(w) PROVE Ending'
  BY <1>0, <1>5 DEF NextFile, Ending, Running, Drained, After, Types
<1>6. ASSUME NEW w \in Workers, TakeSlot(w) PROVE Ending'
  BY <1>0, <1>6 DEF TakeSlot, Ending, Running, Drained, After, Types
<1>7. ASSUME NEW w \in Workers, LockRecord(w) PROVE Ending'
  BY <1>0, <1>7 DEF LockRecord, Ending, Running, Drained, After, Types
<1>8. ASSUME NEW w \in Workers, FillRecord(w) PROVE Ending'
  BY <1>0, <1>8 DEF FillRecord, Ending, Running, Drained, After, Types
<1>9. ASSUME NEW w \in Workers, Announce(w) PROVE Ending'
  BY <1>0, <1>9 DEF Announce, Ending, Running, Drained, After, Types
<1>10. ASSUME NEW w \in Workers, OpenFileFails(w) PROVE Ending'
  BY <1>0, <1>10 DEF OpenFileFails, Ending, Running, Drained, After, Types
<1>11. ASSUME NEW w \in Workers, ReturnUnused(w) PROVE Ending'
  BY <1>0, <1>11 DEF ReturnUnused, Ending, Running, Drained, After, Types
<1>12. ASSUME NEW w \in Workers, LockLast(w) PROVE Ending'
  BY <1>0, <1>12 DEF LockLast, Ending, Running, Drained, After, Types
<1>13. ASSUME NEW w \in Workers, MarkDone(w) PROVE Ending'
  BY <1>0, <1>13 DEF MarkDone, Ending, Running, Drained, After, Types
<1>14. ASSUME NEW w \in Workers, Sigterm(w) PROVE Ending'
  BY <1>0, <1>14 DEF Sigterm, Ending, Running, Drained, After, Types
<1>15. ASSUME NEW w \in Workers, Interrupt(w) PROVE Ending'
  BY <1>0, <1>15 DEF Interrupt, Ending, Running, Drained, After, Types
<1>16. CASE BeginPass
  BY <1>0, <1>16 DEF BeginPass, Ending, Running, Drained, After, Types
<1>17. CASE SkipEmpty
  BY <1>0, <1>17 DEF SkipEmpty, Ending, Running, Drained, After, Types
<1>18. CASE TakeRecordToken
  BY <1>0, <1>18 DEF TakeRecordToken, Ending, Running, Drained, After, Types
<1>19. CASE LockChannel
  BY <1>0, <1>19 DEF LockChannel, Ending, Running, Drained, After, Types
<1>20. CASE Collect
  BY <1>0, <1>20 DEF Collect, Ending, Running, Drained, After, Types
<1>21. CASE ReturnSlot
  BY <1>0, <1>21 DEF ReturnSlot, Ending, Running, Drained, After, Types
<1>22. CASE EndPass
  <2>1. CASE ~CanStop
    BY <1>0, <1>22, <2>1 DEF EndPass, Ending, Running, Drained, After, Types
  <2>2. CASE CanStop
    <3>1. /\ mpc' = "drain" /\ chan' = 1
          /\ UNCHANGED <<pc, alive, quitting, jobsWaiting>>
      BY <1>22, <2>2 DEF EndPass
    <3>2. (quitting \/ jobsWaiting = 0) /\ Running = {}
      BY <1>0, <2>2 DEF CanStop, Ending, Running
    <3>3. \A v \in Workers : ~(v < 1)
      BY DEF Workers
    <3> QED BY <1>0, <3>1, <3>2, <3>3 DEF Ending, Running
  <2> QED BY <2>1, <2>2
<1>23. CASE Drain
  <2>1. /\ mpc = "drain" /\ mpc' = "drain" /\ chan \in Workers
        /\ UNCHANGED <<pc, alive, quitting, jobsWaiting, head>>
    BY <1>23 DEF Drain
  <2>2. \A v \in Workers : v < chan' => Drained(v)'
    <3>1. CASE Slot(tail[chan]) # Slot(head[chan])
      <4>0. chan' = chan /\ tail' = [tail EXCEPT ![chan] = @ + 1]
        BY <1>23, <3>1 DEF Drain, Store
      <4>1. chan' = chan /\ \A v \in Workers : v < chan => tail'[v] = tail[v]
        <5>1. \A v \in Workers : v < chan => v # chan
          BY <2>1 DEF Workers
        <5> QED BY <4>0, <5>1 DEF Types
      <4> QED BY <1>0, <2>1, <4>1 DEF Ending, Drained
    <3>2. CASE Slot(tail[chan]) = Slot(head[chan])
      <4>1. chan' = chan + 1 /\ tail' = tail
        BY <1>23, <3>2 DEF Drain
      <4>2. \A v \in Workers : v < chan' => v < chan \/ v = chan
        BY <2>1, <4>1 DEF Workers
      <4> QED BY <1>0, <2>1, <3>2, <4>1, <4>2 DEF Ending, Drained
    <3> QED BY <3>1, <3>2
  <2> QED BY <1>0, <2>1, <2>2 DEF Ending, Running, After
<1>24. CASE EndDrain
  <2>1. /\ mpc = "drain" /\ mpc' = "reap" /\ chan \notin Workers
        /\ UNCHANGED <<pc, alive, quitting, jobsWaiting, head, tail, chan>>
    BY <1>24 DEF EndDrain
  <2>2. \A v \in Workers : v < chan
    BY <2>1, ConstantsAssumption DEF Types, Indexes, Workers, ConstantsAssumption
  <2> QED BY <1>0, <2>1, <2>2 DEF Ending, Running, Drained, After
<1>25. CASE Finish
  BY <1>0, <1>25 DEF Finish, Ending, Running, Drained, After, Types
<1>27. ASSUME NEW w \in Workers, EndListing(w) PROVE Ending'
  BY <1>0, <1>27 DEF EndListing, Ending, Running, Drained, After, Types
<1>28. ASSUME NEW w \in Workers, StatFails(w) PROVE Ending'
  BY <1>0, <1>28 DEF StatFails, Ending, Running, Drained, After, Types
<1>29. ASSUME NEW w \in Workers, Complain(w) PROVE Ending'
  BY <1>0, <1>29 DEF Complain, Ending, Running, Drained, After, Types
<1>30. ASSUME NEW w \in Workers, Exiting(w) PROVE Ending'
  BY <1>0, <1>30 DEF Exiting, Ending, Running, Drained, After, Types
<1>31. ASSUME NEW w \in Workers, InterruptWrite(w) PROVE Ending'
  BY <1>0, <1>31 DEF InterruptWrite, Ending, Running, Drained, After, Types
<1> QED
  BY <1>a, <1>1, <1>2, <1>3, <1>4, <1>5, <1>6, <1>7, <1>8, <1>9, <1>10, <1>11, <1>12,
     <1>13, <1>14, <1>15, <1>16, <1>17, <1>18, <1>19, <1>20, <1>21, <1>22, <1>23, <1>24,
     <1>25, <1>27, <1>28, <1>29, <1>30, <1>31 DEF Next, Step, FileStep, Manager, Stopped

\* The rings of the workers whose opens all succeeded hold what their indexes and
\* tokens say.
THEOREM RingsInvariant == Spec => []Rings
<1>1. Types /\ TokensConserved /\ Rings /\ [Next]_vars => Rings'
  BY RingNext, EndingNext DEF Rings
<1> QED
  BY <1>1, RingsInit, TypesInvariant, TokensInvariant, PTL DEF Spec

\* What is stored and what is unread is what was filled, for every length of
\* the ring: with layer 3, nothing is overwritten, lost or read ahead before the
\* end, although the drain and an interrupted last wait use no semaphore.
THEOREM QueueInvariant == Spec => []ChannelIsQueue
<1>1. ASSUME Types, NEW w \in Workers, Ring(w)
      PROVE  emitted[w] = db[w] \o Unread(w)
  <2> DEFINE n == Filled(w) - tail[w]
  <2>1. /\ head[w] \in Nat /\ tail[w] \in Nat /\ tail[w] <= Filled(w)
        /\ Filled(w) \in Nat
        /\ n \in Nat
    BY <1>1 DEF Types, Ring, Sizes, Filled
  <2>2. head[w] - tail[w] - (IF pc[w] = "fill" THEN 1 ELSE 0) = n
    BY <2>1 DEF Filled
  <2>3. Unread(w) = [k \in 1..n |-> records[w][Slot(tail[w] + k - 1)]]
    BY <2>2 DEF Unread
  <2>4. \A k \in 1..n : records[w][Slot(tail[w] + k - 1)] \in Numbers
    BY <1>1, <2>1, SlotType DEF Types
  <2>5. Unread(w) \in Seq(Numbers) /\ Len(Unread(w)) = n
    <3>1. Unread(w) \in [1..n -> Numbers]
      BY <2>3, <2>4
    <3> HIDE DEF n
    <3> QED BY <2>1, <3>1
  <2>6. /\ db[w] \in Seq(Numbers) /\ Len(db[w]) = tail[w]
        /\ emitted[w] \in Seq(Numbers) /\ Len(emitted[w]) = Filled(w)
    <3>1. /\ db[w] \in Seq(Numbers) /\ emitted[w] \in Seq(Files)
          /\ Files \subseteq Numbers
      BY <1>1, NextOne DEF Types
    <3>2. emitted[w] \in Seq(Numbers)
      BY <3>1
    <3> QED BY <1>1, <3>1, <3>2 DEF Ring, Sizes
  <2>7. \A i \in 1..tail[w] : emitted[w][i] = db[w][i]
    BY <1>1 DEF Ring, Contents
  <2>8. ASSUME NEW i \in 1..n PROVE emitted[w][tail[w] + i] = Unread(w)[i]
    <3>1. /\ tail[w] + i \in (tail[w] + 1)..Filled(w)
          /\ (tail[w] + i) - 1 = tail[w] + i - 1
      BY <2>1
    <3>2. emitted[w][tail[w] + i] = records[w][Slot((tail[w] + i) - 1)]
      BY <1>1, <3>1 DEF Ring, Contents
    <3> QED BY <2>3, <3>1, <3>2
  <2>9. Len(emitted[w]) = Len(db[w]) + Len(Unread(w))
    BY <2>1, <2>5, <2>6
  <2>10. /\ \A i \in 1..Len(db[w]) : emitted[w][i] = db[w][i]
         /\ \A i \in 1..Len(Unread(w)) :
              emitted[w][Len(db[w]) + i] = Unread(w)[i]
    BY <2>5, <2>6, <2>7, <2>8
  <2>11. /\ db[w] \in Seq(Numbers) /\ Unread(w) \in Seq(Numbers)
         /\ emitted[w] \in Seq(Numbers)
    BY <2>5, <2>6
  <2> HIDE DEF n
  <2> QED
    BY <2>9, <2>10, <2>11, ConcatIs
<1>2. Types /\ Rings => ChannelIsQueue
  BY <1>1 DEF Rings, ChannelIsQueue
<1> QED
  BY <1>2, TypesInvariant, RingsInvariant, PTL

\* When the manager is finished, a worker's records are all stored, or it is
\* those of one ring left exactly full that are not.
THEOREM LossInvariant == Spec => []LossIsFullRing
<1>1. ASSUME Types, NEW w \in Workers, Ring(w), Ending, mpc = "finished"
      PROVE  Len(emitted[w]) - Len(db[w]) \in {0, ChannelLen}
  <2>1. head[w] \in Nat /\ tail[w] \in Nat /\ Slot(tail[w]) = Slot(head[w])
    BY <1>1 DEF Types, Ending, Drained
  <2>2. Filled(w) = head[w]
    BY <1>1, <2>1 DEF Ending, After, Running, Filled
  <2>3. /\ Len(emitted[w]) = head[w] /\ Len(db[w]) = tail[w]
        /\ tail[w] <= head[w] /\ head[w] - tail[w] <= ChannelLen
    BY <1>1, <2>2 DEF Ring, Sizes
  <2>4. ~(tail[w] < head[w] /\ head[w] - tail[w] < ChannelLen)
    BY <2>1, SlotsDistinct
  <2> QED BY <2>1, <2>3, <2>4, ConstantsAssumption DEF ConstantsAssumption
<1>2. Types /\ Rings => LossIsFullRing
  BY <1>1 DEF Rings, LossIsFullRing
<1> QED
  BY <1>2, TypesInvariant, RingsInvariant, PTL
=============================================================================
