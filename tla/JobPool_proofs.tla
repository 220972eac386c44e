--------------------------- MODULE JobPool_proofs ---------------------------
(***************************************************************************)
(* Theorems about JobPool, for every finite set of workers, every tree and   *)
(* every queue length.  The invariants are proved in layers, each using the  *)
(* ones before it: types, the mutex, the counters, the tokens and slots of   *)
(* the ring, and last the soundness of the idle exit.                       *)
(***************************************************************************)
EXTENDS JobPool, FiniteSetTheorems, TLAPS

-----------------------------------------------------------------------------
(* Layer 1.  Types, with the naturals that other invariants keep from going  *)
(* negative weakened to integers.                                           *)

Types ==
  /\ jobSem \in Nat /\ queueReadSem \in Nat /\ queueWriteSem \in Nat
  /\ jobsWaiting \in Int /\ jobsRunning \in Int
  /\ ring \in [0..(QueueLen - 1) -> Dirs]
  /\ queueHead \in Nat /\ queueTail \in Nat
  /\ quitting \in BOOLEAN /\ sigterm \subseteq Workers
  /\ pc \in [Workers -> Places]
  /\ inside \subseteq Workers
  /\ left \in [Workers -> {"no", "idle", "term"}]
  /\ stack \in [Workers -> Seq(Dirs)]
  /\ job \in [Workers -> Dirs] /\ njob \in [Workers -> Dirs]
  /\ todo \in [Workers -> SUBSET Dirs]
  /\ listed \subseteq Dirs /\ skipped \subseteq Dirs

\* The slot of a count is an index of the ring.
LEMMA SlotType == \A k \in Nat : Slot(k) \in 0..(QueueLen - 1)
  BY QueueAssumption DEF QueueAssumption, Slot

\* The initial state of manager_init is typed.
LEMMA TypesInit == Init => Types
<1> SUFFICES ASSUME Init PROVE Types
  OBVIOUS
<1>1. stack \in [Workers -> Seq(Dirs)]
  <2>1. << >> \in Seq(Dirs)
    OBVIOUS
  <2> QED
    BY <2>1 DEF Init
<1>2. ring \in [0..(QueueLen - 1) -> Dirs] /\ queueWriteSem \in Nat
  BY QueueAssumption, TreeAssumption DEF Init
<1>3. /\ pc \in [Workers -> Places]
      /\ left \in [Workers -> {"no", "idle", "term"}]
      /\ inside \subseteq Workers /\ sigterm \subseteq Workers
  BY DEF Init, Places
<1>4. /\ job \in [Workers -> Dirs] /\ njob \in [Workers -> Dirs]
      /\ todo \in [Workers -> SUBSET Dirs]
  BY TreeAssumption DEF Init
<1>5. /\ jobSem \in Nat /\ queueReadSem \in Nat
      /\ jobsWaiting \in Int /\ jobsRunning \in Int
      /\ queueHead \in Nat /\ queueTail \in Nat
  BY DEF Init
<1>6. quitting \in BOOLEAN /\ listed \subseteq Dirs /\ skipped \subseteq Dirs
  BY DEF Init
<1> QED
  BY <1>1, <1>2, <1>3, <1>4, <1>5, <1>6 DEF Types

\* Each operation of the loop keeps the types, one step per action.
LEMMA TypesNext == Types /\ [Next]_vars => Types'
<1> SUFFICES ASSUME Types, [Next]_vars PROVE Types'
  OBVIOUS
<1> USE DEF Types, At, Goto, Leave, Release, Places, Locking, vars, sems, counts,
            queue, signal, local, past
<1>0. CASE UNCHANGED vars
  BY <1>0
<1>1. ASSUME NEW w \in Workers, Acquire(w) PROVE Types'
  BY <1>1 DEF Acquire
<1>2. ASSUME NEW w \in Workers, Top(w) PROVE Types'
  BY <1>2 DEF Top
<1>3. ASSUME NEW w \in Workers, CheckIdle(w) PROVE Types'
  <2>1. PICK p \in Places : Goto(w, p)
    BY <1>3 DEF CheckIdle
  <2>2. pc' \in [Workers -> Places]
    BY <2>1
  <2>3. jobSem' \in Nat /\ inside' \subseteq Workers
    BY <1>3 DEF CheckIdle
  <2> QED
    BY <1>3, <2>2, <2>3 DEF CheckIdle
<1>4. ASSUME NEW w \in Workers, PassToken(w) PROVE Types'
  BY <1>4 DEF PassToken
<1>5. ASSUME NEW w \in Workers, PopStack(w) PROVE Types'
  <2>1. /\ stack[w] \in Seq(Dirs) /\ stack[w] # << >>
        /\ stack[w][Len(stack[w])] \in Dirs
        /\ SubSeq(stack[w], 1, Len(stack[w]) - 1) \in Seq(Dirs)
    BY <1>5 DEF PopStack
  <2> QED
    BY <1>5, <2>1 DEF PopStack
<1>6. ASSUME NEW w \in Workers, StartStacked(w) PROVE Types'
  BY <1>6 DEF StartStacked
<1>7. ASSUME NEW w \in Workers, TakeToken(w) PROVE Types'
  BY <1>7 DEF TakeToken
<1>8. ASSUME NEW w \in Workers, TakeNothing(w) PROVE Types'
  BY <1>8 DEF TakeNothing
<1>9. ASSUME NEW w \in Workers, TakeJob(w) PROVE Types'
  BY SMTT(30), <1>9, SlotType DEF TakeJob
<1>10. ASSUME NEW w \in Workers, GiveSlot(w) PROVE Types'
  BY <1>10 DEF GiveSlot
<1>11. ASSUME NEW w \in Workers, OpenDir(w) PROVE Types'
  BY <1>11, TreeAssumption DEF OpenDir
<1>12. ASSUME NEW w \in Workers, OpenFails(w) PROVE Types'
  BY <1>12 DEF OpenFails
<1>13. ASSUME NEW w \in Workers, LstatFails(w) PROVE Types'
  BY <1>13, TreeAssumption DEF LstatFails, Entry, Drop
<1>14. ASSUME NEW w \in Workers, TooDeep(w) PROVE Types'
  BY <1>14 DEF TooDeep, Entry, Drop
<1>15. ASSUME NEW w \in Workers, ReserveSlot(w) PROVE Types'
  BY <1>15 DEF ReserveSlot, Entry, Drop
<1>16. ASSUME NEW w \in Workers, PushStack(w) PROVE Types'
  BY <1>16 DEF PushStack, Entry, Drop
<1>17. ASSUME NEW w \in Workers, CountStacked(w) PROVE Types'
  BY <1>17 DEF CountStacked
<1>18. ASSUME NEW w \in Workers, PutJob(w) PROVE Types'
  <2>1. ring' \in [0..(QueueLen - 1) -> Dirs]
    BY <1>18 DEF PutJob
  <2>2. pc' \in [Workers -> Places]
    BY <1>18 DEF PutJob
  <2> QED
    BY <1>18, <2>1, <2>2 DEF PutJob
<1>19. ASSUME NEW w \in Workers, PutToken(w) PROVE Types'
  BY <1>19 DEF PutToken
<1>20. ASSUME NEW w \in Workers, CloseDir(w) PROVE Types'
  BY <1>20 DEF CloseDir
<1>21. ASSUME NEW w \in Workers, EndJob(w) PROVE Types'
  BY <1>21 DEF EndJob
<1>22. ASSUME NEW w \in Workers, LeaveListing(w) PROVE Types'
  BY <1>22 DEF LeaveListing
<1>23. ASSUME NEW w \in Workers, Sigterm(w) PROVE Types'
  BY <1>23 DEF Sigterm
<1>24. ASSUME NEW w \in Workers, Interrupt(w) PROVE Types'
  BY <1>24 DEF Interrupt
<1>25. CASE Quit
  BY <1>25 DEF Quit
<1> QED
  BY <1>0, <1>1, <1>2, <1>3, <1>4, <1>5, <1>6, <1>7, <1>8, <1>9, <1>10, <1>11, <1>12,
     <1>13, <1>14, <1>15, <1>16, <1>17, <1>18, <1>19, <1>20, <1>21, <1>22, <1>23, <1>24,
     <1>25 DEF Next, Step, Choose, List, Terminated

\* The loop keeps every variable in its domain; that the counters are not only
\* integers but naturals takes the exact counts of layer 3 (TypeCorrect).
THEOREM TypesInvariant == Spec => []Types
<1> QED
  BY TypesInit, TypesNext, PTL DEF Spec

-----------------------------------------------------------------------------
(* Layer 2.  job_sem is a mutex.                                             *)

\* sem_init(&header->job_sem, 1, 1) makes a free mutex.
LEMMA MutexInit == Init => JobSemMutex
  BY DEF Init, JobSemMutex

\* A step that touches neither job_sem nor the set of its holders, and moves
\* or retires only a worker outside, keeps the mutex.
LEMMA MutexOutside ==
  ASSUME Types, JobSemMutex, NEW w \in Workers, w \notin inside,
         UNCHANGED <<jobSem, inside>>,
         \A v \in Workers \ {w} : left'[v] = left[v] /\ pc'[v] = pc[v]
  PROVE  JobSemMutex'
  BY DEF Types, JobSemMutex

\* A step of the holder that ends its critical section frees the mutex.
LEMMA MutexRelease ==
  ASSUME Types, JobSemMutex, NEW w \in Workers, w \in inside, Release(w)
  PROVE  JobSemMutex'
  BY DEF Types, JobSemMutex, Release

\* Every wait, post and way out of the loop keeps job_sem a mutex.
LEMMA MutexNext == Types /\ JobSemMutex /\ [Next]_vars => JobSemMutex'
<1> SUFFICES ASSUME Types, JobSemMutex, [Next]_vars PROVE JobSemMutex'
  OBVIOUS
<1>0. CASE UNCHANGED vars
  BY <1>0 DEF vars, sems, JobSemMutex
<1>1. ASSUME NEW w \in Workers, Acquire(w) PROVE JobSemMutex'
  BY <1>1 DEF Acquire, Types, JobSemMutex
<1>2. ASSUME NEW w \in Workers,
             \/ CheckIdle(w) \/ StartStacked(w) \/ TakeNothing(w) \/ TakeJob(w)
             \/ CountStacked(w) \/ PutJob(w) \/ EndJob(w)
      PROVE  JobSemMutex'
  <2>1. w \in inside /\ Release(w)
    BY <1>2 DEF CheckIdle, StartStacked, TakeNothing, TakeJob, CountStacked,
       PutJob, EndJob
  <2> QED
    BY <2>1, MutexRelease
<1>3. ASSUME NEW w \in Workers, NEW p \in Places \ Locking, At(w, p),
             UNCHANGED <<jobSem, inside>>,
             (UNCHANGED left \/ \E why : Leave(w, why)),
             (UNCHANGED pc \/ \E q : Goto(w, q))
      PROVE  JobSemMutex'
  <2>1. w \notin inside
    BY <1>3 DEF At, JobSemMutex
  <2>2. \A v \in Workers \ {w} : left'[v] = left[v] /\ pc'[v] = pc[v]
    BY <1>3 DEF Leave, Goto, Types
  <2> QED
    BY <1>3, <2>1, <2>2, MutexOutside
<1>4. ASSUME NEW w \in Workers, Top(w) \/ PassToken(w) \/ LeaveListing(w)
      PROVE  JobSemMutex'
  <2>1. \E p \in Places \ Locking : At(w, p)
    BY <1>4 DEF Top, PassToken, LeaveListing, Places, Locking, At
  <2>2. /\ UNCHANGED <<jobSem, inside>>
        /\ UNCHANGED left \/ \E why : Leave(w, why)
        /\ UNCHANGED pc \/ \E q : Goto(w, q)
    BY <1>4 DEF Top, PassToken, LeaveListing, sems
  <2> QED
    BY <1>3, <2>1, <2>2
<1>5. ASSUME NEW w \in Workers,
             \/ PopStack(w) \/ TakeToken(w) \/ GiveSlot(w) \/ OpenDir(w)
             \/ OpenFails(w) \/ LstatFails(w) \/ TooDeep(w) \/ ReserveSlot(w)
             \/ PushStack(w) \/ PutToken(w) \/ CloseDir(w)
      PROVE  JobSemMutex'
  <2>1. \E p \in Places \ Locking : At(w, p)
    BY <1>5 DEF PopStack, TakeToken, GiveSlot, OpenDir, OpenFails, LstatFails,
       TooDeep, ReserveSlot, PushStack, PutToken, CloseDir, Entry, Places,
       Locking
  <2>2. /\ UNCHANGED <<jobSem, inside, left>>
        /\ UNCHANGED pc \/ \E q : Goto(w, q)
    BY <1>5 DEF PopStack, TakeToken, GiveSlot, OpenDir, OpenFails, LstatFails,
       TooDeep, ReserveSlot, PushStack, PutToken, CloseDir, sems
  <2> QED
    BY <1>3, <2>1, <2>2
<1>6. ASSUME NEW w \in Workers, Interrupt(w) PROVE JobSemMutex'
  <2>1. /\ w \notin inside /\ UNCHANGED <<jobSem, inside>>
        /\ \A v \in Workers \ {w} : left'[v] = left[v] /\ pc'[v] = pc[v]
    BY <1>6 DEF Interrupt, Asleep, Leave, Types
  <2> QED
    BY <2>1, MutexOutside
<1>7. ASSUME NEW w \in Workers, Sigterm(w) PROVE JobSemMutex'
  BY <1>7 DEF Sigterm, sems, JobSemMutex
<1>8. CASE Quit
  BY <1>8 DEF Quit, sems, JobSemMutex
<1> QED
  BY <1>0, <1>1, <1>2, <1>4, <1>5, <1>6, <1>7, <1>8
  DEF Next, Step, Choose, List, Terminated

\* For every set of workers and every tree, job_sem never admits two workers
\* to a critical section and is never left held, with or without shutdown.
THEOREM MutexInvariant == Spec => []JobSemMutex
<1> QED
  BY MutexInit, MutexNext, TypesInvariant, PTL DEF Spec

-----------------------------------------------------------------------------
(* Layer 3.  The counters and the read tokens, by counting workers per place. *)

N(S) == Cardinality(On(S))

\* The workers at a set of places can be counted.
LEMMA OnFinite == ASSUME NEW S PROVE IsFiniteSet(On(S)) /\ N(S) \in Nat
  BY WorkersAssumption, FS_Subset, FS_CardinalityType DEF On, N

\* What moving one worker does to the number of workers at a set of places.
LEMMA Move ==
  ASSUME Types, NEW w \in Workers, NEW p, Goto(w, p), NEW S
  PROVE  N(S)' = N(S) + (IF p \in S THEN 1 ELSE 0)
                      - (IF pc[w] \in S THEN 1 ELSE 0)
<1>1. On(S)' = IF p \in S THEN On(S) \cup {w} ELSE On(S) \ {w}
  BY DEF Types, Goto, On
<1>2. w \in On(S) <=> pc[w] \in S
  BY DEF On
<1>3. IsFiniteSet(On(S)) /\ N(S) \in Nat
  BY OnFinite
<1>4. N(S)' = Cardinality(On(S)')
  BY DEF N
<1>5. CASE p \in S
  <2>1. Cardinality(On(S) \cup {w}) = IF w \in On(S) THEN N(S) ELSE N(S) + 1
    BY <1>3, FS_AddElement DEF N
  <2> QED
    BY <1>1, <1>2, <1>3, <1>5, <1>4, <2>1
<1>6. CASE p \notin S
  <2>1. Cardinality(On(S) \ {w}) = IF w \in On(S) THEN N(S) - 1 ELSE N(S)
    BY <1>3, FS_RemoveElement DEF N
  <2> QED
    BY <1>1, <1>2, <1>3, <1>6, <1>4, <2>1
<1> QED
  BY <1>5, <1>6

\* Where no worker moves, no count of places changes.
LEMMA StaySame ==
  ASSUME UNCHANGED pc, NEW S PROVE N(S)' = N(S)
  BY DEF N, On

NRun      == N(Running)
NPop      == N({"pop"})
NTake     == N({"take"})
NPutToken == N({"putToken"})

\* The places whose occupants the counting invariants speak of.
LEMMA Moves ==
  ASSUME Types, NEW w \in Workers, NEW p \in Places, Goto(w, p)
  PROVE  /\ NRun' = NRun + (IF p \in Running THEN 1 ELSE 0)
                                     - (IF pc[w] \in Running THEN 1 ELSE 0)
         /\ NPop' = NPop + (IF p = "pop" THEN 1 ELSE 0)
                                     - (IF pc[w] = "pop" THEN 1 ELSE 0)
         /\ NTake' = NTake + (IF p = "take" THEN 1 ELSE 0)
                                       - (IF pc[w] = "take" THEN 1 ELSE 0)
         /\ NPutToken' = NPutToken
                                + (IF p = "putToken" THEN 1 ELSE 0)
                                - (IF pc[w] = "putToken" THEN 1 ELSE 0)
         /\ (pc[w] # "passToken") =>
              (FoundIdle' <=> (FoundIdle \/ p = "passToken"))
<1>1. NRun' = NRun + (IF p \in Running THEN 1 ELSE 0)
                   - (IF pc[w] \in Running THEN 1 ELSE 0)
  BY Move DEF Running, NRun
<1>2. NPop' = NPop + (IF p \in {"pop"} THEN 1 ELSE 0)
                   - (IF pc[w] \in {"pop"} THEN 1 ELSE 0)
  BY Move DEF NPop
<1>3. NTake' = NTake + (IF p \in {"take"} THEN 1 ELSE 0)
                     - (IF pc[w] \in {"take"} THEN 1 ELSE 0)
  BY Move DEF NTake
<1>4. NPutToken' = NPutToken + (IF p \in {"putToken"} THEN 1 ELSE 0)
                             - (IF pc[w] \in {"putToken"} THEN 1 ELSE 0)
  BY Move DEF NPutToken
<1>5. (pc[w] # "passToken") => (FoundIdle' <=> (FoundIdle \/ p = "passToken"))
  BY DEF FoundIdle, Goto, Types
<1> QED
  BY <1>1, <1>2, <1>3, <1>4, <1>5

\* The number of counted stack entries is an integer (never -1: see Counts).
LEMMA CountedLenType ==
  ASSUME Types, NEW w \in Workers
  PROVE  CountedLen(w) \in Int
  BY DEF Types, CountedLen

\* Membership in Counted, spelled out.
LEMMA CountedIs ==
  \A x : x \in Counted <=>
          \E w \in Workers : \E i \in 1..CountedLen(w) : x = <<w, i>>
  BY DEF Counted

\* Counted depends on the counted lengths only.
LEMMA CountedSame ==
  ASSUME \A v \in Workers : CountedLen(v)' = CountedLen(v)
  PROVE  Counted' = Counted
  BY DEF Counted

\* One more counted entry of one worker adds one to Counted.
LEMMA CountedAdd ==
  ASSUME Types, IsFiniteSet(Counted), NEW w \in Workers,
         CountedLen(w) \in Nat, CountedLen(w)' = CountedLen(w) + 1,
         \A v \in Workers \ {w} : CountedLen(v)' = CountedLen(v)
  PROVE  IsFiniteSet(Counted') /\ Cardinality(Counted') = Cardinality(Counted) + 1
<1> DEFINE x == <<w, CountedLen(w) + 1>>
<1>1. Counted' = Counted \cup {x}
  <2>1. ASSUME NEW y \in Counted' PROVE y \in Counted \cup {x}
    <3>1. PICK v \in Workers : \E i \in 1..CountedLen(v)' : y = <<v, i>>
      BY <2>1 DEF Counted
    <3>0. PICK i \in 1..CountedLen(v)' : y = <<v, i>>
      BY <3>1
    <3>2. CASE v # w
      BY <3>0, <3>2, CountedIs
    <3>3. CASE v = w
      BY <3>0, <3>3, CountedIs
    <3> QED BY <3>2, <3>3
  <2>2. ASSUME NEW y \in Counted PROVE y \in Counted'
    <3>1. PICK v \in Workers : \E i \in 1..CountedLen(v) : y = <<v, i>>
      BY <2>2, CountedIs
    <3>0. PICK i \in 1..CountedLen(v) : y = <<v, i>>
      BY <3>1
    <3>2. i \in 1..CountedLen(v)'
      BY <3>0, CountedLenType
    <3> QED BY <3>0, <3>2 DEF Counted
  <2>3. x \in Counted'
    <3>1. CountedLen(w) + 1 \in 1..CountedLen(w)'
      OBVIOUS
    <3> QED BY <3>1 DEF Counted
  <2> QED BY <2>1, <2>2, <2>3
<1>2. x \notin Counted
  BY CountedIs
<1> QED
  BY <1>1, <1>2, FS_AddElement

\* One counted entry less of one worker takes one from Counted.
LEMMA CountedRemove ==
  ASSUME Types, IsFiniteSet(Counted), NEW w \in Workers,
         CountedLen(w) \in Nat \ {0}, CountedLen(w)' = CountedLen(w) - 1,
         \A v \in Workers \ {w} : CountedLen(v)' = CountedLen(v)
  PROVE  IsFiniteSet(Counted') /\ Cardinality(Counted') = Cardinality(Counted) - 1
<1> DEFINE x == <<w, CountedLen(w)>>
<1>1. Counted' = Counted \ {x}
  <2>1. ASSUME NEW y \in Counted' PROVE y \in Counted \ {x}
    <3>1. PICK v \in Workers : \E i \in 1..CountedLen(v)' : y = <<v, i>>
      BY <2>1 DEF Counted
    <3>0. PICK i \in 1..CountedLen(v)' : y = <<v, i>>
      BY <3>1
    <3>2. CASE v # w
      BY <3>0, <3>2, CountedIs
    <3>3. CASE v = w
      BY <3>0, <3>3, CountedIs
    <3> QED BY <3>2, <3>3
  <2>2. ASSUME NEW y \in Counted, y # x PROVE y \in Counted'
    <3>1. PICK v \in Workers : \E i \in 1..CountedLen(v) : y = <<v, i>>
      BY <2>2, CountedIs
    <3>0. PICK i \in 1..CountedLen(v) : y = <<v, i>>
      BY <3>1
    <3>2. i \in 1..CountedLen(v)'
      BY <2>2, <3>0, CountedLenType
    <3> QED BY <3>0, <3>2 DEF Counted
  <2> QED BY <2>1, <2>2
<1>2. x \in Counted
  BY CountedIs
<1> QED
  BY <1>1, <1>2, FS_RemoveElement

Counts ==
  /\ IsFiniteSet(Counted)
  /\ \A w \in Workers : CountedLen(w) \in Nat
  /\ jobsRunning = NRun
  /\ jobsWaiting = (queueHead - queueTail) + Cardinality(Counted) + NPop
  /\ queueTail <= queueHead
  /\ FoundIdle => jobsWaiting = 0 /\ jobsRunning = 0
  /\ ~FoundIdle => queueReadSem + NTake + NPutToken
                     = queueHead - queueTail

\* The values the arithmetic of the steps speaks of.
LEMMA CountTypes ==
  ASSUME Types, Counts
  PROVE  /\ NRun \in Nat /\ NPop \in Nat /\ NTake \in Nat
         /\ NPutToken \in Nat /\ Cardinality(Counted) \in Nat
         /\ jobsWaiting \in Int /\ jobsRunning \in Int /\ queueReadSem \in Nat
         /\ queueHead \in Nat /\ queueTail \in Nat
         /\ \A w \in Workers : /\ pc[w] \in Running => NRun > 0
                               /\ pc[w] = "pop" => NPop > 0
                               /\ pc[w] = "take" => NTake > 0
<1>1. /\ NRun \in Nat /\ NPop \in Nat /\ NTake \in Nat
      /\ NPutToken \in Nat
  BY OnFinite DEF NRun, NPop, NTake, NPutToken
<1>2. Cardinality(Counted) \in Nat
  BY FS_CardinalityType DEF Counts
<1>3. ASSUME NEW w \in Workers, NEW S, pc[w] \in S PROVE N(S) > 0
  <2>1. w \in On(S) /\ IsFiniteSet(On(S)) /\ N(S) \in Nat
    BY <1>3, OnFinite DEF On
  <2>2. N(S) # 0
    BY <2>1, FS_EmptySet DEF N
  <2> QED
    BY <2>1, <2>2
<1>4. ASSUME NEW w \in Workers
      PROVE  /\ pc[w] \in Running => NRun > 0
             /\ pc[w] \in {"pop"} => NPop > 0
             /\ pc[w] \in {"take"} => NTake > 0
  BY <1>3 DEF NRun, NPop, NTake
<1>5. /\ jobsWaiting \in Int /\ jobsRunning \in Int /\ queueReadSem \in Nat
      /\ queueHead \in Nat /\ queueTail \in Nat
  BY DEF Types
<1> QED
  BY <1>1, <1>2, <1>4, <1>5

\* Once a worker has found the pool idle nobody has a job and none is left.
LEMMA NothingLeft ==
  ASSUME Types, Counts, FoundIdle
  PROVE  /\ queueHead = queueTail
         /\ \A w \in Workers : pc[w] \notin Running \cup {"pop"}
         /\ \A w \in Workers : Len(stack[w]) = 0
<1>1. NRun = 0 /\ jobsWaiting = 0
  BY DEF Counts
<1>2. queueHead = queueTail /\ Cardinality(Counted) = 0 /\ NPop = 0
  BY <1>1, CountTypes DEF Counts
<1>3. \A w \in Workers : pc[w] \notin Running \cup {"pop"}
  <2>1. \A w \in Workers : pc[w] \notin Running
    BY <1>1, CountTypes
  <2>2. \A w \in Workers : pc[w] # "pop"
    BY <1>2, CountTypes
  <2> QED
    BY <2>1, <2>2
<1>4. Counted = {}
  BY <1>2, FS_EmptySet DEF Counts
<1>5. ASSUME NEW w \in Workers PROVE Len(stack[w]) = 0
  <2>1. CountedLen(w) = Len(stack[w]) /\ Len(stack[w]) \in Nat
    BY <1>3 DEF CountedLen, Running, Types
  <2>2. ASSUME Len(stack[w]) # 0 PROVE FALSE
    <3>1. 1 \in 1..CountedLen(w)
      BY <2>1, <2>2
    <3> QED
      BY <3>1, <1>4, CountedIs
  <2> QED
    BY <2>2
<1> QED
  BY <1>2, <1>3, <1>5

\* The counters are exact when the root is the only job.
LEMMA CountsInit == Init => Counts
<1> SUFFICES ASSUME Init PROVE Counts
  OBVIOUS
<1>1. Types
  BY TypesInit
<1>2. \A w \in Workers : CountedLen(w) = 0
  BY DEF Init, CountedLen
<1>3. Counted = {}
  BY <1>2, CountedIs
<1>4. ASSUME NEW S, "top" \notin S PROVE N(S) = 0
  <2>1. On(S) = {}
    BY <1>4 DEF On, Init
  <2> QED
    BY <2>1, FS_EmptySet DEF N
<1>5. /\ NRun = 0 /\ NPop = 0 /\ NTake = 0
      /\ NPutToken = 0
  BY <1>4 DEF Running, NRun, NPop, NTake, NPutToken
<1>6. ~FoundIdle
  BY DEF FoundIdle, Init
<1>7. /\ jobsWaiting = 1 /\ jobsRunning = 0 /\ queueHead = 1 /\ queueTail = 0
      /\ queueReadSem = 1
  BY DEF Init
<1> QED
  BY <1>2, <1>3, <1>5, <1>6, <1>7, FS_EmptySet DEF Counts

\* Steps that leave the counters, the queue, the stacks and pc alone.
LEMMA CountsFrame ==
  ASSUME Types, Counts,
         UNCHANGED <<counts, queueHead, queueTail, pc, stack>>,
         UNCHANGED queueReadSem \/ FoundIdle
  PROVE  Counts'
<1>1. \A w \in Workers : CountedLen(w)' = CountedLen(w)
  BY DEF CountedLen
<1>2. Counted' = Counted
  BY <1>1, CountedSame
<1>3. FoundIdle' <=> FoundIdle
  BY DEF FoundIdle
<1>4. /\ NRun' = NRun /\ NPop' = NPop
      /\ NTake' = NTake /\ NPutToken' = NPutToken
  BY StaySame DEF NRun, NPop, NTake, NPutToken
<1> QED
  BY <1>1, <1>2, <1>3, <1>4 DEF Counts, counts

\* Moving a worker between places other than "push" counts no stack entry.
LEMMA CountedGoto ==
  ASSUME Types, NEW w \in Workers, NEW p, Goto(w, p), UNCHANGED stack,
         pc[w] # "push", p # "push"
  PROVE  /\ Counted' = Counted
         /\ \A v \in Workers : CountedLen(v)' = CountedLen(v)
<1>1. \A v \in Workers : CountedLen(v)' = CountedLen(v)
  BY DEF CountedLen, Types, Goto
<1> QED
  BY <1>1, CountedSame

\* Every operation keeps the counters and the read tokens exact.
LEMMA CountsNext == Types /\ JobSemMutex /\ Counts /\ [Next]_vars => Counts'
<1> SUFFICES ASSUME Types, JobSemMutex, Counts, [Next]_vars PROVE Counts'
  OBVIOUS
<1> USE DEF At
<1>0. CASE UNCHANGED vars
  BY <1>0, CountsFrame DEF vars, sems, queue, local
<1>1. ASSUME NEW w \in Workers,
             \/ Acquire(w) \/ PassToken(w) \/ LstatFails(w) \/ TooDeep(w)
             \/ LeaveListing(w) \/ Sigterm(w) \/ Interrupt(w)
      PROVE  Counts'
  <2>1. /\ UNCHANGED <<counts, queueHead, queueTail, pc, stack>>
        /\ UNCHANGED queueReadSem \/ FoundIdle
    BY <1>1 DEF Acquire, PassToken, LstatFails, TooDeep, LeaveListing, Sigterm,
       Interrupt, sems, queue, local, FoundIdle
  <2> QED
    BY <2>1, CountsFrame
<1>2. CASE Quit
  BY <1>2, CountsFrame DEF Quit, sems, queue, local
\* Moves between places that count alike.
<1>3. ASSUME NEW w \in Workers, NEW p \in Places, NEW q \in Places,
             At(w, q), Goto(w, p),
             UNCHANGED <<counts, queueHead, queueTail, stack, queueReadSem>>,
             \A x \in {p, q} : x \notin {"pop", "take", "push", "putToken", "passToken"},
             p \in Running <=> q \in Running
      PROVE  Counts'
  <2>1. /\ NRun' = NRun /\ NPop' = NPop
        /\ NTake' = NTake /\ NPutToken' = NPutToken
        /\ FoundIdle' <=> FoundIdle
    <3>1. /\ p \notin {"pop", "take", "putToken", "passToken"}
          /\ pc[w] \notin {"pop", "take", "putToken", "passToken"}
          /\ p \in Running <=> pc[w] \in Running
      BY <1>3
    <3> QED
      BY <1>3, <3>1, Moves, CountTypes
  <2>2. /\ Counted' = Counted
        /\ \A v \in Workers : CountedLen(v)' = CountedLen(v)
    BY <1>3, CountedGoto
  <2> QED
    BY <1>3, <2>1, <2>2 DEF Counts, counts
<1>4. ASSUME NEW w \in Workers,
             \/ GiveSlot(w) \/ OpenDir(w) \/ OpenFails(w) \/ ReserveSlot(w)
             \/ CloseDir(w)
      PROVE  Counts'
  <2>1. \E p, q \in Places :
          /\ At(w, q) /\ Goto(w, p)
          /\ \A x \in {p, q} : x \notin {"pop", "take", "push", "putToken", "passToken"}
          /\ p \in Running <=> q \in Running
    BY <1>4 DEF GiveSlot, OpenDir, OpenFails, ReserveSlot, CloseDir, Entry,
       Places, Locking, Running
  <2>2. UNCHANGED <<counts, queueHead, queueTail, stack, queueReadSem>>
    BY <1>4 DEF GiveSlot, OpenDir, OpenFails, ReserveSlot, CloseDir, sems,
       queue, local
  <2> QED
    BY <1>3, <2>1, <2>2
<1>5. ASSUME NEW w \in Workers, Top(w) PROVE Counts'
  <2>1. CASE UNCHANGED pc
    BY <1>5, <2>1, CountsFrame DEF Top, sems, queue, local
  <2>2. CASE Goto(w, "idle1")
    BY <1>3, <1>5, <2>2 DEF Top, sems, queue, local, Places, Locking, Running
  <2> QED
    BY <1>5, <2>1, <2>2 DEF Top
<1>6. ASSUME NEW w \in Workers, CheckIdle(w) PROVE Counts'
  <2>1. CASE ~Idle(w)
    <3>1. \E p, q \in Places :
            /\ At(w, q) /\ Goto(w, p)
            /\ \A x \in {p, q} : x \notin {"pop", "take", "push", "putToken", "passToken"}
            /\ p \in Running <=> q \in Running
      BY <1>6, <2>1 DEF CheckIdle, Places, Locking, Running
    <3>2. UNCHANGED <<counts, queueHead, queueTail, stack, queueReadSem>>
      BY <1>6 DEF CheckIdle, queue, local
    <3> QED
      BY <1>3, <3>1, <3>2
  <2>2. CASE Idle(w)
    <3>1. /\ Goto(w, "passToken") /\ pc[w] \in {"idle1", "idle2"}
          /\ "passToken" \in Places
          /\ UNCHANGED <<counts, queueHead, queueTail, stack>>
          /\ jobsWaiting = 0 /\ jobsRunning = 0
      BY <1>6, <2>2 DEF CheckIdle, Idle, queue, local, Places
    <3> QED
      <4>1. /\ NRun' = NRun /\ NPop' = NPop /\ NTake' = NTake
            /\ NPutToken' = NPutToken /\ FoundIdle'
        BY <3>1, Moves, CountTypes DEF Running
      <4>2. /\ Counted' = Counted
            /\ \A v \in Workers : CountedLen(v)' = CountedLen(v)
        BY <3>1, CountedGoto
      <4> QED
        BY <3>1, <4>1, <4>2 DEF Counts, counts
  <2> QED
    BY <2>1, <2>2
<1>7. ASSUME NEW w \in Workers, PopStack(w) PROVE Counts'
  <2>1. /\ Goto(w, "pop") /\ pc[w] = "pick" /\ "pop" \in Places
        /\ UNCHANGED <<counts, queueHead, queueTail, queueReadSem>>
    BY <1>7 DEF PopStack, queue, sems, Places, Locking
  <2>2. /\ CountedLen(w) \in Nat \ {0} /\ CountedLen(w)' = CountedLen(w) - 1
        /\ \A v \in Workers \ {w} : CountedLen(v)' = CountedLen(v)
    <3>1. stack[w] \in Seq(Dirs) /\ stack[w] # << >>
      BY <1>7 DEF PopStack, Types
    <3>2. Len(SubSeq(stack[w], 1, Len(stack[w]) - 1)) = Len(stack[w]) - 1
      BY <3>1
    <3>3. stack'[w] = SubSeq(stack[w], 1, Len(stack[w]) - 1)
          /\ \A v \in Workers \ {w} : stack'[v] = stack[v] /\ pc'[v] = pc[v]
      BY <1>7 DEF PopStack, Types, Goto
    <3>4. pc'[w] = "pop"
      BY <2>1 DEF Types, Goto
    <3>5. Len(stack[w]) \in Nat \ {0}
      BY <3>1
    <3>6. CountedLen(w) = Len(stack[w]) /\ CountedLen(w)' = Len(stack'[w])
      BY <2>1, <3>4, <3>5, <3>2, <3>3 DEF CountedLen
    <3>7. \A v \in Workers \ {w} : CountedLen(v)' = CountedLen(v)
      BY <3>3 DEF CountedLen
    <3> QED
      BY <3>2, <3>3, <3>5, <3>6, <3>7
  <2>3. /\ IsFiniteSet(Counted')
        /\ Cardinality(Counted') = Cardinality(Counted) - 1
    BY <2>2, CountedRemove DEF Counts
  <2>4. \A v \in Workers : CountedLen(v)' \in Nat
    BY <2>2 DEF Counts
  <2>7. /\ NRun' = NRun /\ NPop' = NPop + 1
        /\ NTake' = NTake
        /\ NPutToken' = NPutToken
        /\ FoundIdle' <=> FoundIdle
    BY <2>1, Moves, CountTypes DEF Running
  <2> QED
    BY <2>1, <2>3, <2>4, <2>7, CountTypes DEF Counts, counts
<1>8. ASSUME NEW w \in Workers, StartStacked(w) PROVE Counts'
  <2>1. /\ Goto(w, "open") /\ pc[w] = "pop" /\ "open" \in Places
        /\ jobsRunning' = jobsRunning + 1 /\ jobsWaiting' = jobsWaiting - 1
        /\ UNCHANGED <<queueHead, queueTail, queueReadSem, stack>>
    BY <1>8 DEF StartStacked, queue, local, Places
  <2>2. ~FoundIdle
    BY <2>1, NothingLeft DEF Running
  <2>7. /\ NRun' = NRun + 1 /\ NPop' = NPop - 1
        /\ NTake' = NTake
        /\ NPutToken' = NPutToken
        /\ FoundIdle' <=> FoundIdle
    BY <2>1, Moves, CountTypes DEF Running
  <2>8. /\ Counted' = Counted
        /\ \A v \in Workers : CountedLen(v)' = CountedLen(v)
    BY <2>1, CountedGoto
  <2> QED
    BY <2>1, <2>2, <2>7, <2>8, CountTypes DEF Counts
<1>9. ASSUME NEW w \in Workers, TakeToken(w) PROVE Counts'
  <2>1. /\ Goto(w, "take") /\ pc[w] = "pick" /\ "take" \in Places
        /\ queueReadSem' = queueReadSem - 1
        /\ UNCHANGED <<counts, queueHead, queueTail, stack>>
    BY <1>9 DEF TakeToken, queue, local, Places, Locking
  <2>7. /\ NRun' = NRun /\ NPop' = NPop
        /\ NTake' = NTake + 1
        /\ NPutToken' = NPutToken
        /\ FoundIdle' <=> FoundIdle
    BY <2>1, Moves, CountTypes DEF Running
  <2>8. /\ Counted' = Counted
        /\ \A v \in Workers : CountedLen(v)' = CountedLen(v)
    BY <2>1, CountedGoto
  <2> QED
    BY <2>1, <2>7, <2>8, CountTypes DEF Counts, counts
<1>10. ASSUME NEW w \in Workers, TakeNothing(w) PROVE Counts'
  <2>1. /\ Goto(w, "top") /\ pc[w] = "take" /\ "top" \in Places
        /\ jobsWaiting = 0
        /\ UNCHANGED <<counts, queueHead, queueTail, queueReadSem, stack>>
    BY <1>10 DEF TakeNothing, queue, local, Places
  <2>2. NTake > 0
    BY <2>1, CountTypes
  <2>3. FoundIdle
    BY <2>1, <2>2, CountTypes DEF Counts
  <2> QED
    <3>1. /\ NRun' = NRun /\ NPop' = NPop /\ FoundIdle'
      BY <2>1, <2>3, Moves, CountTypes DEF Running
    <3>2. /\ Counted' = Counted
          /\ \A v \in Workers : CountedLen(v)' = CountedLen(v)
      BY <2>1, CountedGoto
    <3> QED
      BY <2>1, <2>3, <3>1, <3>2 DEF Counts, counts
<1>11. ASSUME NEW w \in Workers, TakeJob(w) PROVE Counts'
  <2>1. /\ Goto(w, "giveSlot") /\ pc[w] = "take" /\ "giveSlot" \in Places
        /\ queueTail' = queueTail + 1
        /\ jobsRunning' = jobsRunning + 1 /\ jobsWaiting' = jobsWaiting - 1
        /\ UNCHANGED <<queueHead, queueReadSem, stack>>
    BY <1>11 DEF TakeJob, Places
  <2>2. ~FoundIdle
    BY <1>11 DEF TakeJob, Counts
  <2>3. NTake > 0
    BY <2>1, CountTypes
  <2>7. /\ NRun' = NRun + 1 /\ NPop' = NPop
        /\ NTake' = NTake - 1
        /\ NPutToken' = NPutToken
        /\ FoundIdle' <=> FoundIdle
    BY <2>1, Moves, CountTypes DEF Running
  <2>8. /\ Counted' = Counted
        /\ \A v \in Workers : CountedLen(v)' = CountedLen(v)
    BY <2>1, CountedGoto
  <2> QED
    BY <2>1, <2>2, <2>3, <2>7, <2>8, CountTypes DEF Counts
<1>12. ASSUME NEW w \in Workers, PushStack(w) PROVE Counts'
  <2>1. /\ Goto(w, "push") /\ pc[w] = "read" /\ "push" \in Places
        /\ UNCHANGED <<counts, queueHead, queueTail, queueReadSem>>
    BY <1>12 DEF PushStack, Entry, queue, sems, Places, Locking
  <2>2. \A v \in Workers : CountedLen(v)' = CountedLen(v)
    <3>1. PICK d \in Dirs : stack' = [stack EXCEPT ![w] = Append(@, d)]
      BY <1>12 DEF PushStack
    <3>2. stack[w] \in Seq(Dirs) /\ Len(Append(stack[w], d)) = Len(stack[w]) + 1
      BY DEF Types
    <3>3. stack'[w] = Append(stack[w], d) /\ pc'[w] = "push"
          /\ \A v \in Workers \ {w} : stack'[v] = stack[v] /\ pc'[v] = pc[v]
      BY <2>1, <3>1 DEF Types, Goto
    <3>4. Len(stack[w]) \in Nat
      BY DEF Types
    <3>5. CountedLen(w) = Len(stack[w]) /\ CountedLen(w)' = Len(stack'[w]) - 1
      BY <2>1, <3>3, <3>4 DEF CountedLen
    <3>6. \A v \in Workers \ {w} : CountedLen(v)' = CountedLen(v)
      BY <3>3 DEF CountedLen
    <3> QED
      BY <3>2, <3>3, <3>4, <3>5, <3>6
  <2>7. /\ NRun' = NRun /\ NPop' = NPop
        /\ NTake' = NTake
        /\ NPutToken' = NPutToken
        /\ FoundIdle' <=> FoundIdle
    BY <2>1, Moves, CountTypes DEF Running
  <2>3. Counted' = Counted
    BY <2>2, CountedSame
  <2> QED
    BY <2>1, <2>2, <2>3, <2>7, CountTypes DEF Counts, counts
<1>13. ASSUME NEW w \in Workers, CountStacked(w) PROVE Counts'
  <2>1. /\ Goto(w, "read") /\ pc[w] = "push" /\ "read" \in Places
        /\ jobsWaiting' = jobsWaiting + 1
        /\ UNCHANGED <<jobsRunning, queueHead, queueTail, queueReadSem, stack>>
    BY <1>13 DEF CountStacked, queue, local, Places
  <2>2. /\ CountedLen(w) \in Nat /\ CountedLen(w)' = CountedLen(w) + 1
        /\ \A v \in Workers \ {w} : CountedLen(v)' = CountedLen(v)
    BY <2>1 DEF CountedLen, Types, Goto, Counts
  <2>3. /\ IsFiniteSet(Counted')
        /\ Cardinality(Counted') = Cardinality(Counted) + 1
    BY <2>2, CountedAdd DEF Counts
  <2>4. \A v \in Workers : CountedLen(v)' \in Nat
    BY <2>2 DEF Counts
  <2>5. ~FoundIdle
    BY <2>1, NothingLeft DEF Running
  <2>7. /\ NRun' = NRun /\ NPop' = NPop
        /\ NTake' = NTake
        /\ NPutToken' = NPutToken
        /\ FoundIdle' <=> FoundIdle
    BY <2>1, Moves, CountTypes DEF Running
  <2> QED
    BY <2>1, <2>3, <2>4, <2>5, <2>7, CountTypes DEF Counts
<1>14. ASSUME NEW w \in Workers, PutJob(w) PROVE Counts'
  <2>1. /\ Goto(w, "putToken") /\ pc[w] = "put" /\ "putToken" \in Places
        /\ queueHead' = queueHead + 1 /\ jobsWaiting' = jobsWaiting + 1
        /\ UNCHANGED <<jobsRunning, queueTail, queueReadSem, stack>>
    BY <1>14 DEF PutJob, local, Places
  <2>2. ~FoundIdle
    BY <2>1, NothingLeft DEF Running
  <2>7. /\ NRun' = NRun /\ NPop' = NPop
        /\ NTake' = NTake
        /\ NPutToken' = NPutToken + 1
        /\ FoundIdle' <=> FoundIdle
    BY <2>1, Moves, CountTypes DEF Running
  <2>8. /\ Counted' = Counted
        /\ \A v \in Workers : CountedLen(v)' = CountedLen(v)
    BY <2>1, CountedGoto
  <2> QED
    BY <2>1, <2>2, <2>7, <2>8, CountTypes DEF Counts
<1>15. ASSUME NEW w \in Workers, PutToken(w) PROVE Counts'
  <2>1. /\ Goto(w, "read") /\ pc[w] = "putToken" /\ "read" \in Places
        /\ queueReadSem' = queueReadSem + 1
        /\ UNCHANGED <<counts, queueHead, queueTail, stack>>
    BY <1>15 DEF PutToken, queue, local, Places
  <2>7. /\ NRun' = NRun /\ NPop' = NPop
        /\ NTake' = NTake
        /\ NPutToken' = NPutToken - 1
        /\ FoundIdle' <=> FoundIdle
    BY <2>1, Moves, CountTypes DEF Running
  <2>8. /\ Counted' = Counted
        /\ \A v \in Workers : CountedLen(v)' = CountedLen(v)
    BY <2>1, CountedGoto
  <2> QED
    BY <2>1, <2>7, <2>8, CountTypes DEF Counts, counts
<1>16. ASSUME NEW w \in Workers, EndJob(w) PROVE Counts'
  <2>1. /\ Goto(w, "top") /\ pc[w] \in {"done", "fail"} /\ "top" \in Places
        /\ jobsRunning' = jobsRunning - 1
        /\ UNCHANGED <<jobsWaiting, queueHead, queueTail, queueReadSem, stack>>
    BY <1>16 DEF EndJob, queue, local, Places
  <2>2. ~FoundIdle
    BY <2>1, NothingLeft DEF Running
  <2>7. /\ NRun' = NRun - 1 /\ NPop' = NPop
        /\ NTake' = NTake
        /\ NPutToken' = NPutToken
        /\ FoundIdle' <=> FoundIdle
    BY <2>1, Moves, CountTypes DEF Running
  <2>8. /\ Counted' = Counted
        /\ \A v \in Workers : CountedLen(v)' = CountedLen(v)
    BY <2>1, CountedGoto
  <2> QED
    BY <2>1, <2>2, <2>7, <2>8, CountTypes DEF Counts
<1> QED
  BY <1>0, <1>1, <1>2, <1>4, <1>5, <1>6, <1>7, <1>8, <1>9, <1>10, <1>11, <1>12,
     <1>13, <1>14, <1>15, <1>16
  DEF Next, Step, Choose, List, Terminated

\* The counters that the workers read to decide whether to leave are exact.
THEOREM CountsInvariant == Spec => []Counts
<1> QED
  BY CountsInit, CountsNext, TypesInvariant, MutexInvariant, PTL DEF Spec

\* jobs_running and jobs_waiting are exact (CountersExact), for every number of
\* workers, in and out of a shutdown.
THEOREM CountersInvariant == Spec => []CountersExact
<1>1. Counts => CountersExact
  BY DEF Counts, CountersExact, NRun, NPop, N
<1> QED
  BY <1>1, CountsInvariant, PTL

\* Every variable keeps its type; the counters never run below zero.
THEOREM TypeCorrect == Spec => []TypeOK
<1>1. Types /\ Counts => TypeOK
  BY SMTT(30), CountTypes DEF Types, Counts, TypeOK
<1> QED
  BY <1>1, TypesInvariant, CountsInvariant, PTL

\* A worker that holds a read token and sees jobs_waiting # 0 finds a job.
THEOREM TakeInvariant == Spec => []TakeFindsJob
<1>1. ASSUME Types, Counts PROVE TakeFindsJob
  <2> SUFFICES ASSUME NEW w \in inside, pc[w] = "take", jobsWaiting # 0
               PROVE  queueTail < queueHead
    BY DEF TakeFindsJob
  <2>1. w \in Workers /\ ~FoundIdle
    BY <1>1 DEF Types, Counts
  <2>2. /\ NTake > 0 /\ NTake \in Nat /\ NPutToken \in Nat
        /\ queueReadSem \in Nat /\ queueHead \in Nat /\ queueTail \in Nat
    BY <1>1, <2>1, CountTypes
  <2> QED
    BY <1>1, <2>1, <2>2 DEF Counts
<1> QED
  BY <1>1, TypesInvariant, CountsInvariant, PTL

-----------------------------------------------------------------------------
(* Layer 4.  The slots of the ring.                                          *)

NReserved == Cardinality(Reserved)
NGive     == N({"giveSlot"})

\* The counts the slot equation adds up are naturals.
LEMMA SlotTypes ==
  ASSUME Types
  PROVE  /\ IsFiniteSet(Reserved) /\ NReserved \in Nat /\ NGive \in Nat
         /\ QueueLen \in Nat /\ queueWriteSem \in Nat
         /\ queueHead \in Nat /\ queueTail \in Nat
         /\ \A w \in Workers : /\ w \in Reserved => NReserved > 0
                               /\ pc[w] = "giveSlot" => NGive > 0
<1>1. IsFiniteSet(Reserved) /\ NReserved \in Nat
  BY WorkersAssumption, FS_Subset, FS_CardinalityType DEF Reserved, On, NReserved
<1>2. ASSUME NEW w \in Reserved PROVE NReserved > 0
  BY <1>1, FS_EmptySet DEF NReserved
<1>3. NGive \in Nat
  BY OnFinite DEF NGive
<1>4. ASSUME NEW w \in Workers, pc[w] = "giveSlot" PROVE NGive > 0
  <2>1. w \in On({"giveSlot"}) /\ IsFiniteSet(On({"giveSlot"}))
    BY <1>4, OnFinite DEF On
  <2> QED
    BY <1>3, <2>1, FS_EmptySet DEF NGive, N
<1> QED
  BY <1>1, <1>2, <1>3, <1>4, QueueAssumption DEF Types

\* The root takes one slot, and queue_write_sem has the others.
LEMMA SlotsInit == Init => SlotsAccounted
<1> SUFFICES ASSUME Init PROVE SlotsAccounted
  OBVIOUS
<1>1. Reserved = {} /\ On({"giveSlot"}) = {}
  BY DEF Init, Reserved, On
<1>2. Cardinality(Reserved) = 0 /\ Cardinality(On({"giveSlot"})) = 0
  BY <1>1, FS_EmptySet
<1>3. queueHead = 1 /\ queueTail = 0 /\ queueWriteSem = QueueLen - 1
  BY DEF Init
<1> QED
  BY <1>2, <1>3, QueueAssumption DEF SlotsAccounted

\* Steps that neither reserve, write, free nor return a slot.
LEMMA SlotsFrame ==
  ASSUME Types, SlotsAccounted,
         UNCHANGED <<queueWriteSem, queueHead, queueTail>>,
         NEW w \in Workers,
         \A v \in Workers \ {w} : left'[v] = left[v] /\ pc'[v] = pc[v],
         pc[w] = pc'[w] \/ {pc[w], pc'[w]} \cap {"put", "giveSlot"} = {},
         left[w] = left'[w] \/ pc[w] # "put"
  PROVE  SlotsAccounted'
<1>1. Reserved' = Reserved
  BY DEF Reserved, On
<1>2. On({"giveSlot"})' = On({"giveSlot"})
  BY DEF On
<1> QED
  BY <1>1, <1>2 DEF SlotsAccounted

\* Reserving, writing, reading and returning a slot keep the sum.
LEMMA SlotsNext ==
  Types /\ JobSemMutex /\ SlotsAccounted /\ [Next]_vars => SlotsAccounted'
<1> SUFFICES ASSUME Types, JobSemMutex, SlotsAccounted, [Next]_vars
             PROVE  SlotsAccounted'
  OBVIOUS
<1> USE DEF At
<1>0. CASE UNCHANGED vars \/ Quit
  BY <1>0 DEF vars, Quit, sems, queue, SlotsAccounted, Reserved, On
<1>1. ASSUME NEW w \in Workers,
             \/ CheckIdle(w) \/ PopStack(w) \/ StartStacked(w) \/ TakeToken(w)
             \/ TakeNothing(w) \/ OpenDir(w) \/ OpenFails(w) \/ PushStack(w)
             \/ CountStacked(w) \/ PutToken(w) \/ CloseDir(w) \/ EndJob(w)
      PROVE  SlotsAccounted'
  <2>1. /\ UNCHANGED <<queueWriteSem, queueHead, queueTail, left>>
        /\ \E p \in Places \ {"put", "giveSlot"} : Goto(w, p)
        /\ pc[w] \notin {"put", "giveSlot"}
    BY <1>1 DEF CheckIdle, PopStack, StartStacked, TakeToken, TakeNothing,
       OpenDir, OpenFails, PushStack, CountStacked, PutToken, CloseDir, EndJob,
       Entry, Places, Locking, sems, queue
  <2>2. /\ \A v \in Workers \ {w} : left'[v] = left[v] /\ pc'[v] = pc[v]
        /\ pc'[w] \notin {"put", "giveSlot"}
    BY <2>1 DEF Goto, Types
  <2> QED
    BY <2>1, <2>2, SlotsFrame
<1>2. ASSUME NEW w \in Workers,
             \/ Acquire(w) \/ Top(w) \/ PassToken(w) \/ LstatFails(w)
             \/ TooDeep(w) \/ LeaveListing(w) \/ Sigterm(w)
      PROVE  SlotsAccounted'
  <2>1. /\ UNCHANGED <<queueWriteSem, queueHead, queueTail>>
        /\ \/ UNCHANGED <<pc, left>>
           \/ /\ pc[w] \notin {"put", "giveSlot"}
              /\ UNCHANGED pc \/ Goto(w, "idle1")
              /\ UNCHANGED left \/ \E why : Leave(w, why)
    BY <1>2 DEF Acquire, Top, PassToken, LstatFails, TooDeep, LeaveListing,
       Sigterm, sems, queue
  <2>2. /\ \A v \in Workers \ {w} : left'[v] = left[v] /\ pc'[v] = pc[v]
        /\ pc[w] = pc'[w] \/ {pc[w], pc'[w]} \cap {"put", "giveSlot"} = {}
        /\ left[w] = left'[w] \/ pc[w] # "put"
    BY <2>1 DEF Goto, Leave, Types
  <2> QED
    BY <2>1, <2>2, SlotsFrame
<1>3. ASSUME NEW w \in Workers, TakeJob(w) PROVE SlotsAccounted'
  <2>1. /\ Goto(w, "giveSlot") /\ pc[w] = "take" /\ queueTail' = queueTail + 1
        /\ UNCHANGED <<queueWriteSem, queueHead, left>>
    BY <1>3 DEF TakeJob
  <2>2. Reserved' = Reserved
    BY <2>1 DEF Reserved, On, Goto, Types
  <2>3. NGive' = NGive + (IF "giveSlot" \in {"giveSlot"} THEN 1 ELSE 0)
                       - (IF pc[w] \in {"giveSlot"} THEN 1 ELSE 0)
    BY <2>1, Move DEF NGive
  <2> QED
    BY <2>1, <2>2, <2>3, SlotTypes DEF SlotsAccounted, NGive, N, NReserved
<1>4. ASSUME NEW w \in Workers, GiveSlot(w) PROVE SlotsAccounted'
  <2>1. /\ Goto(w, "open") /\ pc[w] = "giveSlot"
        /\ queueWriteSem' = queueWriteSem + 1
        /\ UNCHANGED <<queueTail, queueHead, left>>
    BY <1>4 DEF GiveSlot, queue
  <2>2. Reserved' = Reserved
    BY <2>1 DEF Reserved, On, Goto, Types
  <2>3. NGive' = NGive + (IF "open" \in {"giveSlot"} THEN 1 ELSE 0)
                       - (IF pc[w] \in {"giveSlot"} THEN 1 ELSE 0)
    BY <2>1, Move DEF NGive
  <2> QED
    BY <2>1, <2>2, <2>3, SlotTypes DEF SlotsAccounted, NGive, N, NReserved
<1>5. ASSUME NEW w \in Workers, ReserveSlot(w) PROVE SlotsAccounted'
  <2>1. /\ Goto(w, "put") /\ pc[w] = "read" /\ left[w] = "no"
        /\ queueWriteSem' = queueWriteSem - 1
        /\ UNCHANGED <<queueTail, queueHead, left>>
    BY <1>5 DEF ReserveSlot, Entry, queue
  <2>2. Reserved' = Reserved \cup {w} /\ w \notin Reserved
    BY <2>1 DEF Reserved, On, Goto, Types
  <2>3. NReserved' = NReserved + 1
    BY <2>2, SlotTypes, FS_AddElement DEF NReserved
  <2>4. NGive' = NGive + (IF "put" \in {"giveSlot"} THEN 1 ELSE 0)
                       - (IF pc[w] \in {"giveSlot"} THEN 1 ELSE 0)
    BY <2>1, Move DEF NGive
  <2> QED
    BY <2>1, <2>3, <2>4, SlotTypes DEF SlotsAccounted, NGive, N, NReserved
<1>6. ASSUME NEW w \in Workers, PutJob(w) PROVE SlotsAccounted'
  <2>1. /\ Goto(w, "putToken") /\ pc[w] = "put" /\ left[w] = "no"
        /\ queueHead' = queueHead + 1
        /\ UNCHANGED <<queueTail, queueWriteSem, left>>
    BY <1>6 DEF PutJob
  <2>2. Reserved' = Reserved \ {w} /\ w \in Reserved
    BY <2>1 DEF Reserved, On, Goto, Types
  <2>3. NReserved' = NReserved - 1
    BY <2>2, SlotTypes, FS_RemoveElement DEF NReserved
  <2>4. NGive' = NGive + (IF "putToken" \in {"giveSlot"} THEN 1 ELSE 0)
                       - (IF pc[w] \in {"giveSlot"} THEN 1 ELSE 0)
    BY <2>1, Move DEF NGive
  <2> QED
    BY <2>1, <2>3, <2>4, SlotTypes DEF SlotsAccounted, NGive, N, NReserved
<1>7. ASSUME NEW w \in Workers, Interrupt(w) PROVE SlotsAccounted'
  <2>1. /\ left' = [left EXCEPT ![w] = "term"] /\ left[w] = "no"
        /\ UNCHANGED <<pc, queueHead, queueTail>> /\ pc[w] # "giveSlot"
        /\ queueWriteSem' = IF pc[w] = "put" THEN queueWriteSem + 1
                                            ELSE queueWriteSem
    BY <1>7 DEF Interrupt, Asleep, Leave, queue, Locking
  <2>2. CASE pc[w] # "put"
    BY <2>1, <2>2, SlotsFrame DEF Types
  <2>3. CASE pc[w] = "put"
    <3>1. Reserved' = Reserved \ {w} /\ w \in Reserved
      BY <2>1, <2>3 DEF Reserved, On, Types
    <3>2. NReserved' = NReserved - 1
      BY <3>1, SlotTypes, FS_RemoveElement DEF NReserved
    <3>3. NGive' = NGive
      BY <2>1 DEF NGive, N, On
    <3> QED
      BY <2>1, <2>3, <3>2, <3>3, SlotTypes
      DEF SlotsAccounted, NGive, N, NReserved
  <2> QED
    BY <2>2, <2>3
<1> QED
  BY <1>0, <1>1, <1>2, <1>3, <1>4, <1>5, <1>6, <1>7
  DEF Next, Step, Choose, List, Terminated

\* The ring never holds more jobs than it has slots, whatever the interleaving
\* of producers, consumers and interrupted producers.
THEOREM SlotsInvariant == Spec => []SlotsAccounted
<1> QED
  BY SlotsInit, SlotsNext, TypesInvariant, MutexInvariant, PTL DEF Spec

-----------------------------------------------------------------------------
(* Layer 5.  Nothing discovered is ever lost, so the idle exit is sound.     *)

Placed  == Pending \cup Active \cup listed \cup skipped
Reading == {"read", "push", "put", "putToken"}

\* A subdirectory within the depth limit that w has yet to place: not returned
\* by readdir yet, or in hand with a slot reserved for it.
InHand(w, c) == c \in todo[w] \/ (pc[w] = "put" /\ c = njob[w])

Found ==
  /\ Root \in Placed
  /\ \A d \in listed : Wanted(d) \subseteq Placed
  /\ \A w \in Workers : pc[w] \in Reading =>
       \A c \in Wanted(job[w]) : c \in Placed \/ InHand(w, c)

\* Distinct jobs of the queue are in distinct slots, as long as no more than
\* QueueLen of them are in it.
LEMMA SlotsDistinct ==
  ASSUME NEW k \in Nat, NEW m \in Nat, k < m, m - k < QueueLen
  PROVE  Slot(k) # Slot(m)
<1>1. /\ k = QueueLen * (k \div QueueLen) + (k % QueueLen)
      /\ m = QueueLen * (m \div QueueLen) + (m % QueueLen)
      /\ k \div QueueLen \in Int /\ m \div QueueLen \in Int
  BY QueueAssumption
<1>2. SUFFICES ASSUME k % QueueLen = m % QueueLen PROVE FALSE
  BY DEF Slot
<1>3. m - k = QueueLen * (m \div QueueLen) - QueueLen * (k \div QueueLen)
  BY <1>1, <1>2, QueueAssumption
<1>4. ASSUME NEW x \in Int, NEW y \in Int,
             QueueLen * y - QueueLen * x > 0,
             QueueLen * y - QueueLen * x < QueueLen
      PROVE  FALSE
  <2>1. QueueLen * y - QueueLen * x = QueueLen * (y - x)
    BY QueueAssumption
  <2>2. CASE y - x <= 0
    BY <2>1, <2>2, <1>4, QueueAssumption
  <2>3. CASE y - x >= 1
    BY <2>1, <2>3, <1>4, QueueAssumption
  <2> QED BY <2>2, <2>3
<1> QED
  BY <1>1, <1>3, <1>4

\* Membership in Stacked, spelled out.
LEMMA StackedIs ==
  \A x : x \in Stacked <=>
          \E w \in Workers : \E i \in 1..Len(stack[w]) : x = stack[w][i]
  BY DEF Stacked

\* The root is the one directory found, and it is queued.
LEMMA FoundInit == Init => Found
<1> SUFFICES ASSUME Init PROVE Found
  OBVIOUS
<1>1. Root \in Queued
  <2>1. 0 \in queueTail..(queueHead - 1) /\ Slot(0) \in 0..(QueueLen - 1)
    BY SlotType DEF Init
  <2>2. ring[Slot(0)] = Root
    BY <2>1 DEF Init
  <2> QED
    BY <2>1, <2>2 DEF Queued
<1>2. listed = {} /\ \A w \in Workers : pc[w] = "top"
  BY DEF Init
<1> QED
  BY <1>1, <1>2 DEF Found, Placed, Pending, Reading

\* A step that keeps what is placed, lists nothing to the end and takes from
\* no worker's hands a subdirectory that it does not place keeps Found.
LEMMA FoundKept ==
  ASSUME Found, Placed \subseteq Placed', UNCHANGED listed,
         \A v \in Workers : pc'[v] \in Reading =>
           /\ pc[v] \in Reading /\ job'[v] = job[v]
           /\ \A c \in Wanted(job[v]) :
                InHand(v, c) => c \in Placed' \/ InHand(v, c)'
  PROVE  Found'
<1>1. Root \in Placed'
  BY DEF Found
<1>2. ASSUME NEW d \in listed' PROVE Wanted(d)' \subseteq Placed'
  BY <1>2 DEF Found, Wanted
<1>3. ASSUME NEW v \in Workers, pc'[v] \in Reading, NEW c \in Wanted(job[v])'
      PROVE  c \in Placed' \/ InHand(v, c)'
  <2>1. job'[v] = job[v] /\ pc[v] \in Reading /\ c \in Wanted(job[v])
    BY <1>3 DEF Wanted
  <2>2. c \in Placed \/ InHand(v, c)
    BY <2>1 DEF Found
  <2> QED
    BY <1>3, <2>1, <2>2
<1> QED
  BY <1>1, <1>2, <1>3 DEF Found

\* What is placed stays placed if the queue, the stacks and the jobs only grow.
LEMMA PlacedGrows ==
  ASSUME Queued \subseteq Placed', Stacked \subseteq Placed',
         listed \subseteq Placed', skipped \subseteq Placed',
         \A v \in Workers :
           pc[v] = "pop" \/ pc[v] \in Listing => job[v] \in Placed'
  PROVE  Placed \subseteq Placed'
  BY DEF Placed, Pending, Active, On

\* Steps that leave the queue, the stacks, the jobs and pc keep Placed.
LEMMA PlacedSame ==
  ASSUME UNCHANGED <<queue, stack, job, past>>,
         \A v \in Workers : /\ pc'[v] = "pop" <=> pc[v] = "pop"
                            /\ pc'[v] \in Listing <=> pc[v] \in Listing
  PROVE  Placed' = Placed
<1>1. Queued' = Queued /\ Stacked' = Stacked
  BY DEF Queued, Stacked, Slot, queue
<1>2. On({"pop"})' = On({"pop"}) /\ On(Listing)' = On(Listing)
  BY DEF On
<1> QED
  BY <1>1, <1>2 DEF Placed, Pending, Active, past

\* Parts of the next state's Placed, to cite one at a time.
LEMMA InPlaced ==
  /\ Queued' \subseteq Placed' /\ Stacked' \subseteq Placed'
  /\ listed' \subseteq Placed' /\ skipped' \subseteq Placed'
  /\ \A v \in Workers :
       pc'[v] = "pop" \/ pc'[v] \in Listing => job'[v] \in Placed'
  BY DEF Placed, Pending, Active, On

\* With the queue, the stacks and the history kept, and jobs held by all but w,
\* only the job of w can be lost.
LEMMA OnlyOneMoves ==
  ASSUME Types, NEW w \in Workers,
         UNCHANGED <<queue, stack>>,
         listed \subseteq listed', skipped \subseteq skipped',
         \A v \in Workers \ {w} : pc'[v] = pc[v] /\ job'[v] = job[v],
         pc[w] = "pop" \/ pc[w] \in Listing => job[w] \in Placed'
  PROVE  Placed \subseteq Placed'
<1>1. Queued' = Queued /\ Stacked' = Stacked
  BY DEF Queued, Stacked, Slot, queue
<1>2. \A v \in Workers : pc[v] = "pop" \/ pc[v] \in Listing => job[v] \in Placed'
  BY InPlaced
<1> QED
  BY <1>1, <1>2, InPlaced, PlacedGrows

\* No operation loses a directory that was found.
LEMMA FoundNext ==
  Types /\ JobSemMutex /\ Counts /\ SlotsAccounted /\ Found /\ [Next]_vars
    => Found'
<1> SUFFICES ASSUME Types, JobSemMutex, Counts, SlotsAccounted, Found,
                    [Next]_vars
             PROVE  Found'
  OBVIOUS
<1> USE DEF At
<1>0. CASE UNCHANGED vars \/ Quit
  <2>1. UNCHANGED <<queue, stack, job, past, pc, todo, njob>>
    BY <1>0 DEF vars, Quit, local
  <2> QED
    BY <2>1, PlacedSame, FoundKept DEF InHand, past
\* Moves that neither start, end nor place anything.
<1>1. ASSUME NEW w \in Workers, NEW p \in Places,
             UNCHANGED <<queue, local, past>>,
             \/ UNCHANGED pc
             \/ /\ Goto(w, p) /\ p # "pop" /\ pc[w] \notin {"pop", "put"}
                /\ p \in Listing <=> pc[w] \in Listing
                /\ p \in Reading => pc[w] \in Reading
      PROVE  Found'
  <2>1. \A v \in Workers : /\ pc'[v] = "pop" <=> pc[v] = "pop"
                           /\ pc'[v] \in Listing <=> pc[v] \in Listing
                           /\ pc'[v] \in Reading => pc[v] \in Reading
                           /\ pc[v] = "put" => pc'[v] = "put"
    <3>1. CASE UNCHANGED pc
      BY <3>1
    <3>2. CASE ~UNCHANGED pc
      <4>1. pc'[w] = p /\ \A v \in Workers \ {w} : pc'[v] = pc[v]
        BY <1>1, <3>2 DEF Goto, Types
      <4> QED
        BY <1>1, <3>2, <4>1
    <3> QED
      BY <3>1, <3>2
  <2>2. Placed' = Placed
    BY <1>1, <2>1, PlacedSame DEF local
  <2> QED
    BY <1>1, <2>1, <2>2, FoundKept DEF local, past, InHand
<1>2. ASSUME NEW w \in Workers,
             \/ Acquire(w) \/ Top(w) \/ CheckIdle(w) \/ PassToken(w)
             \/ TakeToken(w) \/ TakeNothing(w) \/ GiveSlot(w) \/ EndJob(w)
             \/ LeaveListing(w) \/ Sigterm(w) \/ Interrupt(w)
             \/ CountStacked(w) \/ PutToken(w)
      PROVE  Found'
  <2>1. UNCHANGED <<queue, local, past>>
    BY <1>2 DEF Acquire, Top, CheckIdle, PassToken, TakeToken, TakeNothing,
       GiveSlot, EndJob, LeaveListing, Sigterm, Interrupt, CountStacked, PutToken
  <2>2. \E p \in Places :
          \/ UNCHANGED pc
          \/ /\ Goto(w, p) /\ p # "pop" /\ pc[w] \notin {"pop", "put"}
             /\ p \in Listing <=> pc[w] \in Listing
             /\ p \in Reading => pc[w] \in Reading
    BY <1>2 DEF Acquire, Top, CheckIdle, PassToken, TakeToken, TakeNothing,
       GiveSlot, EndJob, LeaveListing, Sigterm, Interrupt, CountStacked, PutToken,
       Places, Locking, Listing, Reading
  <2> QED
    BY <1>1, <2>1, <2>2
\* Steps of a worker that is not reading a directory, after which it is not
\* either: only its job changes place.
<1>3. ASSUME NEW w \in Workers, UNCHANGED listed,
             \A v \in Workers \ {w} : /\ pc'[v] = pc[v] /\ job'[v] = job[v]
                                     /\ todo'[v] = todo[v] /\ njob'[v] = njob[v],
             pc'[w] \notin Reading, Placed \subseteq Placed'
      PROVE  Found'
  BY <1>3, FoundKept DEF InHand
<1>4. ASSUME NEW w \in Workers, PopStack(w) PROVE Found'
  <2>1. /\ \A v \in Workers \ {w} : /\ pc'[v] = pc[v] /\ job'[v] = job[v]
                                    /\ todo'[v] = todo[v] /\ njob'[v] = njob[v]
                                    /\ stack'[v] = stack[v]
        /\ pc[w] = "pick" /\ pc'[w] = "pop"
        /\ job'[w] = stack[w][Len(stack[w])]
        /\ stack'[w] = SubSeq(stack[w], 1, Len(stack[w]) - 1)
        /\ stack[w] \in Seq(Dirs) /\ stack[w] # << >>
    BY <1>4 DEF PopStack, Goto, Types
  <2>2. Queued' = Queued /\ UNCHANGED <<listed, skipped>>
    BY <1>4 DEF PopStack, Queued, Slot, queue, past
  <2>3. Stacked \subseteq Placed'
    <3> SUFFICES ASSUME NEW v \in Workers, NEW i \in 1..Len(stack[v])
                 PROVE  stack[v][i] \in Placed'
      BY StackedIs
    <3>1. CASE v = w /\ i = Len(stack[w])
      BY <2>1, <3>1, InPlaced
    <3>2. CASE ~(v = w /\ i = Len(stack[w]))
      <4>1. i \in 1..Len(stack'[v]) /\ stack'[v][i] = stack[v][i]
        BY SMTT(30), <2>1, <3>2 DEF Types
      <4>2. stack[v][i] \in Stacked'
        BY <4>1 DEF Stacked
      <4> QED
        BY <4>2, InPlaced
    <3> QED
      BY <3>1, <3>2
  <2>4. \A v \in Workers :
          pc[v] = "pop" \/ pc[v] \in Listing => job[v] \in Placed'
    BY <2>1, InPlaced DEF Listing
  <2>5. Placed \subseteq Placed'
    BY <2>2, <2>3, <2>4, InPlaced, PlacedGrows
  <2> QED
    BY <1>3, <2>1, <2>2, <2>5 DEF Reading
<1>5. ASSUME NEW w \in Workers, StartStacked(w) PROVE Found'
  <2>1. /\ \A v \in Workers \ {w} : pc'[v] = pc[v]
        /\ pc'[w] = "open" /\ UNCHANGED <<queue, local, past>>
    BY <1>5 DEF StartStacked, Goto, Types
  <2>2. /\ listed \subseteq listed' /\ skipped \subseteq skipped'
        /\ UNCHANGED <<queue, stack, job>>
    BY <2>1 DEF local, past
  <2>3. job[w] \in Placed'
    BY <2>1, <2>2, InPlaced DEF Listing
  <2>4. Placed \subseteq Placed'
    BY <2>1, <2>2, <2>3, OnlyOneMoves
  <2> QED
    BY <1>3, <2>1, <2>2, <2>4 DEF Reading, local, past
<1>6. ASSUME NEW w \in Workers, OpenFails(w) PROVE Found'
  <2>1. /\ \A v \in Workers \ {w} : pc'[v] = pc[v]
        /\ pc'[w] = "fail" /\ UNCHANGED <<queue, local, listed>>
        /\ skipped' = skipped \cup {job[w]}
    BY <1>6 DEF OpenFails, Goto, Types
  <2>2. Placed \subseteq Placed'
    BY <2>1, InPlaced, OnlyOneMoves DEF local
  <2> QED
    BY <1>3, <2>1, <2>2 DEF Reading, local
<1>7. ASSUME NEW w \in Workers, TakeJob(w) PROVE Found'
  <2>1. /\ \A v \in Workers \ {w} : pc'[v] = pc[v] /\ job'[v] = job[v]
        /\ pc[w] = "take" /\ pc'[w] = "giveSlot"
        /\ job'[w] = ring[Slot(queueTail)] /\ queueTail' = queueTail + 1
        /\ UNCHANGED <<ring, queueHead, stack, njob, todo, past>>
    BY <1>7 DEF TakeJob, Goto, Types
  <2>2. Queued \subseteq Placed'
    <3> SUFFICES ASSUME NEW k \in queueTail..(queueHead - 1)
                 PROVE  ring[Slot(k)] \in Placed'
      BY DEF Queued
    <3>1. CASE k = queueTail
      BY <2>1, <3>1, InPlaced DEF Listing
    <3>2. CASE k # queueTail
      <4>1. k \in queueTail'..(queueHead' - 1) /\ ring'[Slot(k)] = ring[Slot(k)]
        BY <2>1, <3>2 DEF Types
      <4>2. ring[Slot(k)] \in Queued'
        BY <4>1 DEF Queued, Slot
      <4> QED
        BY <4>2, InPlaced
    <3> QED
      BY <3>1, <3>2
  <2>3. Stacked' = Stacked /\ UNCHANGED <<listed, skipped>>
    BY <2>1 DEF Stacked, past
  <2>4. \A v \in Workers :
          pc[v] = "pop" \/ pc[v] \in Listing => job[v] \in Placed'
    BY <2>1, InPlaced DEF Listing
  <2>5. Placed \subseteq Placed'
    BY <2>2, <2>3, <2>4, InPlaced, PlacedGrows
  <2> QED
    BY <1>3, <2>1, <2>3, <2>5 DEF Reading
\* Steps of a worker that returns from readdir with the subdirectory d.
<1>8. ASSUME NEW w \in Workers, NEW d, pc[w] = "read", Drop(w, d),
             UNCHANGED <<listed, job>>,
             \A v \in Workers \ {w} : pc'[v] = pc[v] /\ njob'[v] = njob[v],
             d \in Wanted(job[w]) => d \in Placed' \/ (pc'[w] = "put" /\ njob'[w] = d),
             Placed \subseteq Placed'
      PROVE  Found'
  <2>1. \A v \in Workers \ {w} : todo'[v] = todo[v]
    BY <1>8 DEF Drop, Types
  <2>2. todo'[w] = todo[w] \ {d}
    BY <1>8 DEF Drop, Types
  <2>3. ASSUME NEW v \in Workers, NEW c \in Wanted(job[v]), InHand(v, c)
        PROVE  c \in Placed' \/ InHand(v, c)'
    <3>1. CASE v # w
      BY <1>8, <2>1, <2>3, <3>1 DEF InHand
    <3>2. CASE v = w
      BY <1>8, <2>2, <2>3, <3>2 DEF InHand
    <3> QED
      BY <3>1, <3>2
  <2>4. \A v \in Workers : pc'[v] \in Reading => pc[v] \in Reading
    BY <1>8 DEF Reading
  <2> QED
    BY <1>8, <2>3, <2>4, FoundKept
<1>9. ASSUME NEW w \in Workers, LstatFails(w) PROVE Found'
  <2>1. PICK d \in Flaky : Entry(w, d) /\ Drop(w, d) /\ skipped' = skipped \cup {d}
    BY <1>9 DEF LstatFails
  <2>2. UNCHANGED <<queue, pc, stack, job, njob, listed>>
    BY <1>9 DEF LstatFails
  <2>3. Placed \subseteq Placed'
    BY <2>1, <2>2, InPlaced, OnlyOneMoves
  <2> QED
    BY <1>8, <2>1, <2>2, <2>3, InPlaced DEF Entry
<1>10. ASSUME NEW w \in Workers, TooDeep(w) PROVE Found'
  <2>1. PICK d \in Dirs : /\ Entry(w, d) /\ Drop(w, d)
                          /\ Depth[job[w]] + 1 > MaxDepth
    BY <1>10 DEF TooDeep
  <2>2. UNCHANGED <<queue, pc, stack, job, njob, past>>
    BY <1>10 DEF TooDeep
  <2>3. Placed \subseteq Placed'
    BY <2>2, PlacedSame
  <2>4. d \notin Wanted(job[w])
    <3>1. job[w] \in Dirs
      BY DEF Types
    <3>2. d \in Children[job[w]] => Depth[d] = Depth[job[w]] + 1
      BY <3>1, TreeAssumption
    <3>3. Depth[job[w]] \in Nat /\ MaxDepth \in Nat
      BY <3>1, TreeAssumption
    <3> QED
      BY <2>1, <3>2, <3>3 DEF Wanted
  <2> QED
    BY <1>8, <2>1, <2>2, <2>3, <2>4 DEF Entry, past
<1>11. ASSUME NEW w \in Workers, ReserveSlot(w) PROVE Found'
  <2>1. PICK d \in Dirs : /\ Entry(w, d) /\ Drop(w, d)
                          /\ njob' = [njob EXCEPT ![w] = d]
    BY <1>11 DEF ReserveSlot
  <2>2. /\ UNCHANGED <<queue, stack, job, past>>
        /\ \A v \in Workers \ {w} : pc'[v] = pc[v]
        /\ pc'[w] = "put"
    BY <1>11 DEF ReserveSlot, Goto, Types
  <2>3. /\ njob'[w] = d
        /\ \A v \in Workers \ {w} : njob'[v] = njob[v]
    BY <2>1 DEF Types
  <2>4. pc[w] = "read"
    BY <2>1 DEF Entry
  <2>5. Placed \subseteq Placed'
    BY <2>2, <2>4, PlacedSame DEF Listing
  <2> QED
    BY <1>8, <2>1, <2>2, <2>3, <2>4, <2>5 DEF past
<1>12. ASSUME NEW w \in Workers, PushStack(w) PROVE Found'
  <2>1. PICK d \in Dirs : /\ Entry(w, d) /\ Drop(w, d)
                          /\ stack' = [stack EXCEPT ![w] = Append(@, d)]
    BY <1>12 DEF PushStack
  <2>2. /\ UNCHANGED <<queue, job, njob, past>>
        /\ \A v \in Workers \ {w} : pc'[v] = pc[v]
        /\ pc[w] = "read" /\ pc'[w] = "push"
    BY <1>12 DEF PushStack, Entry, Goto, Types
  <2>3. /\ stack'[w] = Append(stack[w], d) /\ stack[w] \in Seq(Dirs)
        /\ \A v \in Workers \ {w} : stack'[v] = stack[v]
    BY <2>1 DEF Types
  <2>4. Stacked \subseteq Placed'
    <3> SUFFICES ASSUME NEW v \in Workers, NEW i \in 1..Len(stack[v])
                 PROVE  stack[v][i] \in Placed'
      BY StackedIs
    <3>1. i \in 1..Len(stack'[v]) /\ stack'[v][i] = stack[v][i]
      BY <2>3
    <3>2. stack[v][i] \in Stacked'
      BY <3>1 DEF Stacked
    <3> QED
      BY <3>2, InPlaced
  <2>5. d \in Placed'
    <3>1. Len(stack[w]) + 1 \in 1..Len(stack'[w])
          /\ stack'[w][Len(stack[w]) + 1] = d
      BY <2>3
    <3>2. d \in Stacked'
      BY <3>1 DEF Stacked
    <3> QED
      BY <3>2, InPlaced
  <2>6. Queued' = Queued /\ UNCHANGED <<listed, skipped>>
    BY <2>2 DEF Queued, Slot, queue, past
  <2>7. \A v \in Workers :
          pc[v] = "pop" \/ pc[v] \in Listing => job[v] \in Placed'
    BY <2>2, InPlaced DEF Listing
  <2>8. Placed \subseteq Placed'
    BY <2>4, <2>6, <2>7, InPlaced, PlacedGrows
  <2> QED
    BY <1>8, <2>1, <2>2, <2>5, <2>6, <2>8
<1>13. ASSUME NEW w \in Workers, PutJob(w) PROVE Found'
  <2>1. /\ pc[w] = "put" /\ left[w] = "no" /\ pc'[w] = "putToken"
        /\ \A v \in Workers \ {w} : pc'[v] = pc[v]
        /\ ring' = [ring EXCEPT ![Slot(queueHead)] = njob[w]]
        /\ queueHead' = queueHead + 1
        /\ UNCHANGED <<queueTail, stack, job, njob, todo, past>>
    BY <1>13 DEF PutJob, Goto, Types, local
  <2>2. queueHead - queueTail < QueueLen
    <3>1. w \in Reserved
      BY <2>1 DEF Reserved, On
    <3> QED
      BY <3>1, SlotTypes DEF SlotsAccounted, NReserved, NGive, N
  <2>3. Queued \subseteq Placed'
    <3> SUFFICES ASSUME NEW k \in queueTail..(queueHead - 1)
                 PROVE  ring[Slot(k)] \in Placed'
      BY DEF Queued
    <3>1. /\ k \in Nat /\ queueHead \in Nat /\ k < queueHead
          /\ queueHead - k < QueueLen
      BY <2>2, QueueAssumption DEF Types
    <3>2. Slot(k) # Slot(queueHead) /\ Slot(k) \in 0..(QueueLen - 1)
      BY <3>1, SlotsDistinct, SlotType
    <3>3. ring'[Slot(k)] = ring[Slot(k)]
      BY <2>1, <3>2 DEF Types
    <3>4. k \in queueTail'..(queueHead' - 1)
      BY <2>1, <3>1
    <3>5. ring[Slot(k)] \in Queued'
      BY <3>3, <3>4 DEF Queued, Slot
    <3> QED
      BY <3>5, InPlaced
  <2>4. njob[w] \in Placed'
    <3>1. Slot(queueHead) \in 0..(QueueLen - 1)
      BY SlotType DEF Types
    <3>2. ring'[Slot(queueHead)] = njob[w]
      BY <2>1, <3>1 DEF Types
    <3>3. queueHead \in queueTail'..(queueHead' - 1)
      <4>1. queueTail \in Nat /\ queueHead \in Nat /\ queueTail <= queueHead
        BY DEF Types, Counts
      <4> QED
        BY <2>1, <4>1
    <3>4. njob[w] \in Queued'
      BY <3>2, <3>3 DEF Queued, Slot
    <3> QED
      BY <3>4, InPlaced
  <2>5. Stacked' = Stacked /\ UNCHANGED <<listed, skipped>>
    BY <2>1 DEF Stacked, past
  <2>6. \A v \in Workers :
          pc[v] = "pop" \/ pc[v] \in Listing => job[v] \in Placed'
    BY <2>1, InPlaced DEF Listing
  <2>7. Placed \subseteq Placed'
    BY <2>3, <2>5, <2>6, InPlaced, PlacedGrows
  <2>8. \A v \in Workers : pc'[v] \in Reading =>
          /\ pc[v] \in Reading /\ job'[v] = job[v]
          /\ \A c \in Wanted(job[v]) :
               InHand(v, c) => c \in Placed' \/ InHand(v, c)'
    BY <2>1, <2>4 DEF Reading, InHand
  <2> QED
    BY <2>5, <2>7, <2>8, FoundKept
<1>14. ASSUME NEW w \in Workers, OpenDir(w) PROVE Found'
  <2>1. /\ pc[w] = "open" /\ pc'[w] = "read"
        /\ \A v \in Workers \ {w} : pc'[v] = pc[v] /\ todo'[v] = todo[v]
        /\ todo'[w] = Children[job[w]]
        /\ UNCHANGED <<queue, stack, job, njob, past>>
    BY <1>14 DEF OpenDir, Goto, Types
  <2>2. Placed' = Placed
    BY <2>1, PlacedSame DEF Listing
  <2>3. ASSUME NEW v \in Workers, pc'[v] \in Reading, NEW c \in Wanted(job[v])
        PROVE  c \in Placed' \/ InHand(v, c)'
    <3>1. CASE v = w
      BY <2>1, <2>3, <3>1 DEF Wanted, InHand
    <3>2. CASE v # w
      <4>1. c \in Placed \/ InHand(v, c)
        BY <2>1, <2>3, <3>2 DEF Found
      <4> QED
        BY <2>1, <2>2, <3>2, <4>1 DEF InHand
    <3> QED
      BY <3>1, <3>2
  <2> QED
    BY <2>1, <2>2, <2>3 DEF Found, Wanted, past
<1>15. ASSUME NEW w \in Workers, CloseDir(w) PROVE Found'
  <2>1. /\ pc[w] = "read" /\ pc'[w] = "done" /\ todo[w] = {}
        /\ \A v \in Workers \ {w} : pc'[v] = pc[v]
        /\ listed' = listed \cup {job[w]}
        /\ UNCHANGED <<queue, local, skipped>>
    BY <1>15 DEF CloseDir, Goto, Types
  <2>2. Placed \subseteq Placed'
    BY <2>1, InPlaced, OnlyOneMoves DEF local
  <2>3. Wanted(job[w]) \subseteq Placed'
    BY <2>1, <2>2 DEF Found, Reading, InHand
  <2>4. \A d \in listed' : Wanted(d) \subseteq Placed'
    BY <2>1, <2>2, <2>3 DEF Found
  <2>5. ASSUME NEW v \in Workers, pc'[v] \in Reading, NEW c \in Wanted(job[v])
        PROVE  c \in Placed' \/ InHand(v, c)'
    <3>1. v # w
      BY <2>1, <2>5 DEF Reading
    <3>2. c \in Placed \/ InHand(v, c)
      BY <2>1, <2>5, <3>1 DEF Found
    <3> QED
      BY <2>1, <2>2, <3>1, <3>2 DEF InHand, local
  <2> QED
    BY <2>1, <2>2, <2>4, <2>5 DEF Found, Wanted, local
<1> QED
  BY <1>0, <1>2, <1>4, <1>5, <1>6, <1>7, <1>9, <1>10, <1>11, <1>12, <1>13,
     <1>14, <1>15
  DEF Next, Step, Choose, List, Terminated

\* Every directory found and within the depth limit is queued, stacked, being
\* listed, listed, skipped, or in the hands of the worker that read its entry.
THEOREM FoundInvariant == Spec => []Found
<1> QED
  BY FoundInit, FoundNext, TypesInvariant, MutexInvariant, CountsInvariant,
     SlotsInvariant, PTL
  DEF Spec

\* Whatever the tree, the workers, the queue length and the moment a shutdown
\* begins: a worker that leaves because the pool is idle leaves behind a
\* complete traversal.
THEOREM IdleExitIsSound == Spec => []IdleExitSound
<1>1. ASSUME Types, Counts, Found PROVE IdleExitSound
  <2> SUFFICES ASSUME FoundIdle PROVE Complete
    BY DEF IdleExitSound
  <2>1. /\ queueHead = queueTail
        /\ \A w \in Workers : pc[w] \notin Running \cup {"pop"}
        /\ \A w \in Workers : Len(stack[w]) = 0
    BY <1>1, NothingLeft
  <2>2. Queued = {} /\ Stacked = {}
    BY <1>1, <2>1 DEF Queued, Stacked, Types
  <2>3. On({"pop"}) = {} /\ On(Listing) = {}
    BY <2>1 DEF On, Running, Listing
  <2>4. Placed = listed \cup skipped
    BY <2>2, <2>3 DEF Placed, Pending, Active
  <2> QED
    BY <1>1, <2>4 DEF Found, Complete
<1> QED
  BY <1>1, TypesInvariant, CountsInvariant, FoundInvariant, PTL

=============================================================================
