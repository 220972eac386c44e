-------------------------- MODULE Traversal_proofs --------------------------
(***************************************************************************)
(* The job pool implements Traversal: it discovers each directory once and  *)
(* lists each discovered one once, for every set of workers, tree and queue *)
(* length, shutdowns included.  The inductive invariant Once says that a     *)
(* directory is at one place at a time: in one slot of the queue, in one     *)
(* entry of one stack, held by one worker, listed, or skipped; or it is     *)
(* none of these, and at most one worker is about to place it.              *)
(***************************************************************************)
EXTENDS JobPool_proofs

Popped == {job[w] : w \in On({"pop"})}
Held   == Listing \cup {"pop"}

\* No two slots of the queue have the same directory.
OneSlot ==
  \A k, m \in queueTail..(queueHead - 1) :
    k # m => ring[Slot(k)] # ring[Slot(m)]

\* No two entries of the stacks have the same directory.
OneEntry ==
  \A v, w \in Workers : \A i \in 1..Len(stack[v]), j \in 1..Len(stack[w]) :
    stack[v][i] = stack[w][j] => v = w /\ i = j

\* No two workers hold the same directory.
OneHolder ==
  \A v, w \in Workers :
    pc[v] \in Held /\ pc[w] \in Held /\ v # w => job[v] # job[w]

Distinct == OneSlot /\ OneEntry /\ OneHolder

\* The six sets a directory can be in are disjoint.
Apart ==
  /\ Queued \cap (Stacked \cup Popped \cup Active \cup listed \cup skipped) = {}
  /\ Stacked \cap (Popped \cup Active \cup listed \cup skipped) = {}
  /\ Popped \cap (Active \cup listed \cup skipped) = {}
  /\ Active \cap (listed \cup skipped) = {}
  /\ listed \cap skipped = {}

\* What a worker is about to place is a child of the directory it reads, and
\* is placed nowhere yet.
Coming ==
  \A w \in Workers :
    /\ todo[w] # {} => pc[w] \in Reading
    /\ \A c \in Dirs : InHand(w, c) => c \in Children[job[w]] /\ c \notin Placed
    /\ pc[w] = "put" => njob[w] \notin todo[w] /\ Depth[njob[w]] <= MaxDepth

\* A directory is placed by the worker that reads its parent.
Parented ==
  \A d \in Dirs : \A c \in Children[d] \cap Placed :
    d \in listed \/ \E w \in Workers : pc[w] \in Reading /\ job[w] = d

Once == Distinct /\ Apart /\ Coming /\ Parented

LEMMA OnceInit == Init => Once
<1> SUFFICES ASSUME Init PROVE Once
  OBVIOUS
<1>1. /\ On({"pop"}) = {} /\ On(Listing) = {} /\ Stacked = {}
      /\ \A w \in Workers : pc[w] = "top" /\ todo[w] = {}
  BY DEF Init, On, Listing, Stacked
<1>2. Queued = {Root} /\ Distinct
  <2>1. queueTail..(queueHead - 1) = {0} /\ ring[Slot(0)] = Root
    BY SlotType DEF Init
  <2>2. \A w \in Workers : Len(stack[w]) = 0
    BY DEF Init
  <2> QED
    BY <1>1, <2>1, <2>2 DEF Queued, Distinct, OneSlot, OneEntry, OneHolder, Held, Listing
<1>3. /\ Popped = {} /\ Active = {} /\ listed = {} /\ skipped = {}
      /\ Placed = {Root}
  BY <1>1, <1>2 DEF Popped, Active, Placed, Pending, Init
<1>4. \A d \in Dirs : Root \notin Children[d]
  BY TreeAssumption
<1> QED
  BY <1>1, <1>2, <1>3, <1>4 DEF Once, Apart, Coming, Parented, InHand

-----------------------------------------------------------------------------
(* How the sets change.                                                     *)

\* The worker w goes to place p, perhaps with another job: its old job leaves
\* the set of its old place, its new one joins the set of p.
LEMMA HeldMoves ==
  ASSUME Types, Distinct, NEW w \in Workers, NEW p \in Places, Goto(w, p),
         \A v \in Workers \ {w} : job'[v] = job[v],
         \/ job'[w] = job[w] /\ pc[w] \in Held
         \/ p \notin Held
         \/ job'[w] \notin Popped \cup Active
  PROVE  /\ Popped' = (Popped \ (IF pc[w] = "pop" THEN {job[w]} ELSE {}))
                      \cup (IF p = "pop" THEN {job'[w]} ELSE {})
         /\ Active' = (Active \ (IF pc[w] \in Listing THEN {job[w]} ELSE {}))
                      \cup (IF p \in Listing THEN {job'[w]} ELSE {})
         /\ OneHolder'
<1>1. pc'[w] = p /\ \A v \in Workers \ {w} : pc'[v] = pc[v]
  BY DEF Goto, Types
<1>2. \A v \in Workers \ {w} :
        pc[v] \in Held /\ pc[w] \in Held => job[v] # job[w]
  BY DEF Distinct, OneHolder
<1>3. \A x : x \in Popped <=> \E v \in Workers : pc[v] = "pop" /\ x = job[v]
  BY DEF Popped, On
<1>4. \A x : x \in Popped' <=> \E v \in Workers : pc'[v] = "pop" /\ x = job'[v]
  BY DEF Popped, On
<1>5. \A x : x \in Active <=> \E v \in Workers : pc[v] \in Listing /\ x = job[v]
  BY DEF Active, On
<1>6. \A x : x \in Active' <=> \E v \in Workers : pc'[v] \in Listing /\ x = job'[v]
  BY DEF Active, On
<1>7. "pop" \notin Listing /\ Held = Listing \cup {"pop"}
  BY DEF Listing, Held
<1>8. Popped' = (Popped \ (IF pc[w] = "pop" THEN {job[w]} ELSE {}))
                \cup (IF p = "pop" THEN {job'[w]} ELSE {})
  BY <1>1, <1>2, <1>3, <1>4, <1>7
<1>9. Active' = (Active \ (IF pc[w] \in Listing THEN {job[w]} ELSE {}))
                \cup (IF p \in Listing THEN {job'[w]} ELSE {})
  BY <1>1, <1>2, <1>5, <1>6, <1>7
<1>10. \A v, u \in Workers : pc'[v] \in Held /\ pc'[u] \in Held /\ v # u
         => job'[v] # job'[u]
  BY <1>1, <1>2, <1>3, <1>5, <1>7 DEF Distinct, OneHolder
<1> QED
  BY <1>8, <1>9, <1>10 DEF OneHolder

\* Popped and Active follow from pc and job.
LEMMA HeldSame ==
  ASSUME UNCHANGED job,
         \A v \in Workers : /\ pc'[v] = "pop" <=> pc[v] = "pop"
                            /\ pc'[v] \in Listing <=> pc[v] \in Listing
  PROVE  Popped' = Popped /\ Active' = Active
  BY DEF Popped, Active, On

LEMMA QueueSame == UNCHANGED queue => Queued' = Queued
  BY DEF queue, Queued, Slot

LEMMA StackSame == UNCHANGED stack => Stacked' = Stacked
  BY DEF Stacked

\* Taking the job at the tail removes it from the queue.
LEMMA QueueTake ==
  ASSUME Types, Distinct, queueTail < queueHead,
         UNCHANGED <<ring, queueHead>>, queueTail' = queueTail + 1
  PROVE  /\ ring[Slot(queueTail)] \in Queued
         /\ Queued' = Queued \ {ring[Slot(queueTail)]}
         /\ OneSlot'
<1> DEFINE K == queueTail..(queueHead - 1)
           L == queueTail'..(queueHead' - 1)
<1>1. queueTail \in K /\ L = K \ {queueTail} /\ queueTail \in Nat /\ queueHead \in Nat
  BY DEF Types
<1>2. Queued = {ring[Slot(k)] : k \in K} /\ Queued' = {ring[Slot(k)] : k \in L}
  BY DEF Queued, Slot
<1>3. \A k, m \in K : k # m => ring[Slot(k)] # ring[Slot(m)]
  BY DEF Distinct, OneSlot
<1> HIDE DEF K, L
<1>4. Queued' = Queued \ {ring[Slot(queueTail)]} /\ ring[Slot(queueTail)] \in Queued
  BY <1>1, <1>2, <1>3
<1>5. \A k, m \in L : k # m => ring'[Slot(k)] # ring'[Slot(m)]
  BY <1>1, <1>3
<1> QED
  BY <1>4, <1>5 DEF L, OneSlot, Slot

\* Writing a job at the head adds it, if there is a slot for it.
LEMMA QueuePut ==
  ASSUME Types, Distinct, queueHead - queueTail < QueueLen, queueTail <= queueHead,
         NEW d \in Dirs, d \notin Queued,
         ring' = [ring EXCEPT ![Slot(queueHead)] = d],
         queueHead' = queueHead + 1, UNCHANGED queueTail
  PROVE  /\ Queued' = Queued \cup {d}
         /\ OneSlot'
<1> DEFINE K == queueTail..(queueHead - 1)
           L == queueTail'..(queueHead' - 1)
<1>1. L = K \cup {queueHead} /\ queueTail \in Nat /\ queueHead \in Nat
  BY DEF Types
<1>2. \A k \in L : Slot(k) \in 0..(QueueLen - 1)
  BY <1>1, SlotType
<1>3. \A k \in K : Slot(k) # Slot(queueHead)
  <2> SUFFICES ASSUME NEW k \in K PROVE Slot(k) # Slot(queueHead)
    OBVIOUS
  <2>1. k \in Nat /\ k < queueHead /\ queueHead - k < QueueLen
    BY <1>1, QueueAssumption
  <2> QED
    BY <1>1, <2>1, SlotsDistinct, QueueAssumption
<1>4. ring'[Slot(queueHead)] = d /\ \A k \in K : ring'[Slot(k)] = ring[Slot(k)]
  BY <1>1, <1>2, <1>3 DEF Types
<1>5. Queued = {ring[Slot(k)] : k \in K}
  BY DEF Queued
<1>6. Queued' = {ring'[Slot(k)] : k \in L}
  BY DEF Queued, Slot
<1>7. \A k, m \in K : k # m => ring[Slot(k)] # ring[Slot(m)]
  BY DEF Distinct, OneSlot
<1> HIDE DEF K, L
<1>8. Queued' = Queued \cup {d}
  BY <1>1, <1>4, <1>5, <1>6
<1>9. \A k \in K : ring[Slot(k)] # d
  BY <1>5
<1>10. \A k, m \in L : k # m => ring'[Slot(k)] # ring'[Slot(m)]
  BY <1>1, <1>4, <1>7, <1>9
<1> QED
  BY <1>8, <1>10 DEF L, OneSlot, Slot

\* Popping the last entry of a stack removes it from the stacks.
LEMMA StackPop ==
  ASSUME Types, Distinct, NEW w \in Workers, stack[w] # << >>,
         stack' = [stack EXCEPT ![w] = SubSeq(@, 1, Len(@) - 1)]
  PROVE  /\ stack[w][Len(stack[w])] \in Stacked
         /\ Stacked' = Stacked \ {stack[w][Len(stack[w])]}
         /\ OneEntry'
<1> DEFINE n == Len(stack[w])
<1>1. stack[w] \in Seq(Dirs) /\ n \in Nat /\ n > 0
  BY DEF Types
<1>2. /\ Len(stack'[w]) = n - 1
      /\ \A i \in 1..(n - 1) : stack'[w][i] = stack[w][i]
      /\ \A v \in Workers \ {w} : stack'[v] = stack[v]
  <2>1. stack'[w] = SubSeq(stack[w], 1, Len(stack[w]) - 1)
        /\ \A v \in Workers \ {w} : stack'[v] = stack[v]
    BY DEF Types
  <2> QED
    BY <1>1, <2>1
<1>3. \A v \in Workers : \A i \in 1..Len(stack'[v]) :
        /\ i \in 1..Len(stack[v]) /\ stack'[v][i] = stack[v][i]
        /\ <<v, i>> # <<w, n>>
  BY <1>1, <1>2
<1>4. \A v \in Workers : \A i \in 1..Len(stack[v]) :
        <<v, i>> # <<w, n>> => i \in 1..Len(stack'[v]) /\ stack'[v][i] = stack[v][i]
  BY <1>1, <1>2
<1>5. \A v, u \in Workers : \A i \in 1..Len(stack[v]), j \in 1..Len(stack[u]) :
        stack[v][i] = stack[u][j] => v = u /\ i = j
  BY DEF Distinct, OneEntry
<1>6. \A x : x \in Stacked' <=>
        \E v \in Workers : \E i \in 1..Len(stack'[v]) : x = stack'[v][i]
  BY DEF Stacked
<1>7. n \in 1..Len(stack[w])
  BY <1>1
<1> HIDE DEF n
<1>8. stack[w][n] \in Stacked
  BY <1>7, StackedIs
<1>9. Stacked' \subseteq Stacked \ {stack[w][n]}
  BY <1>3, <1>5, <1>6, <1>7, StackedIs
<1>10. Stacked \ {stack[w][n]} \subseteq Stacked'
  BY <1>4, <1>6, StackedIs
<1>11. \A v, u \in Workers : \A i \in 1..Len(stack'[v]), j \in 1..Len(stack'[u]) :
         stack'[v][i] = stack'[u][j] => v = u /\ i = j
  BY <1>3, <1>5
<1> QED
  BY <1>8, <1>9, <1>10, <1>11 DEF n, OneEntry

\* Pushing a directory that is on no stack adds it.
LEMMA StackPush ==
  ASSUME Types, Distinct, NEW w \in Workers, NEW d \in Dirs, d \notin Stacked,
         stack' = [stack EXCEPT ![w] = Append(@, d)]
  PROVE  /\ Stacked' = Stacked \cup {d}
         /\ OneEntry'
<1> DEFINE n == Len(stack[w])
<1>1. stack[w] \in Seq(Dirs) /\ n \in Nat
  BY DEF Types
<1>2. /\ Len(stack'[w]) = n + 1 /\ stack'[w][n + 1] = d
      /\ \A i \in 1..n : stack'[w][i] = stack[w][i]
      /\ \A v \in Workers \ {w} : stack'[v] = stack[v]
  BY <1>1 DEF Types
<1>3. \A v \in Workers : \A i \in 1..Len(stack'[v]) :
        \/ i \in 1..Len(stack[v]) /\ stack'[v][i] = stack[v][i]
        \/ v = w /\ i = n + 1
  BY <1>1, <1>2
<1>4. \A v \in Workers : \A i \in 1..Len(stack[v]) :
        i \in 1..Len(stack'[v]) /\ stack'[v][i] = stack[v][i]
  BY <1>1, <1>2
<1>5. \A v, u \in Workers : \A i \in 1..Len(stack[v]), j \in 1..Len(stack[u]) :
        stack[v][i] = stack[u][j] => v = u /\ i = j
  BY DEF Distinct, OneEntry
<1>6. \A x : x \in Stacked' <=>
        \E v \in Workers : \E i \in 1..Len(stack'[v]) : x = stack'[v][i]
  BY DEF Stacked
<1>7. n + 1 \in 1..Len(stack'[w])
  BY <1>1, <1>2
<1> HIDE DEF n
<1>8. Stacked' = Stacked \cup {d}
  BY <1>2, <1>3, <1>4, <1>6, <1>7, StackedIs
<1>9. \A v \in Workers : \A i \in 1..Len(stack[v]) : stack[v][i] # d
  BY StackedIs
<1>10. \A v, u \in Workers : \A i \in 1..Len(stack'[v]), j \in 1..Len(stack'[u]) :
         stack'[v][i] = stack'[u][j] => v = u /\ i = j
  BY <1>2, <1>3, <1>5, <1>9
<1> QED
  BY <1>8, <1>10 DEF OneEntry

\* Placed is the union of the six sets, before and after a step.
LEMMA PlacedParts ==
  /\ Placed = Queued \cup Stacked \cup Popped \cup Active \cup listed \cup skipped
  /\ Placed' = Queued' \cup Stacked' \cup Popped' \cup Active'
               \cup listed' \cup skipped'
  BY DEF Placed, Pending, Popped

\* A worker with an entry in hand is reading, and holds its directory.
LEMMA HandReads ==
  ASSUME Types, Coming, NEW w \in Workers, NEW c \in Dirs, InHand(w, c)
  PROVE  /\ pc[w] \in Reading /\ pc[w] \in Held /\ job[w] \in Dirs
         /\ c \in Children[job[w]] /\ c \notin Placed
  BY DEF Types, Coming, InHand, Reading, Held, Listing

\* No two workers have the same entry in hand: its parent has one reader.
LEMMA OneHand ==
  ASSUME Types, OneHolder, Coming, NEW v \in Workers, NEW w \in Workers,
         NEW c \in Dirs, InHand(v, c), InHand(w, c)
  PROVE  v = w
<1>1. /\ pc[v] \in Held /\ job[v] \in Dirs /\ c \in Children[job[v]]
      /\ pc[w] \in Held /\ job[w] \in Dirs /\ c \in Children[job[w]]
  BY HandReads
<1>2. job[v] = job[w]
  BY <1>1, ParentAssumption
<1> QED
  BY <1>1, <1>2 DEF OneHolder

\* What a step places must be a child of a directory that is read after it, and
\* a worker stops reading only a directory that it has listed.
LEMMA ParentedKept ==
  ASSUME Types, Types', Parented, listed \subseteq listed',
         \A v \in Workers : pc[v] \in Reading =>
           \/ pc'[v] \in Reading /\ job'[v] = job[v]
           \/ job[v] \in listed',
         \A c \in Placed' : \/ c \in Placed
                            \/ c = Root
                            \/ \E v \in Workers : pc'[v] \in Reading
                                                  /\ c \in Children[job'[v]]
  PROVE  Parented'
<1> SUFFICES ASSUME NEW d \in Dirs, NEW c \in Children[d], c \in Placed'
             PROVE  d \in listed' \/ \E w \in Workers : pc'[w] \in Reading /\ job'[w] = d
  BY DEF Parented
<1>1. CASE c \in Placed
  BY <1>1 DEF Parented
<1>2. CASE c = Root
  BY <1>2, TreeAssumption
<1>3. CASE \E v \in Workers : pc'[v] \in Reading /\ c \in Children[job'[v]]
  <2>1. PICK v \in Workers : pc'[v] \in Reading /\ c \in Children[job'[v]]
    BY <1>3
  <2>2. job'[v] \in Dirs
    BY DEF Types
  <2>3. job'[v] = d
    BY <2>1, <2>2, ParentAssumption
  <2> QED
    BY <2>1, <2>3
<1> QED
  BY <1>1, <1>2, <1>3

\* What is in hand after a step was in hand before it, in a step that places
\* nothing still in hand.
LEMMA ComingKept ==
  ASSUME Types, Types', Coming,
         \A v \in Workers :
           /\ todo'[v] \subseteq todo[v]
           /\ \/ UNCHANGED <<pc[v], njob[v], job[v]>>
              \/ pc[v] \in Reading /\ pc'[v] \in Reading \ {"put"} /\ job'[v] = job[v]
              \/ pc[v] \notin Reading /\ pc'[v] \notin Reading
              \/ todo'[v] = {} /\ pc'[v] # "put"
              \/ /\ pc[v] = "read" /\ pc'[v] = "put" /\ job'[v] = job[v]
                 /\ njob'[v] \in todo[v] \ todo'[v] /\ Depth[njob'[v]] <= MaxDepth,
         \A c \in Placed' \ Placed : \A v \in Workers : ~ InHand(v, c)'
  PROVE  Coming'
<1> SUFFICES ASSUME NEW v \in Workers
             PROVE  /\ todo'[v] # {} => pc'[v] \in Reading
                    /\ \A c \in Dirs : InHand(v, c)' =>
                         c \in Children[job'[v]] /\ c \notin Placed'
                    /\ pc'[v] = "put" => /\ njob'[v] \notin todo'[v]
                                         /\ Depth[njob'[v]] <= MaxDepth
  BY DEF Coming
<1>1. /\ todo[v] # {} => pc[v] \in Reading
      /\ \A c \in Dirs : InHand(v, c) => c \in Children[job[v]] /\ c \notin Placed
      /\ pc[v] = "put" => njob[v] \notin todo[v] /\ Depth[njob[v]] <= MaxDepth
      /\ todo[v] \subseteq Dirs /\ todo'[v] \subseteq todo[v]
      /\ pc[v] \in Reading \/ pc[v] # "put"
  BY DEF Coming, Types, Reading
<1>2. todo'[v] # {} => pc'[v] \in Reading
  BY <1>1 DEF Reading
<1>3. /\ \A c \in Dirs : InHand(v, c)' => InHand(v, c) /\ job'[v] = job[v]
      /\ pc'[v] = "put" => /\ njob'[v] \notin todo'[v]
                           /\ Depth[njob'[v]] <= MaxDepth
  BY <1>1 DEF InHand, Reading
<1>4. \A c \in Dirs : InHand(v, c)' => c \notin Placed'
  BY <1>1, <1>3
<1> QED
  BY <1>1, <1>2, <1>3, <1>4

\* Steps that start, end, take and place nothing.
LEMMA OnceSame ==
  ASSUME Types, Types', Once, UNCHANGED <<queue, stack, job, njob, past>>,
         \A v \in Workers :
           /\ todo'[v] \subseteq todo[v]
           /\ \/ pc'[v] = pc[v]
              \/ pc[v] \in Reading /\ pc'[v] \in Reading \ {"put"}
              \/ pc[v] = "giveSlot" /\ pc'[v] = "open"
              \/ pc[v] \notin Held /\ pc'[v] \notin Held
  PROVE  Once'
<1>1. \A v \in Workers : /\ pc'[v] = "pop" <=> pc[v] = "pop"
                         /\ pc'[v] \in Listing <=> pc[v] \in Listing
                         /\ pc'[v] \in Held <=> pc[v] \in Held
  BY DEF Held, Listing, Reading
<1>2. Placed' = Placed
  BY <1>1, PlacedSame
<1>3. /\ Queued' = Queued /\ Stacked' = Stacked /\ UNCHANGED <<listed, skipped>>
      /\ Popped' = Popped /\ Active' = Active
  BY <1>1, HeldSame, QueueSame, StackSame DEF past
<1>4. Distinct' /\ Apart'
  BY <1>1, <1>3 DEF Once, Distinct, OneSlot, OneEntry, OneHolder, Apart, queue, Slot
<1>5. Coming'
  <2>1. \A v \in Workers :
           /\ todo'[v] \subseteq todo[v]
           /\ \/ UNCHANGED <<pc[v], njob[v], job[v]>>
              \/ pc[v] \in Reading /\ pc'[v] \in Reading \ {"put"} /\ job'[v] = job[v]
              \/ pc[v] \notin Reading /\ pc'[v] \notin Reading
    BY DEF Reading, Held, Listing
  <2> QED
    BY <1>2, <2>1, ComingKept DEF Once
<1>6. Parented'
  <2>1. \A v \in Workers : pc[v] \in Reading => pc'[v] \in Reading /\ job'[v] = job[v]
    BY DEF Reading, Held, Listing
  <2> QED
    BY <1>2, <1>3, <2>1, ParentedKept DEF Once
<1> QED
  BY <1>4, <1>5, <1>6 DEF Once

-----------------------------------------------------------------------------
(* Every operation keeps Once.                                              *)

\* Steps that list and place nothing.
LEMMA OnceStutters ==
  ASSUME Types, Types', Once, NEW w \in Workers,
         \/ UNCHANGED vars \/ Quit
         \/ Acquire(w) \/ Top(w) \/ CheckIdle(w) \/ PassToken(w)
         \/ TakeToken(w) \/ TakeNothing(w) \/ GiveSlot(w) \/ EndJob(w)
         \/ LeaveListing(w) \/ Sigterm(w) \/ Interrupt(w)
         \/ CountStacked(w) \/ PutToken(w) \/ TooDeep(w)
  PROVE  Once' /\ UNCHANGED <<Pending, Active, past>>
<1> USE DEF At
<1>1. /\ UNCHANGED <<queue, stack, job, njob, past>>
      /\ \A v \in Workers : todo'[v] \subseteq todo[v]
  <2>1. UNCHANGED <<queue, stack, job, njob, past>>
    BY DEF vars, Quit, Acquire, Top, CheckIdle, PassToken, TakeToken, TakeNothing,
       GiveSlot, EndJob, LeaveListing, Sigterm, Interrupt, CountStacked, PutToken,
       TooDeep, local
  <2>2. UNCHANGED todo \/ \E d \in Dirs : Drop(w, d)
    BY DEF vars, Quit, Acquire, Top, CheckIdle, PassToken, TakeToken, TakeNothing,
       GiveSlot, EndJob, LeaveListing, Sigterm, Interrupt, CountStacked, PutToken,
       TooDeep, local
  <2>3. \A v \in Workers : todo'[v] \subseteq todo[v]
    BY <2>2 DEF Drop, Types
  <2> QED
    BY <2>1, <2>3
<1>2. \A v \in Workers :
        \/ pc'[v] = pc[v]
        \/ pc[v] \in Reading /\ pc'[v] \in Reading \ {"put"}
        \/ pc[v] = "giveSlot" /\ pc'[v] = "open"
        \/ pc[v] \notin Held /\ pc'[v] \notin Held
  <2>1. UNCHANGED pc \/
        \E p \in Places : /\ Goto(w, p)
                          /\ \/ pc[w] \in Reading /\ p \in Reading \ {"put"}
                             \/ pc[w] = "giveSlot" /\ p = "open"
                             \/ pc[w] \notin Held /\ p \notin Held
    BY DEF vars, Quit, Acquire, Top, CheckIdle, PassToken, TakeToken, TakeNothing,
       GiveSlot, EndJob, LeaveListing, Sigterm, Interrupt, CountStacked, PutToken,
       TooDeep, Places, Locking, Held, Listing, Reading
  <2> QED
    BY <2>1 DEF Goto, Types
<1>3. Popped' = Popped /\ Active' = Active
  BY <1>1, <1>2, HeldSame DEF Held, Listing, Reading
<1> QED
  BY <1>1, <1>2, <1>3, OnceSame, QueueSame, StackSame DEF Pending, Popped

\* A step of w outside the reading of a directory that places nothing new keeps
\* what is in hand, and the parent of what is placed.
LEMMA HandsIdle ==
  ASSUME Types, Types', Once, NEW w \in Workers, UNCHANGED <<njob, todo>>,
         \A v \in Workers \ {w} : pc'[v] = pc[v] /\ job'[v] = job[v],
         pc[w] \notin Reading, pc'[w] \notin Reading,
         listed' = listed, Placed' = Placed
  PROVE  Coming' /\ Parented'
<1>1. \A v \in Workers :
        /\ todo'[v] \subseteq todo[v]
        /\ \/ UNCHANGED <<pc[v], njob[v], job[v]>>
           \/ pc[v] \notin Reading /\ pc'[v] \notin Reading
  OBVIOUS
<1>2. Coming'
  BY <1>1, ComingKept DEF Once
<1>3. \A v \in Workers : pc[v] \in Reading => pc'[v] \in Reading /\ job'[v] = job[v]
  BY <1>1
<1>4. Parented'
  BY <1>3, ParentedKept DEF Once
<1> QED
  BY <1>2, <1>4

LEMMA OncePopStack ==
  ASSUME Types, Types', Once, NEW w \in Workers, PopStack(w)
  PROVE  Once' /\ UNCHANGED <<Pending, Active, past>>
<1> DEFINE d == stack[w][Len(stack[w])]
<1>1. /\ pc[w] = "pick" /\ Goto(w, "pop") /\ pc'[w] = "pop"
      /\ stack[w] # << >> /\ job'[w] = d
      /\ stack' = [stack EXCEPT ![w] = SubSeq(@, 1, Len(@) - 1)]
      /\ \A v \in Workers \ {w} : pc'[v] = pc[v] /\ job'[v] = job[v]
      /\ UNCHANGED <<queue, njob, todo, past>>
  BY DEF PopStack, At, Goto, Types
<1>2. d \in Stacked /\ Stacked' = Stacked \ {d} /\ OneEntry'
  BY <1>1, StackPop DEF Once
<1>3. Popped' = Popped \cup {d} /\ Active' = Active /\ OneHolder'
  <2>1. d \notin Popped \cup Active
    BY <1>2 DEF Once, Apart
  <2> HIDE DEF d
  <2> QED
    BY <1>1, <2>1, HeldMoves DEF Once, Held, Listing, Places, Locking
<1> HIDE DEF d
<1>4. /\ Queued' = Queued /\ OneSlot' /\ UNCHANGED <<listed, skipped>>
  BY <1>1, QueueSame DEF Once, Distinct, OneSlot, queue, Slot, past
<1>5. Apart' /\ Placed' = Placed
  BY <1>2, <1>3, <1>4, PlacedParts DEF Once, Apart
<1>6. Pending' = Pending
  BY <1>2, <1>3, <1>4 DEF Once, Apart, Pending, Popped
<1>7. Coming' /\ Parented'
  BY <1>1, <1>4, <1>5, HandsIdle DEF Reading
<1> QED
  BY <1>1, <1>2, <1>3, <1>4, <1>5, <1>6, <1>7 DEF Once, Distinct

LEMMA OnceStartStacked ==
  ASSUME Types, Types', Once, NEW w \in Workers, StartStacked(w)
  PROVE  /\ Once' /\ job[w] \in Pending
         /\ Pending' = Pending \ {job[w]} /\ Active' = Active \cup {job[w]}
         /\ UNCHANGED past
<1>1. /\ pc[w] = "pop" /\ Goto(w, "open") /\ pc'[w] = "open"
      /\ \A v \in Workers \ {w} : pc'[v] = pc[v]
      /\ UNCHANGED <<queue, stack, job, njob, todo, past>>
  BY DEF StartStacked, At, Goto, Types, local
<1>2. job[w] \in Popped
  BY <1>1 DEF Popped, On
<1>3. /\ Popped' = Popped \ {job[w]} /\ Active' = Active \cup {job[w]}
      /\ OneHolder'
  BY <1>1, HeldMoves DEF Once, Held, Listing, Places, Locking
<1>4. /\ Queued' = Queued /\ Stacked' = Stacked /\ OneSlot' /\ OneEntry'
      /\ UNCHANGED <<listed, skipped>>
  BY <1>1, QueueSame, StackSame
  DEF Once, Distinct, OneSlot, OneEntry, queue, Slot, past
<1>5. Apart' /\ Placed' = Placed
  BY <1>2, <1>3, <1>4, PlacedParts DEF Once, Apart
<1>6. job[w] \in Pending /\ Pending' = Pending \ {job[w]}
  BY <1>2, <1>3, <1>4 DEF Once, Apart, Pending, Popped
<1>7. Coming' /\ Parented'
  BY <1>1, <1>4, <1>5, HandsIdle DEF Reading
<1> QED
  BY <1>1, <1>3, <1>4, <1>5, <1>6, <1>7 DEF Once, Distinct

LEMMA OnceTakeJob ==
  ASSUME Types, Types', Once, NEW w \in Workers, TakeJob(w),
         queueTail < queueHead
  PROVE  /\ Once' /\ job'[w] \in Pending
         /\ Pending' = Pending \ {job'[w]} /\ Active' = Active \cup {job'[w]}
         /\ UNCHANGED past
<1> DEFINE d == ring[Slot(queueTail)]
<1>1. /\ pc[w] = "take" /\ Goto(w, "giveSlot") /\ pc'[w] = "giveSlot"
      /\ job'[w] = d /\ queueTail' = queueTail + 1
      /\ \A v \in Workers \ {w} : pc'[v] = pc[v] /\ job'[v] = job[v]
      /\ UNCHANGED <<ring, queueHead, stack, njob, todo, past>>
  BY DEF TakeJob, At, Goto, Types
<1>2. d \in Queued /\ Queued' = Queued \ {d} /\ OneSlot'
  BY <1>1, QueueTake DEF Once
<1>3. Popped' = Popped /\ Active' = Active \cup {d} /\ OneHolder'
  <2>1. d \notin Popped \cup Active
    BY <1>2 DEF Once, Apart
  <2> HIDE DEF d
  <2> QED
    BY <1>1, <2>1, HeldMoves DEF Once, Held, Listing, Places, Locking
<1> HIDE DEF d
<1>4. Stacked' = Stacked /\ OneEntry' /\ UNCHANGED <<listed, skipped>>
  BY <1>1, StackSame DEF Once, Distinct, OneEntry, past
<1>5. Apart' /\ Placed' = Placed
  BY <1>2, <1>3, <1>4, PlacedParts DEF Once, Apart
<1>6. d \in Pending /\ Pending' = Pending \ {d}
  BY <1>2, <1>3, <1>4 DEF Once, Apart, Pending, Popped
<1>7. Coming' /\ Parented'
  BY <1>1, <1>4, <1>5, HandsIdle DEF Reading
<1> QED
  BY <1>1, <1>2, <1>3, <1>4, <1>5, <1>6, <1>7 DEF Once, Distinct

\* Nobody has placed a child of the directory that is now opened, for no other
\* worker has had it in hand and it has not been listed.
LEMMA OnceOpenDir ==
  ASSUME Types, Types', Once, NEW w \in Workers, OpenDir(w)
  PROVE  Once' /\ UNCHANGED <<Pending, Active, past>>
<1>1. /\ pc[w] = "open" /\ Goto(w, "read") /\ pc'[w] = "read"
      /\ \A v \in Workers \ {w} : pc'[v] = pc[v] /\ todo'[v] = todo[v]
      /\ todo'[w] = Children[job[w]] /\ job[w] \in Dirs
      /\ UNCHANGED <<queue, stack, job, njob, past>>
  BY DEF OpenDir, At, Goto, Types
<1>2. job[w] \in Active
  BY <1>1 DEF Active, On, Listing
<1>3. Popped' = Popped /\ Active' = Active /\ OneHolder'
  <2>1. /\ Popped' = Popped /\ Active' = (Active \ {job[w]}) \cup {job[w]}
        /\ OneHolder'
    <3>1. /\ "read" \in Places \cap Listing /\ "read" # "pop" /\ pc[w] \in Held
          /\ pc[w] # "pop" /\ pc[w] \in Listing /\ job'[w] = job[w]
          /\ \A v \in Workers \ {w} : job'[v] = job[v]
      BY <1>1 DEF Held, Listing, Places
    <3>2. Types /\ Distinct
      BY DEF Once
    <3>3. /\ Popped' = (Popped \ (IF pc[w] = "pop" THEN {job[w]} ELSE {}))
                        \cup (IF "read" = "pop" THEN {job'[w]} ELSE {})
          /\ Active' = (Active \ (IF pc[w] \in Listing THEN {job[w]} ELSE {}))
                        \cup (IF "read" \in Listing THEN {job'[w]} ELSE {})
          /\ OneHolder'
      BY <1>1, <3>1, <3>2, HeldMoves
    <3> QED
      BY <3>1, <3>3
  <2> QED
    BY <1>2, <2>1
<1>4. /\ Queued' = Queued /\ Stacked' = Stacked /\ OneSlot' /\ OneEntry'
      /\ UNCHANGED <<listed, skipped>>
  BY <1>1, QueueSame, StackSame
  DEF Once, Distinct, OneSlot, OneEntry, queue, Slot, past
<1>5. Apart' /\ Placed' = Placed /\ Pending' = Pending
  BY <1>3, <1>4, PlacedParts DEF Once, Apart, Pending, Popped
<1>6. \A c \in Children[job[w]] : c \notin Placed
  <2> SUFFICES ASSUME NEW c \in Children[job[w]] \cap Placed PROVE FALSE
    OBVIOUS
  <2>1. job[w] \notin listed
    BY <1>2 DEF Once, Apart
  <2>2. PICK v \in Workers : pc[v] \in Reading /\ job[v] = job[w]
    BY <1>1, <2>1 DEF Once, Parented
  <2>3. v # w /\ pc[v] \in Held /\ pc[w] \in Held
    BY <1>1, <2>2 DEF Reading, Held, Listing
  <2> QED
    BY <2>2, <2>3 DEF Once, Distinct, OneHolder
<1>7. Coming'
  <2> SUFFICES ASSUME NEW v \in Workers
               PROVE  /\ todo'[v] # {} => pc'[v] \in Reading
                      /\ \A c \in Dirs : InHand(v, c)' =>
                           c \in Children[job'[v]] /\ c \notin Placed'
                      /\ pc'[v] = "put" => /\ njob'[v] \notin todo'[v]
                                           /\ Depth[njob'[v]] <= MaxDepth
    BY DEF Coming
  <2>1. CASE v = w
    BY <1>1, <1>5, <1>6, <2>1 DEF InHand, Reading
  <2>2. CASE v # w
    BY <1>1, <1>5, <2>2 DEF Once, Coming, InHand
  <2> QED
    BY <2>1, <2>2
<1>8. Parented'
  <2>1. \A v \in Workers : pc[v] \in Reading => pc'[v] \in Reading /\ job'[v] = job[v]
    BY <1>1 DEF Reading
  <2> QED
    BY <1>4, <1>5, <2>1, ParentedKept DEF Once
<1> QED
  BY <1>1, <1>3, <1>4, <1>5, <1>7, <1>8 DEF Once, Distinct

\* A subdirectory that readdir returns is placed nowhere, and its depth is one
\* more than that of the directory being read.
LEMMA EntryNew ==
  ASSUME Types, Once, NEW w \in Workers, NEW d, Entry(w, d)
  PROVE  /\ pc[w] = "read" /\ job[w] \in Dirs /\ job[w] \in Active
         /\ d \in Dirs /\ d \in Children[job[w]] /\ d \notin Placed
         /\ Depth[d] = Depth[job[w]] + 1
<1>1. pc[w] = "read" /\ job[w] \in Dirs /\ d \in Dirs /\ d \in todo[w]
  BY DEF Entry, At, Types
<1>2. d \in Children[job[w]] /\ d \notin Placed
  BY <1>1 DEF Once, Coming, InHand
<1>3. job[w] \in Active
  BY <1>1 DEF Active, On, Listing
<1>4. Depth[d] = Depth[job[w]] + 1
  BY <1>1, <1>2, TreeAssumption
<1> QED
  BY <1>1, <1>2, <1>3, <1>4

\* Once w has dropped the entry it read, nobody has it in hand.
LEMMA EntryGone ==
  ASSUME Types, Once, NEW w \in Workers, NEW d, Entry(w, d), Drop(w, d),
         UNCHANGED njob, \A v \in Workers : pc'[v] = "put" => pc[v] = "put"
  PROVE  /\ \A v \in Workers : ~ InHand(v, d)'
         /\ \A v \in Workers : todo'[v] \subseteq todo[v]
<1>1. pc[w] = "read" /\ d \in Dirs /\ d \in todo[w]
  BY DEF Entry, At, Types
<1>2. /\ todo'[w] = todo[w] \ {d}
      /\ \A v \in Workers \ {w} : todo'[v] = todo[v]
  BY DEF Drop, Types
<1>3. ASSUME NEW v \in Workers, InHand(v, d)' PROVE FALSE
  <2>1. InHand(v, d) /\ InHand(w, d)
    BY <1>1, <1>2, <1>3 DEF InHand
  <2>2. v = w
    BY <1>1, <2>1, OneHand DEF Once, Distinct
  <2> QED
    BY <1>1, <1>2, <1>3, <2>2 DEF InHand
<1>4. \A v \in Workers : todo'[v] \subseteq todo[v]
  BY <1>2
<1> QED
  BY <1>3, <1>4

LEMMA OnceOpenFails ==
  ASSUME Types, Types', Once, NEW w \in Workers, OpenFails(w)
  PROVE  /\ Once' /\ job[w] \in Active \cap Flaky
         /\ Active' = Active \ {job[w]} /\ skipped' = skipped \cup {job[w]}
         /\ UNCHANGED <<Pending, listed>>
<1>1. /\ pc[w] = "open" /\ Goto(w, "fail") /\ pc'[w] = "fail"
      /\ \A v \in Workers \ {w} : pc'[v] = pc[v] /\ job'[v] = job[v]
      /\ skipped' = skipped \cup {job[w]} /\ job[w] \in Flaky
      /\ UNCHANGED <<queue, stack, job, njob, todo, listed>>
  BY DEF OpenFails, At, Goto, Types, local
<1>2. job[w] \in Active
  BY <1>1 DEF Active, On, Listing
<1>3. /\ Popped' = Popped /\ Active' = Active \ {job[w]} /\ OneHolder'
  BY <1>1, HeldMoves DEF Once, Held, Listing, Places, Locking
<1>4. /\ Queued' = Queued /\ Stacked' = Stacked /\ OneSlot' /\ OneEntry'
  BY <1>1, QueueSame, StackSame DEF Once, Distinct, OneSlot, OneEntry, queue, Slot
<1>5. Apart' /\ Placed' = Placed
  BY <1>1, <1>2, <1>3, <1>4, PlacedParts DEF Once, Apart
<1>6. Pending' = Pending
  BY <1>3, <1>4 DEF Pending, Popped
<1>7. Coming' /\ Parented'
  BY <1>1, <1>5, HandsIdle DEF Reading
<1> QED
  BY <1>1, <1>2, <1>3, <1>4, <1>5, <1>6, <1>7 DEF Once, Distinct

LEMMA OnceLstatFails ==
  ASSUME Types, Types', Once, NEW w \in Workers, LstatFails(w)
  PROVE  /\ Once'
         /\ \E c \in (Children[job[w]] \cap Flaky) \ Placed :
              skipped' = skipped \cup {c}
         /\ job[w] \in Active /\ UNCHANGED <<Pending, Active, listed>>
<1>1. PICK d \in Flaky : Entry(w, d) /\ Drop(w, d) /\ skipped' = skipped \cup {d}
  BY DEF LstatFails
<1>2. UNCHANGED <<queue, pc, stack, job, njob, listed>>
  BY DEF LstatFails
<1>3. /\ pc[w] = "read" /\ job[w] \in Active /\ d \in Dirs
      /\ d \in Children[job[w]] /\ d \notin Placed
  BY <1>1, EntryNew
<1>4. /\ \A v \in Workers : ~ InHand(v, d)'
      /\ \A v \in Workers : todo'[v] \subseteq todo[v]
  BY <1>1, <1>2, EntryGone
<1>5. /\ Queued' = Queued /\ Stacked' = Stacked
      /\ Popped' = Popped /\ Active' = Active /\ Distinct'
  BY <1>2, QueueSame, StackSame, HeldSame
  DEF Once, Distinct, OneSlot, OneEntry, OneHolder, queue, Slot
<1>6. Apart' /\ Placed' = Placed \cup {d}
  BY <1>1, <1>2, <1>3, <1>5, PlacedParts DEF Once, Apart
<1>7. Pending' = Pending
  BY <1>5 DEF Pending, Popped
<1>8. Coming'
  BY <1>2, <1>4, <1>6, ComingKept DEF Once
<1>9. Parented'
  <2>1. pc'[w] \in Reading /\ d \in Children[job'[w]]
    BY <1>2, <1>3 DEF Reading
  <2> QED
    BY <1>2, <1>6, <2>1, ParentedKept DEF Once
<1> QED
  BY <1>1, <1>2, <1>3, <1>5, <1>6, <1>7, <1>8, <1>9 DEF Once

LEMMA OnceReserveSlot ==
  ASSUME Types, Types', Once, NEW w \in Workers, ReserveSlot(w)
  PROVE  Once' /\ UNCHANGED <<Pending, Active, past>>
<1>1. PICK d \in Dirs : /\ Entry(w, d) /\ Drop(w, d)
                        /\ Depth[job[w]] + 1 <= MaxDepth
                        /\ njob' = [njob EXCEPT ![w] = d] /\ Goto(w, "put")
  BY DEF ReserveSlot
<1>2. UNCHANGED <<queue, stack, job, past>>
  BY DEF ReserveSlot
<1>3. /\ pc[w] = "read" /\ pc'[w] = "put" /\ njob'[w] = d /\ d \in todo[w]
      /\ todo'[w] = todo[w] \ {d} /\ Depth[d] <= MaxDepth
      /\ \A v \in Workers \ {w} : /\ pc'[v] = pc[v] /\ njob'[v] = njob[v]
                                  /\ todo'[v] = todo[v]
  <2>1. pc[w] = "read" /\ Depth[d] = Depth[job[w]] + 1 /\ d \in todo[w]
    BY <1>1, EntryNew DEF Entry
  <2> QED
    BY <1>1, <2>1 DEF Drop, Goto, Types
<1>4. Placed' = Placed /\ Popped' = Popped /\ Active' = Active
  BY <1>2, <1>3, PlacedSame, HeldSame DEF Listing
<1>5. /\ Queued' = Queued /\ Stacked' = Stacked /\ UNCHANGED <<listed, skipped>>
      /\ OneSlot' /\ OneEntry' /\ OneHolder'
  BY <1>2, <1>3, QueueSame, StackSame
  DEF Once, Distinct, OneSlot, OneEntry, OneHolder, queue, Slot, past, Held, Listing
<1>6. Apart' /\ Pending' = Pending
  BY <1>4, <1>5 DEF Once, Apart, Pending, Popped
<1>7. Coming'
  <2>1. \A v \in Workers :
          /\ todo'[v] \subseteq todo[v]
          /\ \/ UNCHANGED <<pc[v], njob[v], job[v]>>
             \/ /\ pc[v] = "read" /\ pc'[v] = "put" /\ job'[v] = job[v]
                /\ njob'[v] \in todo[v] \ todo'[v] /\ Depth[njob'[v]] <= MaxDepth
    BY <1>2, <1>3
  <2> QED
    BY <1>4, <2>1, ComingKept DEF Once
<1>8. Parented'
  <2>1. \A v \in Workers : pc[v] \in Reading => pc'[v] \in Reading /\ job'[v] = job[v]
    BY <1>2, <1>3 DEF Reading
  <2> QED
    BY <1>4, <1>5, <2>1, ParentedKept DEF Once
<1> QED
  BY <1>2, <1>4, <1>5, <1>6, <1>7, <1>8 DEF Once, Distinct

LEMMA OncePushStack ==
  ASSUME Types, Types', Once, NEW w \in Workers, PushStack(w)
  PROVE  /\ Once' /\ job[w] \in Active
         /\ \E c \in Children[job[w]] \ Placed :
              Depth[c] <= MaxDepth /\ Pending' = Pending \cup {c}
         /\ UNCHANGED <<Active, past>>
<1>1. PICK d \in Dirs : /\ Entry(w, d) /\ Drop(w, d)
                        /\ Depth[job[w]] + 1 <= MaxDepth
                        /\ stack' = [stack EXCEPT ![w] = Append(@, d)]
  BY DEF PushStack
<1>2. /\ UNCHANGED <<queue, job, njob, past>>
      /\ \A v \in Workers \ {w} : pc'[v] = pc[v]
      /\ pc[w] = "read" /\ pc'[w] = "push"
  BY DEF PushStack, Entry, At, Goto, Types
<1>3. /\ job[w] \in Active /\ d \in Children[job[w]] /\ d \notin Placed
      /\ Depth[d] <= MaxDepth
  BY <1>1, EntryNew
<1>4. /\ \A v \in Workers : ~ InHand(v, d)'
      /\ \A v \in Workers : todo'[v] \subseteq todo[v]
  BY <1>1, <1>2, EntryGone
<1>5. Stacked' = Stacked \cup {d} /\ OneEntry'
  <2>1. d \notin Stacked
    BY <1>3, PlacedParts
  <2> QED
    BY <1>1, <2>1, StackPush DEF Once
<1>6. /\ Queued' = Queued /\ Popped' = Popped /\ Active' = Active
      /\ UNCHANGED <<listed, skipped>> /\ OneSlot' /\ OneHolder'
  BY <1>2, QueueSame, HeldSame
  DEF Once, Distinct, OneSlot, OneHolder, queue, Slot, past, Held, Listing
<1>7. Apart' /\ Placed' = Placed \cup {d}
  BY <1>3, <1>5, <1>6, PlacedParts DEF Once, Apart
<1>8. Pending' = Pending \cup {d}
  BY <1>5, <1>6 DEF Pending, Popped
<1>9. Coming'
  <2>1. \A v \in Workers :
          \/ UNCHANGED <<pc[v], njob[v], job[v]>>
          \/ pc[v] \in Reading /\ pc'[v] \in Reading \ {"put"} /\ job'[v] = job[v]
    BY <1>2 DEF Reading
  <2> QED
    BY <1>4, <1>7, <2>1, ComingKept DEF Once
<1>10. Parented'
  <2>1. pc'[w] \in Reading /\ d \in Children[job'[w]]
    BY <1>2, <1>3 DEF Reading
  <2>2. \A v \in Workers : pc[v] \in Reading => pc'[v] \in Reading /\ job'[v] = job[v]
    BY <1>2 DEF Reading
  <2> QED
    BY <1>6, <1>7, <2>1, <2>2, ParentedKept DEF Once
<1> QED
  BY <1>2, <1>3, <1>5, <1>6, <1>7, <1>8, <1>9, <1>10 DEF Once, Distinct

LEMMA OncePutJob ==
  ASSUME Types, Types', Once, NEW w \in Workers, PutJob(w),
         queueTail <= queueHead, queueHead - queueTail < QueueLen
  PROVE  /\ Once' /\ job[w] \in Active
         /\ \E c \in Children[job[w]] \ Placed :
              Depth[c] <= MaxDepth /\ Pending' = Pending \cup {c}
         /\ UNCHANGED <<Active, past>>
<1>0. PICK d \in Dirs : d = njob[w]
  BY DEF Types
<1>1. /\ pc[w] = "put" /\ pc'[w] = "putToken"
      /\ ring' = [ring EXCEPT ![Slot(queueHead)] = d]
      /\ queueHead' = queueHead + 1
      /\ \A v \in Workers \ {w} : pc'[v] = pc[v]
      /\ UNCHANGED <<queueTail, stack, job, njob, todo, past>>
  BY <1>0 DEF PutJob, At, Goto, Types, local
<1>2. InHand(w, d) /\ d \notin todo[w] /\ Depth[d] <= MaxDepth
  BY <1>0, <1>1 DEF InHand, Once, Coming
<1>3. d \in Children[job[w]] /\ d \notin Placed
  BY <1>1, <1>2, HandReads DEF Once
<1>4. job[w] \in Active
  BY <1>1 DEF Active, On, Listing
<1>5. Queued' = Queued \cup {d} /\ OneSlot'
  <2>1. d \notin Queued
    BY <1>3, PlacedParts
  <2> QED
    BY <1>1, <2>1, QueuePut DEF Once
<1>6. /\ Stacked' = Stacked /\ Popped' = Popped /\ Active' = Active
      /\ UNCHANGED <<listed, skipped>> /\ OneEntry' /\ OneHolder'
  BY <1>1, StackSame, HeldSame
  DEF Once, Distinct, OneEntry, OneHolder, past, Held, Listing
<1>7. Apart' /\ Placed' = Placed \cup {d}
  BY <1>3, <1>5, <1>6, PlacedParts DEF Once, Apart
<1>8. Pending' = Pending \cup {d}
  BY <1>5, <1>6 DEF Pending, Popped
<1>9. Coming'
  <2>1. ASSUME NEW v \in Workers, InHand(v, d)' PROVE FALSE
    <3>1. CASE v = w
      BY <1>0, <1>1, <1>2, <2>1, <3>1 DEF InHand
    <3>2. CASE v # w
      <4>1. InHand(v, d)
        BY <1>1, <2>1, <3>2 DEF InHand
      <4> QED
        BY <1>1, <1>2, <3>2, <4>1, OneHand DEF Once, Distinct
    <3> QED
      BY <3>1, <3>2
  <2>2. \A v \in Workers :
          /\ todo'[v] \subseteq todo[v]
          /\ \/ UNCHANGED <<pc[v], njob[v], job[v]>>
             \/ pc[v] \in Reading /\ pc'[v] \in Reading \ {"put"} /\ job'[v] = job[v]
    BY <1>1 DEF Reading
  <2> QED
    BY <1>7, <2>1, <2>2, ComingKept DEF Once
<1>10. Parented'
  <2>1. pc'[w] \in Reading /\ d \in Children[job'[w]]
    BY <1>1, <1>3 DEF Reading
  <2>2. \A v \in Workers : pc[v] \in Reading => pc'[v] \in Reading /\ job'[v] = job[v]
    BY <1>1 DEF Reading
  <2> QED
    BY <1>6, <1>7, <2>1, <2>2, ParentedKept DEF Once
<1> QED
  BY <1>1, <1>2, <1>3, <1>4, <1>5, <1>6, <1>7, <1>8, <1>9, <1>10 DEF Once, Distinct

LEMMA OnceCloseDir ==
  ASSUME Types, Types', Once, NEW w \in Workers, CloseDir(w)
  PROVE  /\ Once' /\ job[w] \in Active
         /\ Active' = Active \ {job[w]} /\ listed' = listed \cup {job[w]}
         /\ UNCHANGED <<Pending, skipped>>
<1>1. /\ pc[w] = "read" /\ Goto(w, "done") /\ pc'[w] = "done" /\ todo[w] = {}
      /\ \A v \in Workers \ {w} : pc'[v] = pc[v]
      /\ listed' = listed \cup {job[w]}
      /\ UNCHANGED <<queue, stack, job, njob, todo, skipped>>
  BY DEF CloseDir, At, Goto, Types, local
<1>2. job[w] \in Active
  BY <1>1 DEF Active, On, Listing
<1>3. /\ Popped' = Popped /\ Active' = Active \ {job[w]} /\ OneHolder'
  BY ZenonT(30), <1>1, HeldMoves DEF Once, Held, Listing, Places, Locking
<1>4. /\ Queued' = Queued /\ Stacked' = Stacked /\ OneSlot' /\ OneEntry'
  BY <1>1, QueueSame, StackSame DEF Once, Distinct, OneSlot, OneEntry, queue, Slot
<1>5. Apart' /\ Placed' = Placed
  BY <1>1, <1>2, <1>3, <1>4, PlacedParts DEF Once, Apart
<1>6. Pending' = Pending
  BY <1>3, <1>4 DEF Pending, Popped
<1>7. Coming'
  <2>1. \A v \in Workers :
          /\ todo'[v] \subseteq todo[v]
          /\ \/ UNCHANGED <<pc[v], njob[v], job[v]>>
             \/ todo'[v] = {} /\ pc'[v] # "put"
    BY <1>1
  <2> QED
    BY <1>5, <2>1, ComingKept DEF Once
<1>8. Parented'
  <2>1. \A v \in Workers : pc[v] \in Reading =>
          (pc'[v] \in Reading /\ job'[v] = job[v]) \/ job[v] \in listed'
    BY <1>1
  <2>2. listed \subseteq listed'
    BY <1>1
  <2> QED
    BY <1>5, <2>1, <2>2, ParentedKept DEF Once
<1> QED
  BY <1>1, <1>2, <1>3, <1>4, <1>5, <1>6, <1>7, <1>8 DEF Once, Distinct

\* The invariants of the counters and slots give TakeJob and PutJob what the
\* queue needs: a job to take, and a slot to write.
LEMMA QueueReady ==
  ASSUME Types, Counts, SlotsAccounted, TakeFindsJob, NEW w \in Workers
  PROVE  /\ TakeJob(w) => queueTail < queueHead
         /\ PutJob(w) => /\ queueTail <= queueHead
                         /\ queueHead - queueTail < QueueLen
<1>1. TakeJob(w) => queueTail < queueHead
  BY DEF TakeJob, At, TakeFindsJob
<1>2. ASSUME PutJob(w) PROVE queueHead - queueTail < QueueLen
  <2>1. w \in Reserved
    BY <1>2 DEF PutJob, At, Reserved, On
  <2> QED
    BY <2>1, SlotTypes DEF SlotsAccounted, NReserved, NGive, N
<1> QED
  BY <1>1, <1>2 DEF Counts

LEMMA OnceNext ==
  Types /\ Types' /\ Counts /\ SlotsAccounted /\ TakeFindsJob /\ Once
    /\ [Next]_vars => Once'
<1> SUFFICES ASSUME Types, Types', Counts, SlotsAccounted, TakeFindsJob, Once,
                    [Next]_vars
             PROVE  Once'
  OBVIOUS
<1>1. CASE UNCHANGED vars \/ Quit
  BY <1>1, OnceStutters, WorkersAssumption
<1>2. ASSUME NEW w \in Workers,
             Step(w) \/ Sigterm(w) \/ Interrupt(w)
      PROVE  Once'
  <2>1. CASE PopStack(w) \/ StartStacked(w) \/ OpenDir(w) \/ OpenFails(w)
             \/ LstatFails(w) \/ ReserveSlot(w) \/ PushStack(w) \/ CloseDir(w)
    BY <2>1, OncePopStack, OnceStartStacked, OnceOpenDir, OnceOpenFails,
       OnceLstatFails, OnceReserveSlot, OncePushStack, OnceCloseDir
  <2>2. CASE TakeJob(w) \/ PutJob(w)
    BY <2>2, QueueReady, OnceTakeJob, OncePutJob
  <2>3. CASE \/ Acquire(w) \/ Top(w) \/ CheckIdle(w) \/ PassToken(w)
             \/ TakeToken(w) \/ TakeNothing(w) \/ GiveSlot(w) \/ EndJob(w)
             \/ LeaveListing(w) \/ Sigterm(w) \/ Interrupt(w)
             \/ CountStacked(w) \/ PutToken(w) \/ TooDeep(w)
    BY <2>3, OnceStutters
  <2> QED
    BY <1>2, <2>1, <2>2, <2>3 DEF Step, Choose, List
<1> QED
  BY <1>1, <1>2 DEF Next, Terminated

\* A directory is at one place at a time, whatever the workers do and whenever a
\* shutdown begins: none is queued twice, listed twice, or lost to two readers.
THEOREM OnceInvariant == Spec => []Once
<1> QED
  BY OnceInit, OnceNext, TypesInvariant, CountsInvariant, SlotsInvariant,
     TakeInvariant, PTL
  DEF Spec

-----------------------------------------------------------------------------
(* The step simulation.                                                     *)

IdleEmpty == FoundIdle => Pending = {} /\ Active = {}

LEMMA IdleEmptyInvariant == Spec => []IdleEmpty
<1>1. ASSUME Types, Counts PROVE IdleEmpty
  <2> SUFFICES ASSUME FoundIdle PROVE Pending = {} /\ Active = {}
    BY DEF IdleEmpty
  <2>1. /\ queueHead = queueTail
        /\ \A w \in Workers : pc[w] \notin Running \cup {"pop"}
        /\ \A w \in Workers : Len(stack[w]) = 0
    BY <1>1, NothingLeft
  <2>2. Queued = {} /\ Stacked = {}
    BY <1>1, <2>1 DEF Queued, Stacked, Types
  <2>3. On({"pop"}) = {} /\ On(Listing) = {}
    BY <2>1 DEF On, Running, Listing
  <2> QED
    BY <2>2, <2>3 DEF Pending, Active
<1> QED
  BY <1>1, TypesInvariant, CountsInvariant, PTL

\* Only CheckIdle announces the end, and nothing takes the announcement back.
LEMMA FoundIdleSame ==
  ASSUME Types, NEW w \in Workers,
         PopStack(w) \/ StartStacked(w) \/ TakeJob(w) \/ OpenDir(w)
         \/ OpenFails(w) \/ LstatFails(w) \/ ReserveSlot(w) \/ PushStack(w)
         \/ PutJob(w) \/ CloseDir(w)
  PROVE  FoundIdle' = FoundIdle
<1>1. /\ \A v \in Workers \ {w} : pc'[v] = pc[v]
      /\ pc[w] # "passToken" /\ pc'[w] # "passToken"
  BY DEF PopStack, StartStacked, TakeJob, OpenDir, OpenFails, LstatFails,
     ReserveSlot, PushStack, PutJob, CloseDir, Entry, At, Goto, Types
<1> QED
  BY <1>1 DEF FoundIdle

LEMMA FoundIdleKept ==
  ASSUME Types, FoundIdle, [Next]_vars
  PROVE  FoundIdle'
<1>1. PICK v \in Workers : pc[v] = "passToken"
  BY DEF FoundIdle
<1>2. pc'[v] = "passToken"
  <2>1. CASE UNCHANGED vars \/ Quit
    BY <1>1, <2>1 DEF vars, Quit
  <2>2. ASSUME NEW w \in Workers, Step(w) \/ Sigterm(w) \/ Interrupt(w)
        PROVE  pc'[v] = "passToken"
    <3>1. UNCHANGED pc \/ \E p \in Places : Goto(w, p) /\ pc[w] # "passToken"
      <4>1. CASE Acquire(w) \/ Top(w) \/ CheckIdle(w) \/ PassToken(w) \/ Choose(w)
        BY <4>1 DEF Acquire, Top, CheckIdle, PassToken, Choose, PopStack,
           StartStacked, TakeToken, TakeNothing, TakeJob, GiveSlot, At,
           Places, Locking
      <4>2. CASE List(w) \/ Sigterm(w) \/ Interrupt(w)
        BY <4>2 DEF List, OpenDir, OpenFails, LstatFails, TooDeep, ReserveSlot,
           PushStack, CountStacked, PutJob, PutToken, CloseDir, EndJob,
           LeaveListing, Sigterm, Interrupt, Entry, At, Places, Locking
      <4> QED
        BY <2>2, <4>1, <4>2 DEF Step
    <3> QED
      BY <1>1, <3>1 DEF Goto, Types
  <2> QED
    BY <2>1, <2>2 DEF Next, Terminated
<1> QED
  BY <1>2 DEF FoundIdle

\* Every step of the pool is a step of the abstract traversal, or changes none
\* of its variables.
LEMMA StepSimulates ==
  ASSUME Types, Types', Counts, SlotsAccounted, TakeFindsJob, Found, Once,
         IdleEmpty', [Next]_vars
  PROVE  [Traversal!Next]_(Traversal!tvars)
<1> USE DEF Traversal!tvars
<1>1. Traversal!Seen = Placed
  BY DEF Traversal!Seen, Placed
\* Steps that change none of the four sets: the announcement, or a stutter.
<1>2. ASSUME UNCHANGED <<Pending, Active, past>>
      PROVE  [Traversal!Next]_(Traversal!tvars)
  <2>1. UNCHANGED <<listed, skipped>>
    BY <1>2 DEF past
  <2>2. CASE FoundIdle' = FoundIdle
    BY <1>2, <2>1, <2>2
  <2>3. CASE FoundIdle' # FoundIdle
    <3>1. FoundIdle' = TRUE
      BY <2>3, FoundIdleKept DEF FoundIdle
    <3>2. Pending' = {} /\ Active' = {}
      BY <3>1 DEF IdleEmpty
    <3>3. Traversal!Announce
      BY <1>2, <2>1, <3>1, <3>2 DEF Traversal!Announce
    <3> QED
      BY <3>3 DEF Traversal!Next
  <2> QED
    BY <2>2, <2>3
<1>3. CASE UNCHANGED vars \/ Quit
  BY <1>2, <1>3, OnceStutters, WorkersAssumption
<1>4. ASSUME NEW w \in Workers, Step(w) \/ Sigterm(w) \/ Interrupt(w)
      PROVE  [Traversal!Next]_(Traversal!tvars)
  <2>1. CASE \/ Acquire(w) \/ Top(w) \/ CheckIdle(w) \/ PassToken(w)
             \/ TakeToken(w) \/ TakeNothing(w) \/ GiveSlot(w) \/ EndJob(w)
             \/ LeaveListing(w) \/ Sigterm(w) \/ Interrupt(w)
             \/ CountStacked(w) \/ PutToken(w) \/ TooDeep(w)
    BY <1>2, <2>1, OnceStutters
  <2>2. CASE PopStack(w) \/ OpenDir(w) \/ ReserveSlot(w)
    BY <1>2, <2>2, OncePopStack, OnceOpenDir, OnceReserveSlot
  <2>3. CASE StartStacked(w) \/ TakeJob(w)
    <3>1. PICK d \in Dirs : /\ d \in Pending /\ Pending' = Pending \ {d}
                            /\ Active' = Active \cup {d} /\ UNCHANGED past
      BY <2>3, OnceStartStacked, OnceTakeJob, QueueReady DEF Types
    <3>2. FoundIdle' = FoundIdle
      BY <2>3, FoundIdleSame
    <3>3. Traversal!Start(d)
      BY <3>1, <3>2 DEF Traversal!Start, past
    <3> QED
      BY <3>3 DEF Traversal!Next
  <2>4. CASE PushStack(w) \/ PutJob(w)
    <3>1. PICK c \in Children[job[w]] \ Placed :
            Depth[c] <= MaxDepth /\ Pending' = Pending \cup {c}
      BY <2>4, OncePushStack, OncePutJob, QueueReady
    <3>2. job[w] \in Active /\ UNCHANGED <<Active, past>>
      BY <2>4, OncePushStack, OncePutJob, QueueReady
    <3>3. job[w] \in Dirs /\ c \in Dirs
      BY <3>1, TreeAssumption DEF Types
    <3>4. FoundIdle' = FoundIdle
      BY <2>4, FoundIdleSame
    <3>5. Traversal!Discover(job[w], c)
      BY <1>1, <3>1, <3>2, <3>4 DEF Traversal!Discover, past
    <3> QED
      BY <3>3, <3>5 DEF Traversal!Next
  <2>5. CASE LstatFails(w)
    <3>1. PICK c \in (Children[job[w]] \cap Flaky) \ Placed :
            skipped' = skipped \cup {c}
      BY <2>5, OnceLstatFails
    <3>2. job[w] \in Active /\ UNCHANGED <<Pending, Active, listed>>
      BY <2>5, OnceLstatFails
    <3>3. job[w] \in Dirs /\ c \in Dirs
      BY <3>1, TreeAssumption DEF Types
    <3>4. FoundIdle' = FoundIdle
      BY <2>5, FoundIdleSame
    <3>5. Traversal!Omit(job[w], c)
      BY <1>1, <3>1, <3>2, <3>4 DEF Traversal!Omit
    <3> QED
      BY <3>3, <3>5 DEF Traversal!Next
  <2>6. CASE OpenFails(w)
    <3>1. /\ job[w] \in Active \cap Flaky /\ job[w] \in Dirs
          /\ Active' = Active \ {job[w]} /\ skipped' = skipped \cup {job[w]}
          /\ UNCHANGED <<Pending, listed>>
      BY <2>6, OnceOpenFails DEF Types
    <3>2. FoundIdle' = FoundIdle
      BY <2>6, FoundIdleSame
    <3>3. Traversal!Fail(job[w])
      BY <3>1, <3>2 DEF Traversal!Fail
    <3> QED
      BY <3>1, <3>3 DEF Traversal!Next
  <2>7. CASE CloseDir(w)
    <3>1. /\ job[w] \in Active /\ job[w] \in Dirs
          /\ Active' = Active \ {job[w]} /\ listed' = listed \cup {job[w]}
          /\ UNCHANGED <<Pending, skipped>>
      BY <2>7, OnceCloseDir DEF Types
    \* All the wanted subdirectories of the directory have been placed.
    <3>2. Wanted(job[w]) \subseteq Placed
      BY <2>7 DEF CloseDir, At, Found, Reading, InHand
    <3>3. FoundIdle' = FoundIdle
      BY <2>7, FoundIdleSame
    <3>4. Traversal!Finish(job[w])
      BY <1>1, <3>1, <3>2, <3>3 DEF Traversal!Finish, Wanted
    <3> QED
      BY <3>1, <3>4 DEF Traversal!Next
  <2> QED
    BY <1>4, <2>1, <2>2, <2>3, <2>4, <2>5, <2>6, <2>7 DEF Step, Choose, List
<1> QED
  BY <1>3, <1>4 DEF Next, Terminated

LEMMA InitSimulates == Init => Traversal!Init
<1> SUFFICES ASSUME Init PROVE Traversal!Init
  OBVIOUS
<1>1. /\ On({"pop"}) = {} /\ On(Listing) = {} /\ Stacked = {} /\ FoundIdle = FALSE
  BY DEF Init, On, Listing, Stacked, FoundIdle
<1>2. Queued = {Root}
  <2>1. queueTail..(queueHead - 1) = {0} /\ ring[Slot(0)] = Root
    BY SlotType DEF Init
  <2> QED
    BY <2>1 DEF Queued
<1> QED
  BY <1>1, <1>2 DEF Traversal!Init, Pending, Active, Init

\* The pool implements the abstract traversal: each directory is discovered at
\* most once, listed by one worker after it was discovered and once all its
\* wanted subdirectories are, and the end is announced with nothing left.
THEOREM ImplementsTraversal == Spec => TraversalSpec
<1>1. Spec => [][Traversal!Next]_(Traversal!tvars)
  BY StepSimulates, TypesInvariant, CountsInvariant, SlotsInvariant,
     TakeInvariant, FoundInvariant, OnceInvariant, IdleEmptyInvariant, PTL
  DEF Spec
<1> QED
  BY <1>1, InitSimulates, PTL DEF Spec, TraversalSpec, Traversal!Spec
=============================================================================
