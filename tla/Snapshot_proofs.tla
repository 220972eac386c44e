-------------------------- MODULE Snapshot_proofs --------------------------
(***************************************************************************)
(* Theorems about Snapshot, for every finite set of writers, every tree,    *)
(* every set of entries that may fail and any number of kills: types, the   *)
(* exclusion that region locks give, the two counters of the header, and    *)
(* the seal.                                                                *)
(***************************************************************************)
EXTENDS Snapshot, FiniteSetTheorems, TLAPS

-----------------------------------------------------------------------------
(* Layer 1.  Types, with what keeps the naturals of TypeOK natural.          *)

RowType == [key : Keys \cup {0}, value : Nat]

\* The places of an upsert, where the entry in hand is a key.
Upserting == {"scan", "row", "found", "replace", "write", "add", "adding"}

FileTypes ==
  /\ kind \in Kinds /\ size \in -1..3 /\ headers \in Nat
  /\ hdr \in [Fields -> Nat] /\ hdr[WRITERS] < CounterMod
  /\ rows \in Seq(RowType)

LockTypes == /\ reads \in [Writers -> SUBSET Int]
             /\ writes \in [Writers -> SUBSET Int]

LocalTypes ==
  /\ pc \in [Writers -> Places]
  /\ frames \in [Writers -> Seq(SUBSET Keys)]
  /\ entry \in [Writers -> Keys \cup {0}]
  /\ togo \in [Writers -> Nat] /\ pos \in [Writers -> Nat]
  /\ tmp \in [Writers -> Nat] /\ short \in [Writers -> BOOLEAN]
  /\ \A p \in Writers :
       /\ pc[p] = "row" => togo[p] > 0
       /\ pc[p] \in {"joining", "leaving"} => tmp[p] < CounterMod
       /\ pc[p] \in Upserting => entry[p] \in Keys

PastTypes ==
  /\ dead \subseteq Writers /\ shared \in BOOLEAN /\ torn \in BOOLEAN
  /\ inserted \in Nat
  /\ rpc \in {"idle", "rows"} /\ rn \in Nat

Types == FileTypes /\ LockTypes /\ LocalTypes /\ PastTypes

\* Before a writer opens the file there is nothing to be typed wrong.
LEMMA TypesInit == Init => Types
<1> SUFFICES ASSUME Init PROVE Types
  OBVIOUS
<1>1. FileTypes
  <2>1. << >> \in Seq(RowType)
    OBVIOUS
  <2>2. hdr \in [Fields -> Nat] /\ hdr[WRITERS] = 0
    BY DEF Init, Fields, WRITERS
  <2>3. 0 < CounterMod
    BY BoundsAssumption DEF BoundsAssumption
  <2> QED
    BY <2>1, <2>2, <2>3 DEF Init, FileTypes
<1>2. LockTypes
  BY DEF Init, LockTypes
<1>3. LocalTypes
  <2>1. << >> \in Seq(SUBSET Keys)
    OBVIOUS
  <2> QED
    BY <2>1 DEF Init, LocalTypes, Places, Upserting
<1>4. PastTypes
  BY DEF Init, PastTypes
<1> QED
  BY <1>1, <1>2, <1>3, <1>4 DEF Types

\* The bytes that read() of a header field may leave in a variable.
LEMMA HeldType ==
  ASSUME FileTypes, NEW f \in Fields, NEW v \in MayHold(f)
  PROVE  v \in Nat /\ (f = WRITERS => v < CounterMod)
<1>1. Garbage \subseteq Nat /\ \A g \in Garbage : g < CounterMod
  BY BoundsAssumption DEF BoundsAssumption
<1> QED
  BY <1>1 DEF FileTypes, MayHold, Fields

\* The locks a step takes and gives back are regions.
LEMMA LockTypesKept ==
  ASSUME LockTypes, NEW p \in Writers, NEW r \in Int,
         LockRead(p, r) \/ LockWrite(p, r) \/ Unlock(p, r) \/ UnlockAll(p)
         \/ UNCHANGED <<reads, writes>>
  PROVE  LockTypes'
  BY DEF LockTypes, LockRead, LockWrite, Unlock, UnlockAll

\* db_record_count may leave a read lock behind, or give locks back; it takes none
\* for writing.
LEMMA ReadCountLocks ==
  ASSUME LockTypes, NEW p \in Writers, ReadCount(p)
  PROVE  /\ LockTypes' /\ writes'[p] \subseteq writes[p]
         /\ \A q \in Writers \ {p} : writes'[q] = writes[q]
<1>1. CASE Present(COUNT)
  <2>1. Unlock(p, COUNT)
    BY <1>1 DEF ReadCount
  <2> QED
    BY <2>1, LockTypesKept DEF COUNT, Unlock, LockTypes
<1>2. CASE ~Present(COUNT)
  BY <1>2 DEF ReadCount, COUNT, LockTypes
<1> QED
  BY <1>1, <1>2

\* read() of a field under its lock.
LEMMA FetchTypes ==
  ASSUME Types, NEW p \in Writers, NEW f \in Fields, Fetch(p, f)
  PROVE  /\ LockTypes' /\ torn' \in BOOLEAN
         /\ tmp' \in [Writers -> Nat] /\ short' \in [Writers -> BOOLEAN]
         /\ f = WRITERS => tmp'[p] < CounterMod
         /\ \A q \in Writers \ {p} : tmp'[q] = tmp[q]
<1>1. LockTypes'
  BY LockTypesKept DEF Types, Fetch, Fields, SNAPSTATE, WRITERS, COUNT
<1>2. torn' \in BOOLEAN /\ short' \in [Writers -> BOOLEAN]
  BY DEF Types, Fetch, NoteTorn, Present, LocalTypes, PastTypes
<1>3. PICK v \in MayHold(f) : tmp' = [tmp EXCEPT ![p] = v]
  BY DEF Fetch
<1>4. v \in Nat /\ (f = WRITERS => v < CounterMod)
  BY HeldType DEF Types
<1> QED
  BY <1>1, <1>2, <1>3, <1>4 DEF Types, LocalTypes

\* write() of a field and the unlock behind it.
LEMMA StoreTypes ==
  ASSUME Types, NEW p \in Writers, NEW f \in Fields, NEW v \in Nat,
         f = WRITERS => v < CounterMod, Store(p, f, v), UNCHANGED <<kind, headers, rows>>
  PROVE  FileTypes' /\ LockTypes'
<1> DEFINE hit == IF short[p] THEN SNAPSTATE ELSE f
<1>1. hit \in Fields /\ hit \in Int /\ hit + 4 \in 1..3
  BY DEF Fields, SNAPSTATE, WRITERS, COUNT
<1>2. hdr' = [hdr EXCEPT ![hit] = v] /\ size' = AtLeast(hit + 4) /\ Unlock(p, hit)
  BY DEF Store
<1>3. hit = WRITERS => v < CounterMod
  BY DEF SNAPSTATE, WRITERS
<1>4. LockTypes'
  BY <1>1, <1>2, LockTypesKept DEF Types
<1>5. size' \in -1..3
  BY <1>1, <1>2 DEF Types, FileTypes, AtLeast
<1>6. hdr' \in [Fields -> Nat] /\ hdr'[WRITERS] < CounterMod
  BY <1>1, <1>2, <1>3 DEF Types, FileTypes, Fields
<1> QED
  BY <1>4, <1>5, <1>6 DEF Types, FileTypes

\* db_open_connection keeps the types.
LEMMA TypesConnect ==
  ASSUME Types, NEW p \in Writers, Connect(p) PROVE Types'
<1> USE DEF Types, FileTypes, PastTypes, At, Goto, reader, past, locks, local, file
<1>1. CASE Access(p)
  <2>1. LocalTypes' /\ LockTypes'
    BY <1>1 DEF Access, LocalTypes, LockTypes, Places, Upserting
  <2>2. shared' \in BOOLEAN
    BY <1>1 DEF Access
  <2> QED
    BY <1>1, <2>1, <2>2 DEF Access
<1>2. CASE Create(p)
  <2>1. LocalTypes' /\ LockTypes'
    BY <1>2 DEF Create, LocalTypes, LockTypes, Places, Upserting
  <2> QED
    BY <1>2, <2>1 DEF Create, AtLeast
<1>3. CASE WriteHeader(p)
  <2>1. LockTypes'
    BY <1>3 DEF WriteHeader, LockTypes
  <2>2. LocalTypes'
    <3>1. <<Roots[p]>> \in Seq(SUBSET Keys)
      BY KeysAssumption DEF KeysAssumption
    <3> QED
      BY <1>3, <3>1 DEF WriteHeader, LocalTypes, Places, Upserting
  <2>3. hdr' \in [Fields -> Nat] /\ hdr'[WRITERS] = 1
    BY <1>3 DEF WriteHeader, Fields, SNAPSTATE, WRITERS, COUNT, Open
  <2>4. 1 < CounterMod
    BY BoundsAssumption DEF BoundsAssumption
  <2>5. size' = 3 /\ headers' = headers + 1 /\ UNCHANGED <<kind, rows, dead, past, torn, reader>>
    BY <1>3 DEF WriteHeader
  <2> QED
    BY <2>1, <2>2, <2>3, <2>4, <2>5
<1>4. CASE CheckSealed(p)
  <2>1. LockTypes'
    <3>1. LockRead(p, SNAPSTATE) \/ UNCHANGED <<reads, writes>>
      BY <1>4 DEF CheckSealed
    <3> QED
      BY <3>1, LockTypesKept DEF SNAPSTATE
  <2>2. PICK l \in {"refused", "join"} : pc' = [pc EXCEPT ![p] = l]
    BY <1>4 DEF CheckSealed
  <2>3. LocalTypes'
    BY <1>4, <2>2 DEF CheckSealed, LocalTypes, Places, Upserting
  <2> QED
    BY <1>4, <2>1, <2>3 DEF CheckSealed, NoteTorn, Present
<1>5. CASE JoinRead(p)
  <2>1. WRITERS \in Fields /\ Fetch(p, WRITERS)
    BY <1>5 DEF JoinRead, Fields
  <2>2. LocalTypes'
    BY <1>5, <2>1, FetchTypes DEF JoinRead, LocalTypes, Places, Upserting
  <2> QED
    BY <1>5, <2>1, <2>2, FetchTypes DEF JoinRead
<1>6. CASE JoinWrite(p)
  <2> DEFINE v == (tmp[p] + 1) % CounterMod
  <2>1. v \in Nat /\ v < CounterMod
    BY BoundsAssumption DEF BoundsAssumption, LocalTypes
  <2>2. FileTypes' /\ LockTypes'
    BY <1>6, <2>1, StoreTypes DEF JoinWrite, Fields
  <2>3. LocalTypes'
    <3>1. <<Roots[p]>> \in Seq(SUBSET Keys)
      BY KeysAssumption DEF KeysAssumption
    <3> QED
      BY <1>6, <3>1 DEF JoinWrite, LocalTypes, Places, Upserting, Forget
  <2> QED
    BY <1>6, <2>2, <2>3 DEF JoinWrite
<1> QED
  BY <1>1, <1>2, <1>3, <1>4, <1>5, <1>6 DEF Connect

\* What is left of the directories after an entry.
LEMMA RestType ==
  ASSUME LocalTypes, NEW p \in Writers, NEW k, NEW d \in Busy(p)
  PROVE  /\ Rest(p, k, d) \in Seq(SUBSET Keys)
         /\ SubSeq(frames[p], 1, d - 1) \in Seq(SUBSET Keys)
<1>1. frames[p] \in Seq(SUBSET Keys) /\ d \in 1..Len(frames[p])
  BY DEF LocalTypes, Busy
<1>2. /\ SubSeq(frames[p], 1, d) \in Seq(SUBSET Keys)
      /\ SubSeq(frames[p], 1, d - 1) \in Seq(SUBSET Keys)
      /\ Len(SubSeq(frames[p], 1, d)) = d
  BY <1>1
<1>3. SubSeq(frames[p], 1, d)[d] \subseteq Keys
  BY <1>1, <1>2
<1> HIDE DEF LocalTypes
<1>4. Rest(p, k, d) \in Seq(SUBSET Keys)
  BY <1>1, <1>2, <1>3 DEF Rest
<1> QED
  BY <1>2, <1>4

\* The listings keep the types.
LEMMA TypesTraverse ==
  ASSUME Types, NEW p \in Writers, Traverse(p) PROVE Types'
<1> USE DEF Types, FileTypes, PastTypes, reader, past, locks, local, file
<1>1. CASE SkipEntry(p)
  <2>1. PICK k \in Flaky, d \in Busy(p) :
           frames' = [frames EXCEPT ![p] = IF kind = "IDX" THEN SubSeq(@, 1, d - 1)
                                                           ELSE Rest(p, k, d)]
    BY <1>1 DEF SkipEntry
  <2>2. frames' \in [Writers -> Seq(SUBSET Keys)]
    BY <2>1, RestType DEF LocalTypes
  <2> QED
    BY <1>1, <2>2 DEF SkipEntry, LocalTypes, LockTypes
<1>2. CASE HashForever(p)
  BY <1>2 DEF HashForever, LocalTypes, LockTypes, Goto, Places, Upserting
<1>3. CASE BeginUpsert(p)
  <2>1. PICK k \in Keys, d \in Busy(p), v \in MayHold(COUNT) :
           /\ frames' = [frames EXCEPT ![p] = Rest(p, k, d)]
           /\ entry' = [entry EXCEPT ![p] = k]
           /\ togo' = [togo EXCEPT ![p] = v]
    BY <1>3 DEF BeginUpsert
  <2>2. Rest(p, k, d) \in Seq(SUBSET Keys)
    BY RestType
  <2>3. v \in Nat
    BY HeldType DEF Fields
  <2>4. LocalTypes'
    BY <1>3, <2>1, <2>2, <2>3 DEF BeginUpsert, LocalTypes, Goto, Places, Upserting
  <2> QED
    BY <1>3, <2>4, ReadCountLocks DEF BeginUpsert, ReadCount, NoteTorn, Present
<1> QED
  BY <1>1, <1>2, <1>3 DEF Traverse

\* The return of an upsert.
LEMMA UpsertedTypes ==
  ASSUME LocalTypes, NEW p \in Writers, Upserted(p), entry[p] \in Keys,
         togo' = togo, tmp' \in [Writers -> Nat], short' \in [Writers -> BOOLEAN],
         \A q \in Writers \ {p} : tmp'[q] = tmp[q]
  PROVE  LocalTypes'
<1>1. frames' \in [Writers -> Seq(SUBSET Keys)]
  <2>1. Children[entry[p]] \in SUBSET Keys
    BY KeysAssumption DEF KeysAssumption
  <2>2. Append(frames[p], Children[entry[p]]) \in Seq(SUBSET Keys)
    BY <2>1 DEF LocalTypes
  <2> QED
    BY <2>2 DEF Upserted, LocalTypes
<1>2. pc' = [pc EXCEPT ![p] = "list"]
  BY DEF Upserted, Goto
<1> QED
  BY <1>1, <1>2 DEF Upserted, LocalTypes, Places, Upserting

\* The row an upsert writes.
LEMMA RowTyped ==
  ASSUME LocalTypes, NEW p \in Writers PROVE Row(p) \in RowType
  BY KeysAssumption DEF KeysAssumption, LocalTypes, Row, RowType

\* The upserts keep the types.
LEMMA TypesUpsert ==
  ASSUME Types, NEW p \in Writers, Upsert(p) PROVE Types'
<1> USE DEF Types, FileTypes, PastTypes, reader, past, locks, local, file, At, Goto
<1>0. pos[p] \in Nat /\ pos[p] \in Int
  BY DEF LocalTypes
<1>1. CASE LockRow(p)
  <2>1. LockTypes'
    BY <1>0, <1>1, LockTypesKept DEF LockRow
  <2>2. LocalTypes'
    BY <1>1 DEF LockRow, LocalTypes, Places, Upserting
  <2> QED
    BY <1>1, <2>1, <2>2 DEF LockRow
<1>2. CASE CompareRow(p)
  <2>1. LockTypes'
    BY <1>0, <1>2, LockTypesKept DEF CompareRow, LockTypes
  <2>2. togo[p] \in Nat /\ togo[p] > 0 /\ entry[p] \in Keys
    BY <1>2 DEF CompareRow, LocalTypes, Upserting
  <2>3. togo' \in [Writers -> Nat] /\ pos' \in [Writers -> Nat]
    BY <1>0, <1>2, <2>2 DEF CompareRow, LocalTypes
  <2>4. PICK l \in {"found", "scan"} : pc' = [pc EXCEPT ![p] = l]
    BY <1>2 DEF CompareRow
  <2>5. \A q \in Writers \ {p} : togo'[q] = togo[q]
    BY <1>2 DEF CompareRow, LocalTypes
  <2>6. LocalTypes'
    BY <1>2, <2>2, <2>3, <2>4, <2>5 DEF CompareRow, LocalTypes, Places, Upserting
  <2> QED
    BY <1>2, <2>1, <2>6 DEF CompareRow
<1>3. CASE LockFound(p)
  <2>1. LockTypes'
    BY <1>0, <1>3, LockTypesKept DEF LockFound
  <2>2. LocalTypes'
    BY <1>3 DEF LockFound, LocalTypes, Places, Upserting
  <2> QED
    BY <1>3, <2>1, <2>2 DEF LockFound
<1>4. CASE ReplaceRow(p)
  <2>1. LockTypes'
    BY <1>0, <1>4, LockTypesKept DEF ReplaceRow
  <2>2. LocalTypes'
    BY <1>4, UpsertedTypes DEF ReplaceRow, LocalTypes, Upserting
  <2>3. rows' \in Seq(RowType)
    <3>1. rows' = [i \in 1..Len(rows) |-> IF i = pos[p] + 1 THEN Row(p) ELSE rows[i]]
      <4>1. rows' = [rows EXCEPT ![pos[p] + 1] = Row(p)]
        BY <1>4 DEF ReplaceRow
      <4>2. rows' = [i \in DOMAIN rows |-> IF i = pos[p] + 1 THEN Row(p) ELSE rows[i]]
        BY ONLY <4>1, Zenon
      <4> QED
        BY <4>2
    <3>2. Row(p) \in RowType /\ \A i \in 1..Len(rows) : rows[i] \in RowType
      BY RowTyped
    <3> QED
      BY <3>1, <3>2
  <2> QED
    BY <1>4, <2>1, <2>2, <2>3 DEF ReplaceRow
<1>5. CASE LockFree(p)
  <2>1. LockTypes'
    BY <1>0, <1>5, LockTypesKept DEF LockFree
  <2>2. LocalTypes'
    BY <1>5 DEF LockFree, LocalTypes, Places, Upserting
  <2> QED
    BY <1>5, <2>1, <2>2 DEF LockFree
<1>6. CASE SkipLocked(p)
  BY <1>0, <1>6 DEF SkipLocked, LockTypes, LocalTypes
<1>7. CASE InsertRow(p)
  <2>1. LockTypes'
    BY <1>0, <1>7, LockTypesKept DEF InsertRow
  <2>2. LocalTypes'
    BY <1>7 DEF InsertRow, LocalTypes, Places, Upserting
  <2>3. rows' \in Seq(RowType)
    <3>1. PICK n \in Nat :
            rows' = [i \in 1..n |-> IF i = pos[p] + 1 THEN Row(p)
                                    ELSE IF i <= Len(rows) THEN rows[i] ELSE Hole]
      BY <1>0, <1>7 DEF InsertRow
    <3>2. Row(p) \in RowType /\ Hole \in RowType
      BY RowTyped DEF Hole, RowType
    <3>3. \A i \in 1..n : i <= Len(rows) => rows[i] \in RowType
      OBVIOUS
    <3> QED
      BY <3>1, <3>2, <3>3
  <2> QED
    BY <1>7, <2>1, <2>2, <2>3 DEF InsertRow
<1>8. CASE AddRead(p)
  <2>1. COUNT \in Fields /\ Fetch(p, COUNT)
    BY <1>8 DEF AddRead, Fields
  <2>2. LocalTypes'
    BY <1>8, <2>1, FetchTypes DEF AddRead, LocalTypes, Places, Upserting
  <2> QED
    BY <1>8, <2>1, <2>2, FetchTypes DEF AddRead
<1>9. CASE AddWrite(p)
  <2>1. tmp[p] + 1 \in Nat /\ COUNT \in Fields /\ COUNT # WRITERS
    BY DEF LocalTypes, Fields, COUNT, WRITERS
  <2>2. FileTypes' /\ LockTypes'
    BY <1>9, <2>1, StoreTypes DEF AddWrite
  <2>3. LocalTypes'
    BY <1>9, UpsertedTypes DEF AddWrite, LocalTypes, Upserting, Forget
  <2> QED
    BY <1>9, <2>2, <2>3 DEF AddWrite
<1> QED
  BY <1>1, <1>2, <1>3, <1>4, <1>5, <1>6, <1>7, <1>8, <1>9 DEF Upsert

\* db_close_connection keeps the types.
LEMMA TypesClose ==
  ASSUME Types, NEW p \in Writers, Close(p) PROVE Types'
<1> USE DEF Types, FileTypes, PastTypes, reader, past, locks, local, file, At, Goto
<1>1. CASE LeaveRead(p)
  <2>1. WRITERS \in Fields /\ Fetch(p, WRITERS)
    BY <1>1 DEF LeaveRead, Fields
  <2>2. << >> \in Seq(SUBSET Keys)
    OBVIOUS
  <2>3. LocalTypes'
    BY <1>1, <2>1, <2>2, FetchTypes DEF LeaveRead, LocalTypes, Places, Upserting
  <2> QED
    BY <1>1, <2>1, <2>3, FetchTypes DEF LeaveRead
<1>2. CASE LeaveUncounted(p)
  <2>1. LockTypes'
    BY <1>2, LockTypesKept DEF LeaveUncounted, SNAPSTATE, WRITERS
  <2>2. LocalTypes'
    BY <1>2 DEF LeaveUncounted, LocalTypes, Places, Upserting, Forget
  <2> QED
    BY <1>2, <2>1, <2>2 DEF LeaveUncounted
<1>3. CASE LeaveLast(p)
  <2>1. 0 < CounterMod
    BY BoundsAssumption DEF BoundsAssumption
  <2>2. FileTypes' /\ LockTypes'
    BY <1>3, <2>1, StoreTypes DEF LeaveLast, Fields
  <2>3. LocalTypes'
    BY <1>3 DEF LeaveLast, LocalTypes, Places, Upserting, Forget
  <2> QED
    BY <1>3, <2>2, <2>3 DEF LeaveLast
<1>4. CASE LeaveOthers(p)
  <2>1. LockTypes'
    BY <1>4, LockTypesKept DEF LeaveOthers
  <2>2. LocalTypes'
    BY <1>4 DEF LeaveOthers, LocalTypes, Places, Upserting, Forget
  <2>3. tmp[p] - 1 \in Nat /\ tmp[p] - 1 < CounterMod
    BY <1>4, BoundsAssumption DEF LeaveOthers, LocalTypes, BoundsAssumption
  <2>4. hdr' \in [Fields -> Nat] /\ hdr'[WRITERS] < CounterMod
    BY <1>4, <2>3 DEF LeaveOthers, Fields
  <2> QED
    BY <1>4, <2>1, <2>2, <2>4 DEF LeaveOthers, AtLeast
<1>5. CASE Seal(p)
  <2>1. LockTypes'
    BY <1>5, LockTypesKept DEF Seal
  <2>2. LocalTypes'
    BY <1>5 DEF Seal, LocalTypes, Places, Upserting
  <2>3. hdr' \in [Fields -> Nat] /\ hdr'[WRITERS] < CounterMod
    BY <1>5 DEF Seal, Fields, SealedState, SNAPSTATE, WRITERS
  <2> QED
    BY <1>5, <2>1, <2>2, <2>3 DEF Seal, AtLeast
<1> QED
  BY <1>1, <1>2, <1>3, <1>4, <1>5 DEF Close

\* Every step of every program keeps the types.
LEMMA TypesNext == Types /\ [Next]_vars => Types'
<1> SUFFICES ASSUME Types, [Next]_vars PROVE Types'
  OBVIOUS
<1> USE DEF Types, FileTypes, PastTypes, LockTypes, LocalTypes, reader, past, locks,
            local, file
<1>1. ASSUME NEW p \in Writers, Step(p) PROVE Types'
  BY <1>1, TypesConnect, TypesTraverse, TypesUpsert, TypesClose DEF Step
<1>2. ASSUME NEW p \in Writers, Kill(p) PROVE Types'
  <2>1. LockTypes'
    BY <1>2, LockTypesKept DEF Kill
  <2> QED
    BY <1>2, <2>1 DEF Kill
<1>3. CASE Diff
  <2>1. COUNT \in Fields
    BY DEF Fields
  <2> QED
    BY <1>3, <2>1 DEF Diff, DiffCount, DiffRead
<1>4. CASE UNCHANGED vars
  BY <1>4 DEF vars
<1> QED
  BY <1>1, <1>2, <1>3, <1>4 DEF Next, Terminated

THEOREM TypesInvariant == Spec => []Types
<1> QED
  BY TypesInit, TypesNext, PTL DEF Spec

\* Every variable of a snapshot and of the programs that use it keeps its type,
\* whatever a short read returns and whoever is killed.
THEOREM TypeCorrect == Spec => []TypeOK
<1>1. Types => TypeOK
  BY DEF Types, FileTypes, LockTypes, LocalTypes, PastTypes, RowType, TypeOK
<1> QED
  BY <1>1, TypesInvariant, PTL

-----------------------------------------------------------------------------
(* Layer 2.  Locks: a step of one writer leaves the others alone, no region  *)
(* has two writers, and the field that is being changed is locked.           *)

\* What a step of p may change of the others, and of its own locks.
Alone(p) ==
  /\ \A q \in Writers \ {p} :
       /\ writes'[q] = writes[q] /\ pc'[q] = pc[q]
       /\ tmp'[q] = tmp[q] /\ short'[q] = short[q]
       /\ q \in dead' <=> q \in dead
  /\ \A r \in writes'[p] : r \in writes[p] \/ MayWrite(p, r)

\* fcntl and the local variables of a process are its own.
LEMMA StepAlone ==
  ASSUME Types, NEW p \in Writers, Step(p) \/ Kill(p) PROVE Alone(p)
<1> USE DEF Types, LockTypes, LocalTypes, Alone, At, Goto, locks, local, past, reader,
            LockRead, LockWrite, Unlock, UnlockAll, Fetch, Store, Forget
<1>1. CASE Access(p) \/ Create(p) \/ WriteHeader(p) \/ CheckSealed(p)
  <2>1. UNCHANGED <<writes, tmp, short, dead>> /\ \E l : pc' = [pc EXCEPT ![p] = l]
    BY <1>1 DEF Access, Create, WriteHeader, CheckSealed
  <2> QED
    BY <2>1
<1>2. CASE JoinRead(p)
  BY <1>2 DEF JoinRead
<1>3. CASE JoinWrite(p)
  BY <1>3 DEF JoinWrite
<1>4. CASE SkipEntry(p) \/ HashForever(p) \/ BeginUpsert(p)
  <2>1. UNCHANGED <<tmp, short, dead>>
        /\ (UNCHANGED writes \/ ReadCount(p))
        /\ (UNCHANGED pc \/ \E l : pc' = [pc EXCEPT ![p] = l])
    BY <1>4 DEF SkipEntry, HashForever, BeginUpsert
  <2>2. /\ writes'[p] \subseteq writes[p]
        /\ \A q \in Writers \ {p} : writes'[q] = writes[q]
    BY <2>1, ReadCountLocks
  <2> QED
    BY <2>1, <2>2
<1>5. CASE LockRow(p) \/ LockFound(p) \/ LockFree(p) \/ SkipLocked(p)
  BY <1>5 DEF LockRow, LockFound, LockFree, SkipLocked
<1>6. CASE CompareRow(p)
  <2>1. UNCHANGED <<tmp, short, dead>> /\ (UNCHANGED writes \/ Unlock(p, pos[p]))
        /\ \E l : pc' = [pc EXCEPT ![p] = l]
    BY <1>6 DEF CompareRow
  <2> QED
    BY <2>1
<1>7. CASE ReplaceRow(p)
  BY <1>7 DEF ReplaceRow, Upserted
<1>8. CASE InsertRow(p)
  BY <1>8 DEF InsertRow
<1>9. CASE AddRead(p)
  BY <1>9 DEF AddRead
<1>10. CASE AddWrite(p)
  BY <1>10 DEF AddWrite, Upserted
<1>11. CASE LeaveRead(p)
  BY <1>11 DEF LeaveRead
<1>12. CASE LeaveUncounted(p) \/ LeaveLast(p)
  BY <1>12 DEF LeaveUncounted, LeaveLast
<1>13. CASE LeaveOthers(p) \/ Seal(p)
  BY <1>13 DEF LeaveOthers, Seal
<1>14. CASE Kill(p)
  BY <1>14 DEF Kill
<1> QED
  BY <1>1, <1>2, <1>3, <1>4, <1>5, <1>6, <1>7, <1>8, <1>9, <1>10, <1>11, <1>12, <1>13,
     <1>14 DEF Step, Connect, Traverse, Upsert, Close

\* db_diff, and a program that stutters, change nothing of a writer.
LEMMA DiffAlone == Diff \/ UNCHANGED vars =>
  UNCHANGED <<file, locks, pc, local, dead, past, torn>>
  BY DEF Diff, DiffCount, DiffRead, vars

Exclusive == \A p, q \in Writers : p # q => writes[p] \cap writes[q] = {}

\* A live writer in the middle of a change of a counter has its region.
Held == \A p \in Writers \ dead :
  /\ pc[p] = "adding" => COUNT \in writes[p]
  /\ pc[p] \in {"joining", "leaving"} => WRITERS \in writes[p]

Locked == Exclusive /\ Held

LEMMA LockedInit == Init => Locked
  BY DEF Init, Locked, Exclusive, Held

\* Locks are granted only where no other writer has one, and are held from the
\* read of a counter to its write.
LEMMA LockedNext == Types /\ Locked /\ [Next]_vars => Locked'
<1> SUFFICES ASSUME Types, Locked, [Next]_vars PROVE Locked'
  OBVIOUS
<1>1. ASSUME NEW p \in Writers, Step(p) \/ Kill(p) PROVE Locked'
  <2>1. Alone(p)
    BY <1>1, StepAlone
  <2>2. ASSUME NEW q \in Writers \ {p}, NEW r, r \in writes'[p], r \in writes'[q]
        PROVE  FALSE
    <3>1. r \in writes[q] /\ writes[p] \cap writes[q] = {}
      BY <2>1, <2>2 DEF Alone, Locked, Exclusive
    <3>2. ~MayWrite(p, r)
      BY <3>1 DEF MayWrite
    <3> QED
      BY <2>1, <2>2, <3>1, <3>2 DEF Alone
  <2>5. Exclusive'
    <3> SUFFICES ASSUME NEW a \in Writers, NEW b \in Writers, a # b,
                        NEW r, r \in writes'[a], r \in writes'[b]
                 PROVE  FALSE
      BY DEF Exclusive
    <3>1. a # p /\ b # p
      BY <2>2
    <3> QED
      BY <2>1, <3>1 DEF Alone, Locked, Exclusive
  <2>3. ASSUME p \notin dead', pc'[p] \in {"adding", "joining", "leaving"}
        PROVE  /\ pc'[p] = "adding" => COUNT \in writes'[p]
               /\ pc'[p] \in {"joining", "leaving"} => WRITERS \in writes'[p]
    <3> USE DEF Types, LocalTypes, LockTypes, At, Goto
    <3>1. CASE JoinRead(p) \/ LeaveRead(p)
      BY <2>3, <3>1 DEF JoinRead, LeaveRead, Fetch, LockWrite
    <3>2. CASE AddRead(p)
      BY <2>3, <3>2 DEF AddRead, Fetch, LockWrite
    <3>3. CASE Connect(p) /\ ~JoinRead(p)
      <4>1. pc'[p] \in {"create", "check", "header", "list", "refused", "join"}
        BY <3>3 DEF Connect, Access, Create, WriteHeader, CheckSealed, JoinWrite
      <4> QED
        BY <2>3, <4>1
    <3>4. CASE Traverse(p)
      <4>1. pc'[p] \in {"list", "hash", "scan"}
        BY <3>4 DEF Traverse, SkipEntry, HashForever, BeginUpsert, Listed
      <4> QED
        BY <2>3, <4>1
    <3>5. CASE Upsert(p) /\ ~AddRead(p)
      <4>1. pc'[p] \in {"row", "found", "scan", "replace", "list", "write", "add"}
        BY <3>5 DEF Upsert, LockRow, CompareRow, LockFound, ReplaceRow, LockFree,
           SkipLocked, InsertRow, AddWrite, Upserted
      <4> QED
        BY <2>3, <4>1
    <3>6. CASE Close(p) /\ ~LeaveRead(p)
      <4>1. pc'[p] \in {"seal", "done"}
        BY <3>6 DEF Close, LeaveUncounted, LeaveLast, LeaveOthers, Seal
      <4> QED
        BY <2>3, <4>1
    <3>7. CASE Kill(p)
      BY <2>3, <3>7 DEF Kill
    <3> QED
      BY <1>1, <3>1, <3>2, <3>3, <3>4, <3>5, <3>6, <3>7 DEF Step
  <2>4. Held'
    <3> SUFFICES ASSUME NEW q \in Writers \ dead'
                 PROVE  /\ pc'[q] = "adding" => COUNT \in writes'[q]
                        /\ pc'[q] \in {"joining", "leaving"} => WRITERS \in writes'[q]
      BY DEF Held, COUNT, WRITERS
    <3>1. CASE q = p
      BY <2>3, <3>1
    <3>2. CASE q # p
      BY <2>1, <3>2 DEF Alone, Locked, Held
    <3> QED
      BY <3>1, <3>2
  <2> QED
    BY <2>4, <2>5 DEF Locked
<1>2. CASE Diff \/ UNCHANGED vars
  BY <1>2, DiffAlone DEF locks, Locked, Exclusive, Held
<1> QED
  BY <1>1, <1>2 DEF Next, Terminated

-----------------------------------------------------------------------------
(* Layer 3.  The header: as long as no field was read before it was there.   *)

Before == {"access", "create", "header", "check"}

Header == ~torn =>
  /\ headers >= 1 => size = 3
  /\ headers = 0 => /\ size <= 0 /\ inserted = 0
                    /\ \A p \in Writers : pc[p] \in Before
  /\ \A p \in Writers : pc[p] \in {"joining", "adding", "leaving"} => ~short[p]

LEMMA HeaderInit == Init => Header
  BY DEF Init, Header, Before

\* A field that is there was written with a header.
LEMMA PresentHeader ==
  ASSUME Types, Header, ~torn, NEW f \in Fields, Present(f) PROVE headers >= 1
  BY DEF Types, FileTypes, Header, Present, Fields, SNAPSTATE, WRITERS, COUNT

\* No field that was locked and read stays short, if none was read too early.
LEMMA HeaderNext == Types /\ Header /\ [Next]_vars => Header'
<1> SUFFICES ASSUME Types, Header, [Next]_vars, ~torn' PROVE Header'
  BY DEF Header
<1> USE DEF At, Goto, reader, past, locks, local, file
<1>1. ASSUME NEW p \in Writers, Step(p) \/ Kill(p) PROVE Header'
  <2>1. Alone(p)
    BY <1>1, StepAlone
  <2>2. ~torn
    BY <1>1 DEF Step, Connect, Access, Create, WriteHeader, CheckSealed, JoinRead,
       JoinWrite, Traverse, SkipEntry, HashForever, BeginUpsert, Upsert, LockRow,
       CompareRow, LockFound, ReplaceRow, LockFree, SkipLocked, InsertRow, AddRead,
       AddWrite, Close, LeaveRead, LeaveUncounted, LeaveLast, LeaveOthers, Seal, Kill,
       Fetch, ReadCount, NoteTorn
  <2>3. CASE pc[p] \in Before
    <3> USE DEF Types, FileTypes, LocalTypes, PastTypes, Before
    <3>1. CASE Access(p)
      BY <2>1, <2>2, <3>1 DEF Access, Alone, Header
    <3>2. CASE Create(p)
      BY <2>1, <2>2, <3>2 DEF Create, Alone, Header, AtLeast
    <3>3. CASE WriteHeader(p)
      BY <2>1, <2>2, <3>3 DEF WriteHeader, Alone, Header
    <3>4. CASE CheckSealed(p)
      <4>1. Present(SNAPSTATE) /\ SNAPSTATE \in Fields
        BY <3>4 DEF CheckSealed, NoteTorn, Fields
      <4>2. headers >= 1
        BY <2>2, <4>1, PresentHeader
      <4>3. pc'[p] \in {"refused", "join"}
        BY <3>4 DEF CheckSealed
      <4> QED
        BY <2>1, <2>2, <3>4, <4>2, <4>3 DEF CheckSealed, Alone, Header
    <3>5. CASE Kill(p)
      BY <2>2, <3>5 DEF Kill, Header
    <3> QED
      BY <1>1, <2>3, <3>1, <3>2, <3>3, <3>4, <3>5 DEF Step, Connect, JoinRead,
         JoinWrite, Traverse, SkipEntry, HashForever, BeginUpsert, Listed, Upsert,
         LockRow, CompareRow, LockFound, ReplaceRow, LockFree, SkipLocked, InsertRow,
         AddRead, AddWrite, Close, LeaveRead, LeaveUncounted, LeaveLast, LeaveOthers,
         Seal
  <2>4. CASE pc[p] \notin Before
    <3>1. headers >= 1 /\ size = 3
      BY <2>2, <2>4 DEF Header, Types, FileTypes
    <3>2. headers' = headers /\ size' = 3
      <4>1. headers' = headers
        BY <1>1, <2>4 DEF Before, Step, Connect, Access, Create, WriteHeader, CheckSealed,
           JoinRead, JoinWrite, Traverse, SkipEntry, HashForever, BeginUpsert, Upsert,
           LockRow, CompareRow, LockFound, ReplaceRow, LockFree, SkipLocked, InsertRow,
           AddRead, AddWrite, Close, LeaveRead, LeaveUncounted, LeaveLast, LeaveOthers,
           Seal, Kill
      <4>2. \A n \in 1..3 : AtLeast(n) = 3
        BY <3>1 DEF AtLeast
      <4>3. UNCHANGED size \/ size' = 3 \/ \E n \in 1..3 : size' = AtLeast(n)
        <5>1. ASSUME NEW f \in Fields, NEW v, Store(p, f, v)
              PROVE \E n \in 1..3 : size' = AtLeast(n)
          BY <5>1 DEF Store, Fields, SNAPSTATE, WRITERS, COUNT
        <5>2. WRITERS \in Fields /\ COUNT \in Fields
          BY DEF Fields
        <5> QED
          BY <1>1, <2>4, <5>1, <5>2 DEF Before, Step, Connect, Access, Create,
             WriteHeader, CheckSealed, JoinRead, JoinWrite, Traverse, SkipEntry,
             HashForever, BeginUpsert, Upsert, LockRow, CompareRow, LockFound,
             ReplaceRow, LockFree, SkipLocked, InsertRow, AddRead, AddWrite, Close,
             LeaveRead, LeaveUncounted, LeaveLast, LeaveOthers, Seal, Kill
      <4> QED
        BY <3>1, <4>1, <4>2, <4>3
    <3>3. ASSUME pc'[p] \in {"joining", "adding", "leaving"} PROVE ~short'[p]
      <4> USE DEF Types, LocalTypes
      <4>1. CASE JoinRead(p) \/ AddRead(p) \/ LeaveRead(p)
        BY <4>1 DEF JoinRead, AddRead, LeaveRead, Fetch, NoteTorn
      <4>2. CASE Kill(p)
        BY <2>2, <3>3, <4>2 DEF Kill, Header
      <4>3. CASE Connect(p) /\ ~JoinRead(p)
        BY <2>4, <3>3, <4>3 DEF Before, Connect, Access, Create, WriteHeader,
           CheckSealed, JoinWrite
      <4>4. CASE Traverse(p)
        BY <3>3, <4>4 DEF Traverse, SkipEntry, HashForever, BeginUpsert, Listed
      <4>5. CASE Upsert(p) /\ ~AddRead(p)
        <5>1. pc'[p] \in {"row", "found", "scan", "replace", "list", "write", "add"}
          BY <4>5 DEF Upsert, LockRow, CompareRow, LockFound, ReplaceRow, LockFree,
             SkipLocked, InsertRow, AddWrite, Upserted
        <5> QED
          BY <3>3, <5>1
      <4>6. CASE Close(p) /\ ~LeaveRead(p)
        BY <3>3, <4>6 DEF Close, LeaveUncounted, LeaveLast, LeaveOthers, Seal
      <4> QED
        BY <1>1, <4>1, <4>2, <4>3, <4>4, <4>5, <4>6 DEF Step
    <3>4. ASSUME NEW q \in Writers, pc'[q] \in {"joining", "adding", "leaving"}
          PROVE  ~short'[q]
      <4>1. CASE q = p
        BY <3>3, <3>4, <4>1
      <4>2. CASE q # p
        BY <2>1, <2>2, <3>4, <4>2 DEF Alone, Header
      <4> QED
        BY <4>1, <4>2
    <3>5. headers' >= 1 /\ headers' # 0 /\ size' = 3
      BY <3>1, <3>2 DEF Types, FileTypes
    <3> QED
      BY <3>4, <3>5 DEF Header
  <2> QED
    BY <2>3, <2>4
<1>2. CASE Diff \/ UNCHANGED vars
  BY <1>2, DiffAlone DEF Header
<1> QED
  BY <1>1, <1>2 DEF Next, Terminated

Invariants == Types /\ Locked /\ Header

LEMMA InvariantsInit == Init => Invariants
  BY TypesInit, LockedInit, HeaderInit DEF Invariants

LEMMA InvariantsNext == Invariants /\ [Next]_vars => Invariants'
  BY TypesNext, LockedNext, HeaderNext DEF Invariants

-----------------------------------------------------------------------------
(* Layer 4.  The counters of the header.                                     *)

\* The writers at some of the places can be counted.
LEMMA OnFinite ==
  ASSUME NEW S
  PROVE  /\ IsFiniteSet(On(S)) /\ Cardinality(On(S)) \in Nat
         /\ Cardinality(Writers) \in Nat
         /\ Cardinality(On(S)) <= Cardinality(Writers)
  BY WritersAssumption, FS_Subset, FS_CardinalityType DEF WritersAssumption, On

\* A writer that goes from one place to another is counted anew.
LEMMA OnMoves ==
  ASSUME Types, NEW S, NEW p \in Writers, NEW l, pc' = [pc EXCEPT ![p] = l]
  PROVE  /\ pc[p] \in S /\ l \in S => On(S)' = On(S)
         /\ pc[p] \notin S /\ l \notin S => On(S)' = On(S)
         /\ pc[p] \notin S /\ l \in S => Cardinality(On(S)') = Cardinality(On(S)) + 1
         /\ pc[p] \in S /\ l \notin S =>
              /\ Cardinality(On(S)') = Cardinality(On(S)) - 1
              /\ Cardinality(On(S)) >= 1
<1>1. On(S)' = IF l \in S THEN On(S) \cup {p} ELSE On(S) \ {p}
  BY DEF On, Types, LocalTypes
<1>2. p \in On(S) <=> pc[p] \in S
  BY DEF On
<1>3. ASSUME pc[p] \notin S, l \in S
      PROVE  Cardinality(On(S)') = Cardinality(On(S)) + 1
  BY <1>1, <1>2, <1>3, OnFinite, FS_AddElement
<1>4. ASSUME pc[p] \in S, l \notin S
      PROVE  /\ Cardinality(On(S)') = Cardinality(On(S)) - 1
             /\ Cardinality(On(S)) >= 1
  <2>1. Cardinality(On(S)') = Cardinality(On(S)) - 1
    BY <1>1, <1>2, <1>4, OnFinite, FS_RemoveElement
  <2>2. Cardinality(On(S)) # 0
    BY <1>2, <1>4, OnFinite, FS_EmptySet
  <2> QED
    BY <2>1, <2>2, OnFinite
<1>5. ASSUME pc[p] \in S, l \in S PROVE On(S)' = On(S)
  BY <1>1, <1>2, <1>5
<1>6. ASSUME pc[p] \notin S, l \notin S PROVE On(S)' = On(S)
  BY <1>1, <1>2, <1>6
<1> QED
  BY <1>3, <1>4, <1>5, <1>6

Adders == {"add", "adding"}

\* record_count, and the copy of it that is about to be written back.
Counts == OneHeader =>
  /\ hdr[COUNT] = inserted - Cardinality(On(Adders))
  /\ \A p \in Writers \ dead : pc[p] = "adding" => tmp[p] = hdr[COUNT]

LEMMA CountsInit == Init => Counts
<1> SUFFICES ASSUME Init PROVE Counts
  OBVIOUS
<1>1. On(Adders) = {}
  BY DEF Init, On, Adders
<1>2. hdr[COUNT] = 0 /\ inserted = 0
  BY DEF Init, Fields
<1> QED
  BY <1>1, <1>2, FS_EmptySet DEF Init, Counts

\* A header field that is there and is not short is the field itself.
LEMMA StoreHits ==
  ASSUME Types, NEW p \in Writers, ~short[p], NEW f \in Fields, NEW v, Store(p, f, v)
  PROVE  hdr' = [hdr EXCEPT ![f] = v]
  BY DEF Store

\* A step that leaves headers and torn alone keeps what is past.
LEMMA OneHeaderKept ==
  ASSUME Types, OneHeader', [Next]_vars PROVE OneHeader
<1>1. ASSUME NEW p \in Writers, Step(p) \/ Kill(p) PROVE OneHeader
  <2>1. torn' = torn \/ \E f \in Fields : NoteTorn(f)
    BY <1>1 DEF Fetch, ReadCount, past, file, Fields, Step, Connect, Access,
       Create, WriteHeader, CheckSealed, JoinRead, JoinWrite, Traverse, SkipEntry,
       HashForever, BeginUpsert, Upsert, LockRow, CompareRow, LockFound, ReplaceRow,
       LockFree, SkipLocked, InsertRow, AddRead, AddWrite, Close, LeaveRead,
       LeaveUncounted, LeaveLast, LeaveOthers, Seal, Kill
  <2>2. ~torn
    BY <2>1 DEF OneHeader, NoteTorn
  <2>3. headers' = headers \/ headers' = headers + 1
    BY <1>1 DEF past, file, Step, Connect, Access,
       Create, WriteHeader, CheckSealed, JoinRead, JoinWrite, Traverse, SkipEntry,
       HashForever, BeginUpsert, Upsert, LockRow, CompareRow, LockFound, ReplaceRow,
       LockFree, SkipLocked, InsertRow, AddRead, AddWrite, Close, LeaveRead,
       LeaveUncounted, LeaveLast, LeaveOthers, Seal, Kill
  <2> QED
    BY <2>2, <2>3 DEF Types, FileTypes, OneHeader
<1>2. CASE Diff \/ UNCHANGED vars
  BY <1>2, DiffAlone DEF file, OneHeader
<1> QED
  BY <1>1, <1>2 DEF Next, Terminated

\* A step that touches neither record_count nor the rows, of a writer that is
\* not between them, keeps the counts.
LEMMA CountsFrame ==
  ASSUME Invariants, Counts, OneHeader, NEW p \in Writers, Alone(p),
         hdr'[COUNT] = hdr[COUNT], inserted' = inserted,
         UNCHANGED pc \/ \E l \in Places \ Adders : pc' = [pc EXCEPT ![p] = l],
         pc[p] \notin Adders
  PROVE  Counts'
<1>1. On(Adders)' = On(Adders) /\ pc'[p] # "adding"
  <2>1. CASE UNCHANGED pc
    BY <2>1 DEF On, Adders
  <2>2. ASSUME NEW l \in Places \ Adders, pc' = [pc EXCEPT ![p] = l]
        PROVE  On(Adders)' = On(Adders) /\ pc'[p] # "adding"
    BY <2>2, OnMoves DEF Invariants, Types, LocalTypes, Adders
  <2> QED
    BY <2>1, <2>2
<1>2. ASSUME NEW q \in Writers \ dead', pc'[q] = "adding"
      PROVE  tmp'[q] = hdr'[COUNT]
  <2>1. q # p
    BY <1>1, <1>2
  <2>2. q \notin dead /\ pc[q] = "adding" /\ tmp'[q] = tmp[q]
    BY <1>2, <2>1 DEF Alone
  <2> QED
    BY <2>2 DEF Counts
<1> QED
  BY <1>1, <1>2 DEF Counts

\* No increment of record_count is lost, and none is made twice.
LEMMA CountsNext == Invariants /\ Counts /\ [Next]_vars => Counts'
<1> SUFFICES ASSUME Invariants, Counts, [Next]_vars, OneHeader' PROVE Counts'
  BY DEF Counts
<1>0. OneHeader /\ ~torn /\ ~torn' /\ Types /\ Exclusive /\ Held /\ Header
  BY OneHeaderKept DEF Invariants, Locked, OneHeader
<1>1. ASSUME NEW p \in Writers, Step(p) \/ Kill(p) PROVE Counts'
  <2>0. Alone(p)
    BY <1>0, <1>1, StepAlone
  <2> USE DEF At, Goto, file, past, local
  <2>1. CASE WriteHeader(p)
    <3>1. headers = 0 /\ headers' = 1
      BY <1>0, <2>1 DEF WriteHeader, OneHeader, Types, FileTypes
    <3>2. \A q \in Writers : pc[q] \in Before /\ inserted = 0
      BY <1>0, <3>1 DEF Header
    <3>3. \A q \in Writers : pc'[q] \notin Adders
      BY <1>0, <2>1, <3>2 DEF WriteHeader, Types, LocalTypes, Before, Adders
    <3>4. On(Adders)' = {}
      BY <3>3 DEF On
    <3>5. hdr'[COUNT] = 0 /\ inserted' = 0
      BY <2>1, <3>2 DEF WriteHeader, Fields, SNAPSTATE, WRITERS, COUNT
    <3> QED
      BY <3>3, <3>4, <3>5, FS_EmptySet DEF Counts, Adders
  <2>2. CASE InsertRow(p)
    <3>1. pc[p] = "write" /\ pc' = [pc EXCEPT ![p] = "add"] /\ UNCHANGED <<hdr, tmp, dead>>
          /\ inserted' = inserted + 1
      BY <2>2 DEF InsertRow
    <3>2. Cardinality(On(Adders)') = Cardinality(On(Adders)) + 1
      BY <1>0, <3>1, OnMoves DEF Adders
    <3>3. \A q \in Writers \ dead' : pc'[q] = "adding" => tmp'[q] = hdr'[COUNT]
      BY <1>0, <3>1 DEF Counts, Types, LocalTypes
    <3> QED
      BY <1>0, <3>1, <3>2, <3>3, OnFinite DEF Counts, Types, FileTypes, PastTypes
  <2>3. CASE AddRead(p)
    <3>1. pc[p] = "add" /\ pc' = [pc EXCEPT ![p] = "adding"] /\ UNCHANGED <<hdr, dead, inserted>>
      BY <2>3 DEF AddRead
    <3>2. On(Adders)' = On(Adders)
      BY <1>0, <3>1, OnMoves DEF Adders
    <3>3. tmp'[p] = hdr[COUNT]
      BY <1>0, <2>3 DEF AddRead, Fetch, NoteTorn, MayHold, Types, LocalTypes
    <3>4. ASSUME NEW q \in Writers \ dead', pc'[q] = "adding" PROVE tmp'[q] = hdr'[COUNT]
      BY <1>0, <2>0, <3>1, <3>3, <3>4 DEF Counts, Alone
    <3> QED
      BY <1>0, <3>1, <3>2, <3>4 DEF Counts
  <2>4. CASE AddWrite(p)
    <3>1. pc[p] = "adding" /\ p \notin dead /\ pc' = [pc EXCEPT ![p] = "list"]
          /\ UNCHANGED <<dead, inserted>>
      BY <2>4 DEF AddWrite, Upserted
    <3>2. ~short[p] /\ tmp[p] = hdr[COUNT]
      BY <1>0, <3>1 DEF Header, Counts
    <3>3. hdr' = [hdr EXCEPT ![COUNT] = tmp[p] + 1]
      BY <1>0, <2>4, <3>2, StoreHits DEF AddWrite, Fields
    <3>4. hdr'[COUNT] = hdr[COUNT] + 1
      BY <1>0, <3>2, <3>3 DEF Types, FileTypes, Fields
    <3>5. Cardinality(On(Adders)') = Cardinality(On(Adders)) - 1
      <4>1. pc[p] \in Adders /\ "list" \notin Adders
        BY <3>1 DEF Adders
      <4> QED
        BY <1>0, <3>1, <4>1, OnMoves
    <3>6. ASSUME NEW q \in Writers \ dead', pc'[q] = "adding" PROVE FALSE
      <4>1. q # p /\ pc[q] = "adding" /\ q \notin dead
        BY <1>0, <3>1, <3>6 DEF Types, LocalTypes
      <4>2. COUNT \in writes[p] /\ COUNT \in writes[q]
        BY <1>0, <3>1, <4>1 DEF Held
      <4> QED
        BY <1>0, <4>1, <4>2 DEF Exclusive
    <3> QED
      BY <1>0, <3>1, <3>4, <3>5, <3>6, OnFinite DEF Counts, Types, FileTypes, PastTypes,
         Fields
  <2>5. CASE Kill(p)
    <3>1. UNCHANGED <<hdr, inserted, pc, tmp>> /\ dead \subseteq dead'
      BY <2>5 DEF Kill
    <3>2. On(Adders)' = On(Adders)
      BY <3>1 DEF On
    <3> QED
      BY <1>0, <3>1, <3>2 DEF Counts
  <2>6. CASE Connect(p) /\ ~WriteHeader(p)
    <3>1. pc[p] \notin Adders /\ inserted' = inserted
      BY <2>6 DEF Adders, Connect, Access, Create, CheckSealed, JoinRead, JoinWrite
    <3>2. \E l \in Places \ Adders : pc' = [pc EXCEPT ![p] = l]
      BY <2>6 DEF Adders, Places, Connect, Access, Create, CheckSealed, JoinRead,
         JoinWrite
    <3>3. hdr'[COUNT] = hdr[COUNT]
      <4>1. CASE JoinWrite(p)
        <5>1. ~short[p]
          BY <1>0, <4>1 DEF Header, JoinWrite
        <5>2. PICK v : hdr' = [hdr EXCEPT ![WRITERS] = v]
          BY <1>0, <4>1, <5>1, StoreHits DEF JoinWrite, Fields
        <5> QED
          BY <1>0, <5>2 DEF Types, FileTypes, Fields, WRITERS, COUNT
      <4>2. CASE ~JoinWrite(p)
        BY <2>6, <4>2 DEF Connect, Access, Create, CheckSealed, JoinRead
      <4> QED
        BY <4>1, <4>2
    <3> QED
      BY <1>0, <2>0, <3>1, <3>2, <3>3, CountsFrame
  <2>7. CASE Traverse(p)
    <3>1. pc[p] \notin Adders /\ UNCHANGED <<inserted, hdr>>
      BY <2>7 DEF Adders, Traverse, SkipEntry, HashForever, BeginUpsert, Listed
    <3>2. UNCHANGED pc \/ \E l \in Places \ Adders : pc' = [pc EXCEPT ![p] = l]
      BY <2>7 DEF Adders, Places, Traverse, SkipEntry, HashForever, BeginUpsert
    <3> QED
      BY <1>0, <2>0, <3>1, <3>2, CountsFrame
  <2>8. CASE LockRow(p) \/ CompareRow(p) \/ LockFound(p) \/ ReplaceRow(p) \/ LockFree(p)
             \/ SkipLocked(p)
    <3>1. pc[p] \notin Adders /\ UNCHANGED <<inserted, hdr>>
      BY <2>8 DEF Adders, LockRow, CompareRow, LockFound, ReplaceRow, LockFree, SkipLocked
    <3>2. UNCHANGED pc \/ \E l \in Places \ Adders : pc' = [pc EXCEPT ![p] = l]
      BY <2>8 DEF Adders, Places, LockRow, CompareRow, LockFound, ReplaceRow, LockFree,
         SkipLocked, Upserted
    <3> QED
      BY <1>0, <2>0, <3>1, <3>2, CountsFrame
  <2>9. CASE Close(p)
    <3>1. pc[p] \notin Adders /\ UNCHANGED inserted
      BY <2>9 DEF Adders, Close, LeaveRead, LeaveUncounted, LeaveLast, LeaveOthers, Seal
    <3>2. \E l \in Places \ Adders : pc' = [pc EXCEPT ![p] = l]
      BY <2>9 DEF Adders, Places, Close, LeaveRead, LeaveUncounted, LeaveLast,
         LeaveOthers, Seal
    <3>3. hdr'[COUNT] = hdr[COUNT]
      <4> USE <1>0 DEF Types, FileTypes, Fields, WRITERS, SNAPSTATE, COUNT
      <4>1. CASE LeaveRead(p) \/ LeaveUncounted(p)
        BY <4>1 DEF LeaveRead, LeaveUncounted
      <4>2. CASE LeaveLast(p)
        <5>1. ~short[p] /\ Store(p, WRITERS, 0)
          BY <4>2 DEF Header, LeaveLast
        <5>2. hdr' = [hdr EXCEPT ![WRITERS] = 0]
          BY <5>1, StoreHits
        <5> QED
          BY <5>2
      <4>3. CASE LeaveOthers(p)
        BY <4>3 DEF LeaveOthers
      <4>4. CASE Seal(p)
        BY <4>4 DEF Seal
      <4> QED
        BY <2>9, <4>1, <4>2, <4>3, <4>4 DEF Close
    <3> QED
      BY <1>0, <2>0, <3>1, <3>2, <3>3, CountsFrame
  <2> QED
    BY <1>1, <2>1, <2>2, <2>3, <2>4, <2>5, <2>6, <2>7, <2>8, <2>9 DEF Step, Upsert
<1>2. CASE Diff \/ UNCHANGED vars
  <2>1. UNCHANGED <<hdr, inserted, pc, tmp, dead>>
    BY <1>2, DiffAlone DEF file, past, local
  <2>2. On(Adders)' = On(Adders)
    BY <2>1 DEF On
  <2> QED
    BY <1>0, <2>1, <2>2 DEF Counts
<1> QED
  BY <1>1, <1>2 DEF Next, Terminated

\* record_count is exact for every number of writers and however they
\* interleave, as long as one header was written and read after that.
THEOREM CountInvariant == Spec => []CountExact
<1> DEFINE Inv == Invariants /\ Counts
<1>1. Init => Inv
  BY InvariantsInit, CountsInit
<1>2. Inv /\ [Next]_vars => Inv'
  BY InvariantsNext, CountsNext
<1>3. Inv => CountExact
  BY DEF Counts, CountExact, Adders
<1> QED
  BY <1>1, <1>2, <1>3, PTL DEF Spec

-----------------------------------------------------------------------------
(* Layer 5.  Who has joined and not left.                                    *)

Staying == {"list", "hash", "scan", "row", "found", "replace", "write", "add",
            "adding", "leaving"}

\* The places between the read of active_writers and its write.
AtWriters == {"joining", "leaving"}

\* No step brings back a field that was read too early.
LEMMA TornKept == ASSUME Types, ~torn', [Next]_vars PROVE ~torn
<1>1. ASSUME NEW p \in Writers, Step(p) \/ Kill(p) PROVE ~torn
  BY <1>1 DEF Fetch, ReadCount, NoteTorn, past, Step, Connect, Access, Create, WriteHeader,
     CheckSealed, JoinRead, JoinWrite, Traverse, SkipEntry, HashForever, BeginUpsert,
     Upsert, LockRow, CompareRow, LockFound, ReplaceRow, LockFree, SkipLocked, InsertRow,
     AddRead, AddWrite, Close, LeaveRead, LeaveUncounted, LeaveLast, LeaveOthers, Seal,
     Kill
<1>2. CASE Diff \/ UNCHANGED vars
  BY <1>2, DiffAlone
<1> QED
  BY <1>1, <1>2 DEF Next, Terminated

\* The lock of active_writers lets one live writer at a time change it.
LEMMA Sole ==
  ASSUME Invariants, NEW p \in Writers \ dead, NEW q \in Writers \ dead,
         pc[p] \in AtWriters, pc[q] \in AtWriters
  PROVE  p = q
  BY DEF Invariants, Locked, Held, Exclusive, AtWriters

\* A step that does not change who is counted: what it reads of active_writers
\* is what stands there.
Still(p) ==
  /\ hdr'[WRITERS] = hdr[WRITERS] /\ On(Staying)' = On(Staying)
  /\ p \notin dead' /\ pc'[p] \in AtWriters => tmp'[p] = hdr[WRITERS]

Leave(p) == LeaveUncounted(p) \/ LeaveLast(p) \/ LeaveOthers(p)

\* Steps that move a writer within the counted or the uncounted places.
LEMMA StillMoves ==
  ASSUME Types, NEW p \in Writers, hdr'[WRITERS] = hdr[WRITERS],
         UNCHANGED pc
         \/ \E l \in Places : /\ pc' = [pc EXCEPT ![p] = l]
                              /\ pc[p] \in Staying <=> l \in Staying,
         p \notin dead' /\ pc'[p] \in AtWriters => tmp'[p] = hdr[WRITERS]
  PROVE  Still(p)
<1>1. CASE UNCHANGED pc
  BY <1>1 DEF Still, On
<1>2. ASSUME NEW l \in Places, pc' = [pc EXCEPT ![p] = l],
             pc[p] \in Staying <=> l \in Staying
      PROVE  Still(p)
  BY <1>2, OnMoves DEF Still
<1> QED
  BY <1>1, <1>2

\* Only four steps change who is counted.
LEMMA OthersStill ==
  ASSUME Invariants, ~torn, ~torn', NEW p \in Writers, Step(p) \/ Kill(p),
         ~WriteHeader(p), ~JoinWrite(p), ~Leave(p)
  PROVE  Still(p)
<1>0. Types /\ Header
  BY DEF Invariants
<1> USE DEF At, Goto, file, past, local
<1>1. CASE Access(p) \/ Create(p) \/ CheckSealed(p)
  <2>1. UNCHANGED hdr
        /\ \E l \in Places \ (Staying \cup AtWriters) : pc' = [pc EXCEPT ![p] = l]
    BY <1>1 DEF Access, Create, CheckSealed, Places, Staying, AtWriters
  <2>2. pc[p] \notin Staying
    BY <1>1 DEF Access, Create, CheckSealed, Staying
  <2> QED
    BY <1>0, <2>1, <2>2, StillMoves DEF Types, LocalTypes
<1>2. CASE JoinRead(p) \/ LeaveRead(p)
  <2>1. UNCHANGED hdr /\ Fetch(p, WRITERS)
        /\ \/ pc[p] = "join" /\ pc' = [pc EXCEPT ![p] = "joining"]
           \/ pc[p] = "list" /\ pc' = [pc EXCEPT ![p] = "leaving"]
    BY <1>2 DEF JoinRead, LeaveRead
  <2>2. tmp'[p] = hdr[WRITERS]
    BY <1>0, <2>1 DEF Fetch, NoteTorn, MayHold, Types, LocalTypes
  <2>3. \E l \in Places : /\ pc' = [pc EXCEPT ![p] = l]
                          /\ pc[p] \in Staying <=> l \in Staying
    <3>1. "joining" \in Places /\ "leaving" \in Places /\ "join" \notin Staying
          /\ "joining" \notin Staying /\ "list" \in Staying /\ "leaving" \in Staying
      BY DEF Places, Staying
    <3> QED
      BY <2>1, <3>1
  <2> QED
    BY <1>0, <2>1, <2>2, <2>3, StillMoves
<1>3. CASE Traverse(p)
  <2>1. UNCHANGED hdr /\ pc[p] = "list"
    BY <1>3 DEF Traverse, SkipEntry, HashForever, BeginUpsert, Listed
  <2>2. UNCHANGED pc \/ \E l \in {"hash", "scan"} : pc' = [pc EXCEPT ![p] = l]
    BY <1>3 DEF Traverse, SkipEntry, HashForever, BeginUpsert
  <2>3. pc'[p] \notin AtWriters
    BY <1>0, <2>1, <2>2 DEF AtWriters, Types, LocalTypes
  <2>4. {"hash", "scan"} \subseteq Places \cap Staying /\ pc[p] \in Staying
    BY <2>1 DEF Places, Staying
  <2> QED
    BY <1>0, <2>1, <2>2, <2>3, <2>4, StillMoves
<1>4. CASE Upsert(p)
  <2>1. pc[p] \in Staying /\ pc[p] \notin AtWriters
    BY <1>4 DEF Staying, AtWriters, Upsert, LockRow, CompareRow, LockFound, ReplaceRow,
       LockFree, SkipLocked, InsertRow, AddRead, AddWrite
  <2>2. UNCHANGED pc \/ \E l \in Staying \ AtWriters : pc' = [pc EXCEPT ![p] = l]
    BY <1>4 DEF Staying, AtWriters, Upsert, LockRow, CompareRow, LockFound, ReplaceRow,
       LockFree, SkipLocked, InsertRow, AddRead, AddWrite, Upserted
  <2>3. pc'[p] \notin AtWriters /\ Staying \subseteq Places
    BY <1>0, <2>1, <2>2 DEF Types, LocalTypes, Places, Staying
  <2>4. hdr'[WRITERS] = hdr[WRITERS]
    <3>1. CASE AddWrite(p)
      <4>1. ~short[p] /\ Store(p, COUNT, tmp[p] + 1)
        BY <1>0, <3>1 DEF AddWrite, Header
      <4>2. hdr' = [hdr EXCEPT ![COUNT] = tmp[p] + 1]
        BY <1>0, <4>1, StoreHits DEF Fields
      <4> QED
        BY <1>0, <4>2 DEF Types, FileTypes, Fields, COUNT, WRITERS
    <3>2. CASE ~AddWrite(p)
      BY <1>4, <3>2 DEF Upsert, LockRow, CompareRow, LockFound, ReplaceRow, LockFree,
         SkipLocked, InsertRow, AddRead
    <3> QED
      BY <3>1, <3>2
  <2> QED
    BY <1>0, <2>1, <2>2, <2>3, <2>4, StillMoves
<1>5. CASE Seal(p)
  <2>1. pc[p] = "seal" /\ pc' = [pc EXCEPT ![p] = "done"]
        /\ hdr' = [hdr EXCEPT ![SNAPSTATE] = SealedState]
    BY <1>5 DEF Seal
  <2>2. hdr'[WRITERS] = hdr[WRITERS]
    BY <1>0, <2>1 DEF Types, FileTypes, Fields, SNAPSTATE, WRITERS
  <2>3. "done" \in Places /\ "done" \notin Staying /\ "seal" \notin Staying
        /\ pc'[p] \notin AtWriters
    BY <1>0, <2>1 DEF Types, LocalTypes, Places, Staying, AtWriters
  <2> QED
    BY <1>0, <2>1, <2>2, <2>3, StillMoves
<1>6. CASE Kill(p)
  <2>1. UNCHANGED <<hdr, pc>> /\ p \in dead'
    BY <1>6 DEF Kill
  <2> QED
    BY <1>0, <2>1, StillMoves
<1> QED
  BY <1>1, <1>2, <1>3, <1>4, <1>5, <1>6 DEF Step, Connect, Close, Leave

\* The writer of a header is counted by it.
LEMMA HeaderCounts ==
  ASSUME Types, NEW p \in Writers, WriteHeader(p)
  PROVE  /\ hdr'[WRITERS] = 1 /\ hdr'[SNAPSTATE] = Open
         /\ Cardinality(On(Staying)') = Cardinality(On(Staying)) + 1
         /\ pc'[p] = "list" /\ UNCHANGED <<tmp, dead>>
<1>1. pc[p] = "header" /\ pc' = [pc EXCEPT ![p] = "list"] /\ UNCHANGED <<tmp, dead>>
  BY DEF WriteHeader, At, Goto
<1>2. hdr'[WRITERS] = 1 /\ hdr'[SNAPSTATE] = Open
  BY DEF WriteHeader, Fields, SNAPSTATE, WRITERS, COUNT
<1>3. pc[p] \notin Staying /\ "list" \in Staying
  BY <1>1 DEF Staying
<1> QED
  BY <1>1, <1>2, <1>3, OnMoves DEF Types, LocalTypes

\* A writer that joins is counted by what it writes.
LEMMA JoinCounts ==
  ASSUME Invariants, ~torn, NEW p \in Writers, JoinWrite(p)
  PROVE  /\ hdr' = [hdr EXCEPT ![WRITERS] = (tmp[p] + 1) % CounterMod]
         /\ hdr'[WRITERS] = (tmp[p] + 1) % CounterMod
         /\ Cardinality(On(Staying)') = Cardinality(On(Staying)) + 1
         /\ pc[p] \in AtWriters /\ p \notin dead /\ pc'[p] = "list" /\ UNCHANGED dead
<1>1. pc[p] = "joining" /\ pc' = [pc EXCEPT ![p] = "list"] /\ UNCHANGED dead
      /\ p \notin dead
  BY DEF JoinWrite, At, Goto
<1>2. ~short[p]
  BY <1>1 DEF Invariants, Header
<1>3. hdr' = [hdr EXCEPT ![WRITERS] = (tmp[p] + 1) % CounterMod]
  BY <1>2, StoreHits DEF JoinWrite, Fields, Invariants
<1>4. pc[p] \notin Staying /\ "list" \in Staying /\ pc[p] \in AtWriters
  BY <1>1 DEF Staying, AtWriters
<1>5. Cardinality(On(Staying)') = Cardinality(On(Staying)) + 1
  BY <1>1, <1>4, OnMoves DEF Invariants
<1> QED
  BY <1>1, <1>3, <1>4, <1>5 DEF Invariants, Types, FileTypes, LocalTypes, Fields

\* A writer that leaves takes one off what it has read.
LEMMA LeaveCounts ==
  ASSUME Invariants, ~torn, NEW p \in Writers, Leave(p)
  PROVE  /\ Cardinality(On(Staying)') = Cardinality(On(Staying)) - 1
         /\ Cardinality(On(Staying)) >= 1
         /\ tmp[p] = 0 => hdr' = hdr /\ LeaveUncounted(p)
         /\ tmp[p] # 0 => hdr' = [hdr EXCEPT ![WRITERS] = tmp[p] - 1]
         /\ pc[p] = "leaving" /\ p \notin dead /\ UNCHANGED dead
         /\ pc'[p] = IF tmp[p] > 1 THEN "done" ELSE "seal"
<1>0. tmp[p] \in Nat
  BY DEF Invariants, Types, LocalTypes
<1>1. pc[p] = "leaving" /\ UNCHANGED dead /\ p \notin dead
      /\ pc' = [pc EXCEPT ![p] = IF tmp[p] > 1 THEN "done" ELSE "seal"]
  BY <1>0 DEF Leave, LeaveUncounted, LeaveLast, LeaveOthers, At, Goto
<1>2. pc[p] \in Staying /\ (IF tmp[p] > 1 THEN "done" ELSE "seal") \notin Staying
  BY <1>1 DEF Staying
<1>3. /\ Cardinality(On(Staying)') = Cardinality(On(Staying)) - 1
      /\ Cardinality(On(Staying)) >= 1
  BY <1>1, <1>2, OnMoves DEF Invariants
<1>4. ~short[p]
  BY <1>1 DEF Invariants, Header
<1>5. tmp[p] = 0 => hdr' = hdr /\ LeaveUncounted(p)
  BY DEF Leave, LeaveUncounted, LeaveLast, LeaveOthers, file
<1>6. tmp[p] # 0 => hdr' = [hdr EXCEPT ![WRITERS] = tmp[p] - 1]
  <2>1. CASE LeaveLast(p)
    <3>1. Store(p, WRITERS, 0) /\ tmp[p] = 1
      BY <2>1 DEF LeaveLast
    <3>2. hdr' = [hdr EXCEPT ![WRITERS] = 0]
      BY <1>4, <3>1, StoreHits DEF Invariants, Fields
    <3> QED
      BY <3>1, <3>2
  <2>2. CASE LeaveOthers(p)
    BY <1>4, <2>2 DEF LeaveOthers
  <2>3. CASE LeaveUncounted(p)
    BY <2>3 DEF LeaveUncounted
  <2> QED
    BY <2>1, <2>2, <2>3 DEF Leave
<1> QED
  BY <1>1, <1>3, <1>5, <1>6 DEF Invariants, Types, LocalTypes

\* The counter, and the copy of it that is about to be written back.
Joined == OneHeader /\ Cardinality(Writers) < CounterMod =>
  /\ hdr[WRITERS] = Cardinality(On(Staying))
  /\ \A p \in Writers \ dead : pc[p] \in AtWriters => tmp[p] = hdr[WRITERS]

LEMMA JoinedInit == Init => Joined
<1> SUFFICES ASSUME Init PROVE Joined
  OBVIOUS
<1>1. On(Staying) = {}
  BY DEF Init, On, Staying
<1>2. hdr[WRITERS] = 0
  BY DEF Init, Fields
<1> QED
  BY <1>1, <1>2, FS_EmptySet DEF Init, Joined

\* A writer joins or leaves exactly once, and nobody counts at the same time.
LEMMA JoinedNext == Invariants /\ Joined /\ [Next]_vars => Joined'
<1> SUFFICES ASSUME Invariants, Joined, [Next]_vars, OneHeader',
                    Cardinality(Writers) < CounterMod
             PROVE  Joined'
  BY DEF Joined
<1>0. OneHeader /\ ~torn /\ ~torn' /\ Types /\ Header
  BY OneHeaderKept DEF Invariants, OneHeader
<1>n. /\ Cardinality(On(Staying)) \in Nat /\ Cardinality(On(Staying)') \in Nat
      /\ Cardinality(On(Staying)') < CounterMod /\ CounterMod \in Nat \ {0, 1}
  <2>1. Cardinality(On(Staying)') <= Cardinality(Writers)
        /\ Cardinality(On(Staying)') \in Nat
    BY WritersAssumption, FS_Subset, FS_CardinalityType DEF WritersAssumption, On
  <2> QED
    BY <2>1, OnFinite, BoundsAssumption DEF BoundsAssumption
<1>i. hdr[WRITERS] = Cardinality(On(Staying))
      /\ \A p \in Writers \ dead : pc[p] \in AtWriters => tmp[p] = hdr[WRITERS]
  BY <1>0 DEF Joined
<1>1. ASSUME NEW p \in Writers, Step(p) \/ Kill(p) PROVE Joined'
  <2>0. Alone(p)
    BY <1>0, <1>1, StepAlone
  <2>1. CASE Still(p)
    <3>1. ASSUME NEW q \in Writers \ dead', pc'[q] \in AtWriters
          PROVE  tmp'[q] = hdr'[WRITERS]
      BY <1>i, <2>0, <2>1, <3>1 DEF Still, Alone
    <3> QED
      BY <1>i, <2>1, <3>1 DEF Still, Joined
  <2>2. CASE WriteHeader(p)
    <3>1. headers = 0
      BY <1>0, <2>2 DEF WriteHeader, OneHeader, Types, FileTypes
    <3>2. \A q \in Writers : pc[q] \notin Staying /\ pc[q] \notin AtWriters
      BY <1>0, <3>1 DEF Header, Before, Staying, AtWriters
    <3>3. On(Staying) = {}
      BY <3>2 DEF On
    <3>4. Cardinality(On(Staying)') = 1 /\ hdr'[WRITERS] = 1 /\ pc'[p] = "list"
      BY <1>0, <2>2, <3>3, HeaderCounts, FS_EmptySet
    <3>5. \A q \in Writers : pc'[q] \notin AtWriters
      BY <2>0, <3>2, <3>4 DEF Alone, AtWriters
    <3> QED
      BY <3>4, <3>5 DEF Joined
  <2>3. CASE JoinWrite(p) \/ Leave(p)
    <3>1. /\ pc[p] \in AtWriters /\ p \notin dead /\ UNCHANGED dead
          /\ pc'[p] \notin AtWriters
      BY <1>0, <2>3, JoinCounts, LeaveCounts DEF AtWriters
    <3>2. ASSUME NEW q \in Writers \ dead', pc'[q] \in AtWriters PROVE FALSE
      <4>1. q # p /\ q \notin dead /\ pc[q] \in AtWriters
        BY <2>0, <3>1, <3>2 DEF Alone
      <4> QED
        BY <3>1, <4>1, Sole
    <3>3. tmp[p] = Cardinality(On(Staying))
      BY <1>i, <3>1
    <3>4. hdr'[WRITERS] = Cardinality(On(Staying)')
      <4>1. CASE JoinWrite(p)
        <5>1. /\ hdr'[WRITERS] = (tmp[p] + 1) % CounterMod
              /\ Cardinality(On(Staying)') = tmp[p] + 1
          BY <1>0, <3>3, <4>1, JoinCounts
        <5>2. \A n \in Nat : n < CounterMod => n % CounterMod = n
          BY <1>n
        <5> QED
          BY <1>n, <5>1, <5>2
      <4>2. CASE Leave(p)
        <5>1. /\ Cardinality(On(Staying)') = tmp[p] - 1
              /\ tmp[p] # 0 /\ hdr' = [hdr EXCEPT ![WRITERS] = tmp[p] - 1]
          BY <1>0, <1>n, <3>3, <4>2, LeaveCounts
        <5> QED
          BY <1>0, <5>1 DEF Types, FileTypes, Fields
      <4> QED
        BY <2>3, <4>1, <4>2
    <3> QED
      BY <3>2, <3>4 DEF Joined
  <2> QED
    BY <1>0, <1>1, <2>1, <2>2, <2>3, OthersStill
<1>2. CASE Diff \/ UNCHANGED vars
  <2>1. UNCHANGED <<hdr, pc, tmp, dead>>
    BY <1>2, DiffAlone DEF file, local
  <2>2. On(Staying)' = On(Staying)
    BY <2>1 DEF On
  <2> QED
    BY <1>i, <2>1, <2>2 DEF Joined
<1> QED
  BY <1>1, <1>2 DEF Next, Terminated

\* active_writers is the number of writers that have joined and not left, for
\* any number of writers a byte can count.
THEOREM WritersInvariant == Spec => []WritersExact
<1> DEFINE Inv == Invariants /\ Joined
<1>1. Init => Inv
  BY InvariantsInit, JoinedInit
<1>2. Inv /\ [Next]_vars => Inv'
  BY InvariantsNext, JoinedNext
<1>3. Inv => WritersExact
  BY DEF Joined, WritersExact, Counted, Staying
<1> QED
  BY <1>1, <1>2, <1>3, PTL DEF Spec

-----------------------------------------------------------------------------
(* Layer 6.  Who will seal the snapshot.  A second header sets the counter   *)
(* back, so it may be too low, but never too high: the last writer to leave  *)
(* cannot take itself for one of several.                                    *)

Bounded == ~torn =>
  /\ hdr[WRITERS] <= Cardinality(On(Staying))
  /\ \A p \in Writers \ dead :
       pc[p] \in AtWriters => tmp[p] <= Cardinality(On(Staying))
  /\ \A p \in Writers \ dead :
       pc[p] = "leaving" =>
         hdr[WRITERS] = tmp[p] \/ hdr[WRITERS] < Cardinality(On(Staying))

\* While an open snapshot has no seal, somebody is on the way to one.
Sealing ==
  ~torn /\ dead = {} /\ headers >= 1 /\ hdr[SNAPSTATE] # SealedState =>
    \E p \in Writers : pc[p] \in Staying \cup {"seal"}

LEMMA BoundedInit == Init => Bounded /\ Sealing
<1> SUFFICES ASSUME Init PROVE Bounded /\ Sealing
  OBVIOUS
<1>1. On(Staying) = {}
  BY DEF Init, On, Staying
<1>2. hdr[WRITERS] = 0
  BY DEF Init, Fields
<1>3. \A p \in Writers : pc[p] = "access"
  BY DEF Init
<1>4. Bounded
  BY <1>1, <1>2, <1>3, FS_EmptySet DEF Bounded, AtWriters
<1>5. Sealing
  BY DEF Init, Sealing
<1> QED
  BY <1>4, <1>5

\* active_writers never exceeds the writers it should count.
LEMMA BoundedNext == Invariants /\ Bounded /\ [Next]_vars => Bounded'
<1> SUFFICES ASSUME Invariants, Bounded, [Next]_vars, ~torn' PROVE Bounded'
  BY DEF Bounded
<1>0. ~torn /\ Types /\ Header
  BY TornKept DEF Invariants
<1> DEFINE n == Cardinality(On(Staying))
           m == Cardinality(On(Staying)')
<1>n. n \in Nat /\ m \in Nat /\ CounterMod \in Nat \ {0, 1} /\ hdr[WRITERS] \in Nat
  <2>1. m \in Nat
    BY WritersAssumption, FS_Subset, FS_CardinalityType DEF WritersAssumption, On
  <2> QED
    BY <1>0, <2>1, OnFinite, BoundsAssumption DEF BoundsAssumption, Types, FileTypes,
       Fields
<1>t. \A q \in Writers : tmp[q] \in Nat
  BY <1>0 DEF Types, LocalTypes
<1>i. /\ hdr[WRITERS] <= n
      /\ \A q \in Writers \ dead : pc[q] \in AtWriters => tmp[q] <= n
      /\ \A q \in Writers \ dead :
           pc[q] = "leaving" => hdr[WRITERS] = tmp[q] \/ hdr[WRITERS] < n
  BY <1>0 DEF Bounded
<1> HIDE DEF n, m
<1>1. ASSUME NEW p \in Writers, Step(p) \/ Kill(p) PROVE Bounded'
  <2>0. Alone(p)
    BY <1>0, <1>1, StepAlone
  <2>1. CASE Still(p)
    <3>1. m = n /\ hdr'[WRITERS] = hdr[WRITERS]
      BY <2>1 DEF Still, n, m
    <3>2. ASSUME NEW q \in Writers \ dead', pc'[q] \in AtWriters
          PROVE  /\ tmp'[q] <= n
                 /\ pc'[q] = "leaving" => hdr[WRITERS] = tmp'[q] \/ hdr[WRITERS] < n
      <4>1. CASE q = p
        BY <1>i, <2>1, <3>2, <4>1 DEF Still
      <4>2. CASE q # p
        <5>1. q \notin dead /\ pc'[q] = pc[q] /\ tmp'[q] = tmp[q]
          BY <2>0, <3>2, <4>2 DEF Alone
        <5> QED
          BY <1>i, <3>2, <5>1
      <4> QED
        BY <4>1, <4>2
    <3>3. \A q : pc'[q] = "leaving" => pc'[q] \in AtWriters
      BY DEF AtWriters
    <3> QED
      BY <1>i, <3>1, <3>2, <3>3 DEF Bounded, m
  <2>2. CASE WriteHeader(p)
    <3>1. m = n + 1 /\ hdr'[WRITERS] = 1 /\ pc'[p] = "list" /\ UNCHANGED <<tmp, dead>>
      BY <1>0, <2>2, HeaderCounts DEF n, m
    <3>2. ASSUME NEW q \in Writers \ dead', pc'[q] \in AtWriters
          PROVE  /\ tmp'[q] <= m
                 /\ pc'[q] = "leaving" => hdr'[WRITERS] < m
      <4>1. q # p /\ q \notin dead /\ pc[q] = pc'[q] /\ tmp'[q] = tmp[q]
        BY <2>0, <3>1, <3>2 DEF Alone, AtWriters
      <4>2. tmp'[q] <= n
        BY <1>i, <3>2, <4>1
      <4>3. ASSUME pc'[q] = "leaving" PROVE n >= 1
        <5>1. q \in On(Staying)
          BY <4>1, <4>3 DEF On, Staying
        <5>2. n # 0
          BY <5>1, OnFinite, FS_EmptySet DEF n
        <5> QED
          BY <1>n, <5>2
      <4> QED
        BY <1>n, <1>t, <3>1, <4>1, <4>2, <4>3
    <3>3. \A q : pc'[q] = "leaving" => pc'[q] \in AtWriters
      BY DEF AtWriters
    <3> QED
      BY <1>n, <3>1, <3>2, <3>3 DEF Bounded, m
  <2>3. CASE JoinWrite(p) \/ Leave(p)
    <3>1. /\ pc[p] \in AtWriters /\ p \notin dead /\ UNCHANGED dead
          /\ pc'[p] \notin AtWriters
      BY <1>0, <2>3, JoinCounts, LeaveCounts DEF AtWriters
    <3>2. ASSUME NEW q \in Writers \ dead', pc'[q] \in AtWriters PROVE FALSE
      <4>1. q # p /\ q \notin dead /\ pc[q] \in AtWriters
        BY <2>0, <3>1, <3>2 DEF Alone
      <4> QED
        BY <3>1, <4>1, Sole
    <3>3. hdr'[WRITERS] <= m
      <4>1. CASE JoinWrite(p)
        <5>1. hdr'[WRITERS] = (tmp[p] + 1) % CounterMod /\ m = n + 1 /\ tmp[p] <= n
          BY <1>0, <1>i, <3>1, <4>1, JoinCounts DEF n, m
        <5>2. \A a \in Nat : a % CounterMod <= a
          <6> SUFFICES ASSUME NEW a \in Nat PROVE a % CounterMod <= a
            OBVIOUS
          <6>1. CASE a < CounterMod
            BY <1>n, <6>1
          <6>2. CASE a >= CounterMod
            <7>1. a % CounterMod < CounterMod /\ a % CounterMod \in Nat
              BY <1>n
            <7> QED
              BY <1>n, <6>2, <7>1
          <6> QED
            BY <1>n, <6>1, <6>2
        <5>3. (tmp[p] + 1) % CounterMod \in Nat
          BY <1>n, <1>t
        <5> QED
          BY <1>n, <1>t, <5>1, <5>2, <5>3
      <4>2. CASE Leave(p)
        <5>1. /\ m = n - 1 /\ n >= 1 /\ tmp[p] <= n /\ pc[p] = "leaving"
              /\ hdr[WRITERS] = tmp[p] \/ hdr[WRITERS] < n
          BY <1>0, <1>i, <3>1, <4>2, LeaveCounts DEF n, m
        <5>2. CASE tmp[p] = 0
          <6>1. hdr' = hdr
            BY <1>0, <4>2, <5>2, LeaveCounts
          <6> QED
            BY <1>n, <5>1, <5>2, <6>1
        <5>3. CASE tmp[p] # 0
          <6>1. hdr' = [hdr EXCEPT ![WRITERS] = tmp[p] - 1]
            BY <1>0, <4>2, <5>3, LeaveCounts
          <6>2. hdr'[WRITERS] = tmp[p] - 1
            BY <1>0, <6>1 DEF Types, FileTypes, Fields
          <6> QED
            BY <1>n, <1>t, <5>1, <6>2
        <5> QED
          BY <5>2, <5>3
      <4> QED
        BY <2>3, <4>1, <4>2
    <3>4. \A q \in Writers \ dead' : pc'[q] \notin AtWriters /\ pc'[q] # "leaving"
      BY <3>2 DEF AtWriters
    <3> QED
      BY <3>3, <3>4 DEF Bounded, m
  <2> QED
    BY <1>0, <1>1, <2>1, <2>2, <2>3, OthersStill
<1>2. CASE Diff \/ UNCHANGED vars
  <2>1. UNCHANGED <<hdr, pc, tmp, dead>>
    BY <1>2, DiffAlone DEF file, local
  <2>2. On(Staying)' = On(Staying)
    BY <2>1 DEF On
  <2> QED
    BY <1>i, <2>1, <2>2 DEF Bounded, n
<1> QED
  BY <1>1, <1>2 DEF Next, Terminated

\* The writer that leaves an open snapshot either seals it or leaves another
\* one behind.
LEMMA SealingNext == Invariants /\ Bounded /\ Sealing /\ [Next]_vars => Sealing'
<1> SUFFICES ASSUME Invariants, Bounded, Sealing, [Next]_vars PROVE Sealing'
  OBVIOUS
<1>1. ASSUME ~torn', dead' = {}, headers' >= 1, hdr'[SNAPSTATE] # SealedState
      PROVE  \E p \in Writers : pc'[p] \in Staying \cup {"seal"}
  <2>0. ~torn /\ Types /\ Header
    BY <1>1, TornKept DEF Invariants
  <2>1. ASSUME NEW p \in Writers, Step(p) \/ Kill(p)
        PROVE  \E q \in Writers : pc'[q] \in Staying \cup {"seal"}
    <3>0. Alone(p)
      BY <2>0, <2>1, StepAlone
    <3>1. CASE pc'[p] \in Staying \cup {"seal"}
      BY <3>1
    <3>2. CASE pc'[p] \notin Staying \cup {"seal"}
      <4>1. /\ ~WriteHeader(p) /\ ~JoinWrite(p) /\ ~Kill(p)
            /\ ~LeaveUncounted(p) /\ ~LeaveLast(p)
        <5>1. WriteHeader(p) \/ JoinWrite(p) => pc'[p] = "list"
          BY <2>0, HeaderCounts, JoinCounts
        <5>2. LeaveUncounted(p) \/ LeaveLast(p) => pc'[p] = "seal"
          BY <2>0 DEF LeaveUncounted, LeaveLast, Goto, Types, LocalTypes
        <5>3. Kill(p) => p \in dead'
          BY DEF Kill
        <5> QED
          BY <1>1, <3>2, <5>1, <5>2, <5>3 DEF Staying
      <4>2. ~Seal(p)
        <5>1. Seal(p) => hdr'[SNAPSTATE] = SealedState
          BY <2>0 DEF Seal, Types, FileTypes, Fields
        <5> QED
          BY <1>1, <5>1
      <4>3. hdr'[SNAPSTATE] = hdr[SNAPSTATE] /\ headers' = headers /\ dead = {}
        <5>1. CASE AddWrite(p)
          <6>1. ~short[p] /\ Store(p, COUNT, tmp[p] + 1) /\ UNCHANGED <<headers, dead>>
            BY <2>0, <5>1 DEF AddWrite, Header, At
          <6>2. hdr' = [hdr EXCEPT ![COUNT] = tmp[p] + 1]
            BY <2>0, <6>1, StoreHits DEF Fields
          <6> QED
            BY <1>1, <2>0, <6>1, <6>2 DEF Types, FileTypes, Fields, COUNT, SNAPSTATE
        <5>2. CASE LeaveOthers(p)
          <6>1. ~short[p] /\ UNCHANGED <<headers, dead>>
                /\ hdr' = [hdr EXCEPT ![IF short[p] THEN SNAPSTATE ELSE WRITERS] = tmp[p] - 1]
            BY <2>0, <5>2 DEF LeaveOthers, Header, At
          <6> QED
            BY <1>1, <2>0, <6>1 DEF Types, FileTypes, Fields, WRITERS, SNAPSTATE
        <5>3. CASE ~AddWrite(p) /\ ~LeaveOthers(p)
          <6>1. UNCHANGED <<hdr, headers, dead>>
            BY <2>1, <4>1, <4>2, <5>3 DEF file, past, Step, Connect, Access, Create,
               CheckSealed, JoinRead, Traverse, SkipEntry, HashForever, BeginUpsert,
               Upsert, LockRow, CompareRow, LockFound, ReplaceRow, LockFree, SkipLocked,
               InsertRow, AddRead, Close, LeaveRead
          <6> QED
            BY <1>1, <6>1
        <5> QED
          BY <5>1, <5>2, <5>3
      <4>4. PICK q \in Writers : pc[q] \in Staying \cup {"seal"}
        BY <1>1, <2>0, <4>3 DEF Sealing
      <4>5. CASE q # p
        BY <3>0, <4>4, <4>5 DEF Alone
      <4>6. CASE q = p
        <5>1. LeaveOthers(p)
          <6>1. (pc[p] \in Staying /\ pc[p] # "seal") \/ pc[p] = "seal"
            BY <4>4, <4>6
          <6>2. CASE Connect(p)
            BY <4>1, <4>4, <4>6, <6>2 DEF Connect, Access, Create, CheckSealed, JoinRead,
               At, Staying
          <6>3. CASE Traverse(p)
            <7>1. pc[p] = "list" /\ (UNCHANGED pc \/ Goto(p, "hash") \/ Goto(p, "scan"))
              BY <6>3 DEF Traverse, SkipEntry, HashForever, BeginUpsert, Listed, At
            <7>2. pc'[p] \in {"list", "hash", "scan"}
              BY <2>0, <7>1 DEF Goto, Types, LocalTypes
            <7> QED
              BY <3>2, <7>2 DEF Staying
          <6>4. CASE Upsert(p)
            <7>1. pc'[p] \in {"scan", "row", "found", "replace", "list", "write", "add",
                              "adding"}
              BY <2>0, <6>4 DEF Upsert, LockRow, CompareRow, LockFound, ReplaceRow,
                 LockFree, SkipLocked, InsertRow, AddRead, AddWrite, Upserted, Goto, At,
                 Types, LocalTypes
            <7> QED
              BY <3>2, <7>1 DEF Staying
          <6>5. CASE LeaveRead(p)
            BY <2>0, <3>2, <6>5 DEF LeaveRead, Goto, Staying, Types, LocalTypes
          <6> QED
            BY <2>1, <4>1, <4>2, <6>2, <6>3, <6>4, <6>5 DEF Step, Close
        <5>2. tmp[p] > 1 /\ tmp[p] <= Cardinality(On(Staying)) /\ tmp[p] \in Nat
          <6>1. p \in Writers \ dead /\ pc[p] \in AtWriters /\ tmp[p] > 1
            BY <5>1 DEF LeaveOthers, At, AtWriters
          <6> QED
            BY <2>0, <6>1 DEF Bounded, Types, LocalTypes
        <5>3. Leave(p)
          BY <5>1 DEF Leave
        <5>4. Cardinality(On(Staying)') = Cardinality(On(Staying)) - 1
          BY <2>0, <5>3, LeaveCounts
        <5>5. Cardinality(On(Staying)') # 0
          BY <5>2, <5>4, OnFinite
        <5>6. On(Staying)' # {}
          BY <5>5, FS_EmptySet
        <5> QED
          BY <5>6 DEF On
      <4> QED
        BY <4>5, <4>6
    <3> QED
      BY <3>1, <3>2
  <2>2. CASE Diff \/ UNCHANGED vars
    <3>1. UNCHANGED <<hdr, pc, dead, headers, torn>>
      BY <2>2, DiffAlone DEF file
    <3> QED
      BY <1>1, <3>1 DEF Sealing
  <2> QED
    BY <2>1, <2>2 DEF Next, Terminated
<1> QED
  BY <1>1 DEF Sealing

\* The last of the writers to end leaves the snapshot sealed, for any number of
\* them, any number of headers and any counter width.
THEOREM SealedInvariant == Spec => []SealedAtTheEnd
<1> DEFINE Inv == Invariants /\ Bounded /\ Sealing
<1>1. Init => Inv
  BY InvariantsInit, BoundedInit
<1>2. Inv /\ [Next]_vars => Inv'
  BY InvariantsNext, BoundedNext, SealingNext
<1>3. Inv => SealedAtTheEnd
  <2> SUFFICES ASSUME Inv, \A p \in Writers : Ended(p), dead = {}, ~torn, headers > 0
               PROVE  hdr[SNAPSTATE] = SealedState
    BY DEF SealedAtTheEnd
  <2>1. headers >= 1
    BY DEF Invariants, Types, FileTypes
  <2>2. \A p \in Writers : pc[p] \in {"done", "refused"}
    BY DEF Ended
  <2> QED
    BY <2>1, <2>2 DEF Sealing, Staying
<1> QED
  BY <1>1, <1>2, <1>3, PTL DEF Spec
=============================================================================
