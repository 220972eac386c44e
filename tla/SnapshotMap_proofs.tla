------------------------- MODULE SnapshotMap_proofs -------------------------
(***************************************************************************)
(* A snapshot that one program at a time writes is a map (SnapshotMap): as  *)
(* long as no two writers overlapped and no header field was read before it *)
(* was there, every step of db.c is a step of the map, for every tree, every *)
(* entry that may fail, any number of writers one after the other and any   *)
(* number of them killed.                                                   *)
(***************************************************************************)
EXTENDS Snapshot_proofs

-----------------------------------------------------------------------------
(* Layer 1.  One writer at a time: those that do not run hold no lock.       *)

\* A program that has not opened the file or has ended holds no region.
Unlocked == \A p \in Writers :
  p \in dead \/ pc[p] \in Before \cup {"refused", "done"} =>
    reads[p] = {} /\ writes[p] = {}

Single == ~shared =>
  \A p, q \in Writers : Running(p) /\ Running(q) => p = q

\* The rest of what a step of p leaves alone of the others.
Own(p) == \A q \in Writers \ {p} :
  reads'[q] = reads[q] /\ pos'[q] = pos[q]

\* The regions a process reads and its file offset are its own.
LEMMA OwnKept ==
  ASSUME Types, NEW p \in Writers, Step(p) \/ Kill(p) PROVE Own(p)
<1> USE DEF Types, LockTypes, LocalTypes, Own, locks, local, LockRead, LockWrite, Unlock,
            UnlockAll, Fetch, Store
<1>1. CASE Access(p) \/ Create(p) \/ WriteHeader(p) \/ CheckSealed(p)
  BY <1>1 DEF Access, Create, WriteHeader, CheckSealed
<1>2. CASE JoinRead(p) \/ JoinWrite(p)
  BY <1>2 DEF JoinRead, JoinWrite
<1>3. CASE Traverse(p)
  BY <1>3 DEF Traverse, SkipEntry, HashForever, BeginUpsert, ReadCount
<1>4. CASE LockRow(p) \/ LockFound(p) \/ LockFree(p) \/ SkipLocked(p)
  BY <1>4 DEF LockRow, LockFound, LockFree, SkipLocked
<1>5. CASE CompareRow(p)
  <2>1. (UNCHANGED reads \/ Unlock(p, pos[p])) /\ \E n : pos' = [pos EXCEPT ![p] = n]
    BY <1>5 DEF CompareRow
  <2> QED
    BY <2>1
<1>6. CASE ReplaceRow(p)
  BY <1>6 DEF ReplaceRow, Upserted
<1>7. CASE InsertRow(p)
  BY <1>7 DEF InsertRow
<1>8. CASE AddRead(p)
  BY <1>8 DEF AddRead
<1>9. CASE AddWrite(p)
  BY <1>9 DEF AddWrite, Upserted
<1>10. CASE LeaveRead(p)
  BY <1>10 DEF LeaveRead
<1>11. CASE LeaveUncounted(p) \/ LeaveLast(p)
  BY <1>11 DEF LeaveUncounted, LeaveLast
<1>12. CASE LeaveOthers(p) \/ Seal(p) \/ Kill(p)
  BY <1>12 DEF LeaveOthers, Seal, Kill
<1> QED
  BY <1>1, <1>2, <1>3, <1>4, <1>5, <1>6, <1>7, <1>8, <1>9, <1>10, <1>11, <1>12
  DEF Step, Connect, Upsert, Close

\* Only a writer that runs takes a step, unless it starts.
LEMMA Runs ==
  ASSUME Types, NEW p \in Writers, Step(p) \/ Kill(p)
  PROVE  p \notin dead /\ (Running(p) \/ Access(p))
  BY DEF Running, Ended, At, Step, Connect, Create, WriteHeader, CheckSealed,
     Access, JoinRead, JoinWrite, Traverse, SkipEntry, HashForever, BeginUpsert, Listed,
     Upsert, LockRow, CompareRow, LockFound, ReplaceRow, LockFree, SkipLocked, InsertRow,
     AddRead, AddWrite, Close, LeaveRead, LeaveUncounted, LeaveLast, LeaveOthers, Seal,
     Kill

\* The history of two writers at once is never taken back.
LEMMA SharedKept ==
  ASSUME NEW p \in Writers, Step(p) \/ Kill(p), ~shared' PROVE ~shared
  BY DEF past, Step, Connect, Create, WriteHeader, CheckSealed,
     Access, JoinRead, JoinWrite, Traverse, SkipEntry, HashForever, BeginUpsert, Listed,
     Upsert, LockRow, CompareRow, LockFound, ReplaceRow, LockFree, SkipLocked, InsertRow,
     AddRead, AddWrite, Close, LeaveRead, LeaveUncounted, LeaveLast, LeaveOthers, Seal,
     Kill

\* While one of them steps alone, the others do not run.
LEMMA OthersIdle ==
  ASSUME Types, Single, NEW p \in Writers, Step(p) \/ Kill(p), ~shared'
  PROVE  ~shared /\ \A q \in Writers \ {p} : ~Running(q) /\ ~Running(q)'
<1>1. ~shared
  BY SharedKept
<1>2. ASSUME NEW q \in Writers \ {p} PROVE ~Running(q)
  <2>1. CASE Access(p)
    BY <2>1 DEF Access
  <2>2. CASE Running(p)
    BY <1>1, <2>2 DEF Single
  <2> QED
    BY <2>1, <2>2, Runs
<1>3. Alone(p)
  BY StepAlone
<1> QED
  BY <1>1, <1>2, <1>3 DEF Alone, Running, Ended

LEMMA SingleNext == Types /\ Single /\ [Next]_vars => Single'
<1> SUFFICES ASSUME Types, Single, [Next]_vars, ~shared' PROVE Single'
  BY DEF Single
<1>1. ASSUME NEW p \in Writers, Step(p) \/ Kill(p) PROVE Single'
  BY <1>1, OthersIdle DEF Single
<1>2. CASE Diff \/ UNCHANGED vars
  BY <1>2, DiffAlone DEF past, Single, Running, Ended
<1> QED
  BY <1>1, <1>2 DEF Next, Terminated

\* The end of a program, and its start, leave it without locks.
LEMMA UnlockedNext == Types /\ Unlocked /\ [Next]_vars => Unlocked'
<1> SUFFICES ASSUME Types, Unlocked, [Next]_vars PROVE Unlocked'
  OBVIOUS
<1>1. ASSUME NEW p \in Writers, Step(p) \/ Kill(p) PROVE Unlocked'
  <2>1. Alone(p) /\ Own(p)
    BY <1>1, StepAlone, OwnKept
  <2>2. ASSUME p \in dead' \/ pc'[p] \in Before \cup {"refused", "done"}
        PROVE  reads'[p] = {} /\ writes'[p] = {}
    <3> USE DEF At, Goto, locks, Types, LocalTypes, LockTypes
    <3>1. CASE Access(p) \/ Create(p) \/ CheckSealed(p)
      <4>1. pc[p] \in Before
        BY <3>1 DEF Access, Create, CheckSealed, Before
      <4>2. UNCHANGED <<reads, writes>>
        <5>1. CASE CheckSealed(p)
          <6>1. Goto(p, "join") \/ UNCHANGED <<reads, writes>>
            BY <5>1 DEF CheckSealed
          <6>2. p \notin dead'
            BY <5>1 DEF CheckSealed
          <6> QED
            BY <2>2, <6>1, <6>2 DEF Before
        <5>2. CASE Access(p) \/ Create(p)
          BY <5>2 DEF Access, Create
        <5> QED
          BY <3>1, <5>1, <5>2
      <4> QED
        BY <4>1, <4>2 DEF Unlocked
    <3>2. CASE LeaveOthers(p) \/ Seal(p) \/ Kill(p)
      BY <3>2 DEF LeaveOthers, Seal, Kill, UnlockAll
    <3>3. CASE WriteHeader(p) \/ JoinRead(p) \/ JoinWrite(p) \/ Traverse(p)
      <4>1. p \notin dead' /\ pc'[p] \in {"list", "joining", "hash", "scan"}
        BY <3>3 DEF WriteHeader, JoinRead, JoinWrite, Traverse, SkipEntry, HashForever,
           BeginUpsert, Listed, past
      <4> QED
        BY <2>2, <4>1 DEF Before
    <3>4. CASE Upsert(p)
      <4>1. p \notin dead' /\ pc'[p] \in Upserting \cup {"list"}
        BY <3>4 DEF Upsert, LockRow, CompareRow, LockFound, ReplaceRow, LockFree,
           SkipLocked, InsertRow, AddRead, AddWrite, Upserted, Upserting, past
      <4> QED
        BY <2>2, <4>1 DEF Before, Upserting
    <3>5. CASE LeaveRead(p) \/ LeaveUncounted(p) \/ LeaveLast(p)
      <4>1. p \notin dead' /\ pc'[p] \in {"leaving", "seal"}
        BY <3>5 DEF LeaveRead, LeaveUncounted, LeaveLast, past
      <4> QED
        BY <2>2, <4>1 DEF Before
    <3> QED
      BY <1>1, <3>1, <3>2, <3>3, <3>4, <3>5 DEF Step, Connect, Close
  <2>3. ASSUME NEW q \in Writers \ {p},
               q \in dead' \/ pc'[q] \in Before \cup {"refused", "done"}
        PROVE  reads'[q] = {} /\ writes'[q] = {}
    BY <2>1, <2>3 DEF Alone, Own, Unlocked
  <2> QED
    BY <2>2, <2>3 DEF Unlocked
<1>2. CASE Diff \/ UNCHANGED vars
  BY <1>2, DiffAlone DEF locks, Unlocked
<1> QED
  BY <1>1, <1>2 DEF Next, Terminated

-----------------------------------------------------------------------------
(* Layer 2.  What the writer that runs knows of the file.                    *)

\* No row the scan has passed has the key in hand.
Unseen(p) == \A i \in 1..pos[p] : rows[i].key # entry[p]

\* The scan of an upsert has looked at pos rows of the hdr[COUNT] there are; it
\* has found the row with its key, or there is none, and the row it inserts is
\* the one after them.
Place(p) ==
  /\ pc[p] \notin Upserting => pos[p] = 0
  /\ pc[p] \in {"scan", "row"} => togo[p] + pos[p] = hdr[COUNT] /\ Unseen(p)
  /\ pc[p] \in {"found", "replace"} =>
       pos[p] < hdr[COUNT] /\ rows[pos[p] + 1].key = entry[p]
  /\ pc[p] \in {"write", "add", "adding"} => pos[p] = hdr[COUNT] /\ Unseen(p)
  /\ pc[p] \in {"add", "adding"} =>
       hdr[COUNT] < Len(rows) /\ rows[hdr[COUNT] + 1] = Row(p)
  /\ pc[p] = "adding" => tmp[p] = hdr[COUNT]

\* A header is written to a file without one.
Fresh == /\ headers = 0 => hdr[COUNT] = 0
         /\ \A p \in Writers \ dead : pc[p] \in {"create", "header"} => headers = 0

\* Nobody writes to a sealed snapshot.
Closed == headers > 0 /\ hdr[SNAPSTATE] = SealedState =>
  \A p \in Writers \ dead : pc[p] \in {"access", "check", "refused", "done"}

\* The rows that record_count covers are in the file, one for each key.
Filled ==
  /\ hdr[COUNT] <= Len(rows)
  /\ \A i, j \in 1..hdr[COUNT] : rows[i].key = rows[j].key => i = j

Mine == ~shared /\ ~torn =>
  Fresh /\ Closed /\ Filled /\ \A p \in Writers \ dead : Place(p)

Owned == Invariants /\ Unlocked /\ Single /\ Mine

LEMMA OwnedInit == Init => Owned
<1> SUFFICES ASSUME Init PROVE Owned
  OBVIOUS
<1>1. Unlocked /\ Single
  BY DEF Init, Unlocked, Single, Running
<1>2. hdr[COUNT] = 0 /\ Len(rows) = 0 /\ headers = 0
  BY DEF Init, Fields
<1>3. Fresh /\ Closed /\ Filled
  BY <1>2 DEF Init, Fresh, Closed, Filled
<1>4. \A p \in Writers : Place(p)
  BY DEF Init, Place, Upserting
<1> QED
  BY <1>1, <1>3, <1>4, InvariantsInit DEF Owned, Mine

\* A step of p, when no two writers have overlapped and none has read a field
\* before it was there.
Turn(p) == /\ Owned /\ Invariants' /\ (Step(p) \/ Kill(p))
           /\ ~shared' /\ ~torn' /\ [Next]_vars

\* What p may rely on at its turn.
LEMMA TurnFacts ==
  ASSUME NEW p \in Writers, Turn(p)
  PROVE  /\ ~shared /\ ~torn /\ Types /\ Types' /\ Header /\ Header'
         /\ Fresh /\ Closed /\ Filled /\ p \notin dead /\ Place(p)
         /\ hdr[COUNT] \in Nat /\ pos[p] \in Nat /\ Len(rows) \in Nat
         /\ \A r : MayWrite(p, r)
<1>1. ~shared /\ \A q \in Writers \ {p} : ~Running(q)
  BY OthersIdle DEF Turn, Owned, Invariants
<1>2. ~torn
  BY TornKept DEF Turn, Owned, Invariants
<1>3. \A q \in Writers \ {p} : reads[q] = {} /\ writes[q] = {}
  BY <1>1 DEF Turn, Owned, Unlocked, Running, Ended, Before
<1>4. p \notin dead
  BY Runs DEF Turn, Owned, Invariants
<1>5. hdr[COUNT] \in Nat /\ pos[p] \in Nat /\ Len(rows) \in Nat
  BY DEF Turn, Owned, Invariants, Types, FileTypes, LocalTypes, Fields
<1> QED
  BY <1>1, <1>2, <1>3, <1>4, <1>5 DEF Turn, Owned, Mine, MayWrite, Invariants

\* The steps of p change of Mine what concerns p.
LEMMA MineFrame ==
  ASSUME NEW p \in Writers, Turn(p),
         headers' = 0 => hdr'[COUNT] = 0,
         p \notin dead' /\ pc'[p] \in {"create", "header"} => headers' = 0,
         p \notin dead' /\ headers' > 0 /\ hdr'[SNAPSTATE] = SealedState
           => pc'[p] \in {"check", "refused", "done"},
         Filled',
         p \notin dead' => Place(p)'
  PROVE  Mine'
<1>1. Alone(p) /\ Own(p)
  BY StepAlone, OwnKept DEF Turn, Owned, Invariants
<1>2. ASSUME NEW q \in Writers \ {p}, q \notin dead'
      PROVE  pc'[q] \in {"access", "refused", "done"} /\ Place(q)'
  <2>1. q \notin dead /\ pc[q] \in {"access", "refused", "done"} /\ pc'[q] = pc[q]
    BY <1>1, <1>2, OthersIdle DEF Alone, Turn, Owned, Invariants, Running, Ended
  <2>2. Place(q)
    BY <2>1, TurnFacts DEF Turn, Owned, Mine
  <2>3. pos'[q] = 0
    BY <1>1, <2>1, <2>2 DEF Own, Place, Upserting
  <2> QED
    BY <2>1, <2>3 DEF Place, Upserting
<1>3. Fresh'
  BY <1>2 DEF Fresh
<1>4. p \notin dead' /\ headers' > 0 /\ hdr'[SNAPSTATE] = SealedState
        => pc'[p] \in {"access", "check", "refused", "done"}
  OBVIOUS
<1>5. Closed'
  BY <1>2, <1>4 DEF Closed
<1>6. \A q \in Writers \ dead' : Place(q)'
  BY <1>2
<1> QED
  BY <1>3, <1>5, <1>6 DEF Mine

\* What SnapshotMap sees of the file.
Seen == <<headers, rows, hdr[COUNT], hdr[SNAPSTATE]>>

Writing(p) == WriteHeader(p) \/ ReplaceRow(p) \/ InsertRow(p) \/ AddWrite(p) \/ Seal(p)

\* The writes of active_writers hit nothing else.
LEMMA SeenKept ==
  ASSUME NEW p \in Writers, Turn(p), ~Writing(p) PROVE UNCHANGED Seen
<1> USE DEF Seen, file, At
<1>0. Types /\ Header /\ ~torn
  BY TurnFacts
<1>1. CASE JoinWrite(p) \/ LeaveLast(p) \/ LeaveOthers(p)
  <2>1. UNCHANGED <<headers, rows>> /\ pc[p] \in {"joining", "leaving"}
    BY <1>1 DEF JoinWrite, LeaveLast, LeaveOthers
  <2>2. ~short[p]
    BY <1>0, <2>1 DEF Header
  <2>3. \E v : hdr' = [hdr EXCEPT ![WRITERS] = v]
    BY <1>0, <1>1, <2>2, StoreHits DEF JoinWrite, LeaveLast, LeaveOthers, Fields
  <2> QED
    BY <2>1, <2>3 DEF WRITERS, COUNT, SNAPSTATE
<1>2. CASE ~JoinWrite(p) /\ ~LeaveLast(p) /\ ~LeaveOthers(p)
  BY <1>2 DEF Turn, Writing, Step, Connect, Create, CheckSealed,
     Access, JoinRead, Traverse, SkipEntry, HashForever, BeginUpsert, Upsert, LockRow,
     CompareRow, LockFound, LockFree, SkipLocked, AddRead, Close, LeaveRead,
     LeaveUncounted, Kill
<1> QED
  BY <1>1, <1>2

\* Such a step keeps Mine if it finds its place.
LEMMA MineSeen ==
  ASSUME NEW p \in Writers, Turn(p), UNCHANGED Seen,
         p \notin dead' => Place(p)',
         p \notin dead' /\ pc'[p] \in {"create", "header"} => headers = 0,
         p \notin dead' /\ pc[p] \in {"access", "check"} /\ headers > 0
           /\ hdr[SNAPSTATE] = SealedState => pc'[p] \in {"check", "refused"}
  PROVE  Mine'
<1>1. Fresh /\ Closed /\ Filled /\ p \notin dead /\ Types
  BY TurnFacts
<1>2. Filled'
  BY <1>1 DEF Filled, Seen
<1>3. headers' = 0 => hdr'[COUNT] = 0
  BY <1>1 DEF Fresh, Seen
<1>4. ASSUME p \notin dead', headers' > 0, hdr'[SNAPSTATE] = SealedState
      PROVE  pc'[p] \in {"check", "refused", "done"}
  <2>1. headers > 0 /\ hdr[SNAPSTATE] = SealedState
    BY <1>4 DEF Seen
  <2>2. pc[p] \in {"access", "check", "refused", "done"}
    BY <1>1, <2>1 DEF Closed
  <2>3. pc[p] \in {"access", "check"}
    BY <1>1, <2>2, Runs DEF Running, Ended, Turn, Access, At
  <2> QED
    BY <1>4, <2>1, <2>3
<1>5. headers' = headers
  BY DEF Seen
<1> QED
  BY <1>2, <1>3, <1>4, <1>5, MineFrame

\* Steps of a program that is not in an upsert.
LEMMA MineOutside ==
  ASSUME NEW p \in Writers, Turn(p),
         \/ Access(p) \/ Create(p) \/ CheckSealed(p) \/ JoinRead(p) \/ JoinWrite(p)
         \/ SkipEntry(p) \/ HashForever(p)
         \/ LeaveRead(p) \/ LeaveUncounted(p) \/ LeaveLast(p) \/ LeaveOthers(p)
  PROVE  Mine' /\ UNCHANGED Seen
<1> USE DEF At, Goto, file, local
<1>0. /\ Types /\ Header /\ Fresh /\ Closed /\ p \notin dead /\ Place(p) /\ ~torn
  BY TurnFacts
<1>1. UNCHANGED Seen
  <2>1. pc[p] \notin {"header", "replace", "write", "adding", "seal"}
    BY DEF Access, Create, CheckSealed, JoinRead, JoinWrite, SkipEntry, HashForever,
       Listed, LeaveRead, LeaveUncounted, LeaveLast, LeaveOthers
  <2>2. ~Writing(p)
    BY <2>1 DEF Writing, WriteHeader, ReplaceRow, InsertRow, AddWrite, Seal
  <2> QED
    BY <2>2, SeenKept
<1>2. pc[p] \notin Upserting /\ UNCHANGED pos
  BY DEF Upserting, Access, Create, CheckSealed, JoinRead, JoinWrite, SkipEntry,
     HashForever, Listed, LeaveRead, LeaveUncounted, LeaveLast, LeaveOthers
<1>3. pc'[p] \notin Upserting
  BY <1>0 DEF Types, LocalTypes, Upserting, Access, Create, CheckSealed, JoinRead,
     JoinWrite, SkipEntry, HashForever, Listed, LeaveRead, LeaveUncounted, LeaveLast,
     LeaveOthers
<1>4. Place(p)'
  BY <1>0, <1>2, <1>3 DEF Place, Upserting
<1>5. pc'[p] \in {"create", "header"} => headers = 0
  <2>1. CASE Access(p)
    BY <1>0, <2>1 DEF Access, Header, Types, FileTypes, LocalTypes
  <2>2. CASE Create(p)
    BY <1>0, <2>2 DEF Create, Fresh
  <2>3. CASE ~Access(p) /\ ~Create(p)
    BY <1>0, <2>3 DEF Types, LocalTypes, CheckSealed, JoinRead,
       JoinWrite, SkipEntry, HashForever, Listed, LeaveRead, LeaveUncounted, LeaveLast,
       LeaveOthers
  <2> QED
    BY <2>1, <2>2, <2>3
<1>6. ASSUME pc[p] \in {"access", "check"}, headers > 0, hdr[SNAPSTATE] = SealedState
      PROVE  pc'[p] \in {"check", "refused"}
  <2>1. size = 3
    BY <1>0, <1>6 DEF Header, Types, FileTypes
  <2>2. Present(SNAPSTATE)
    BY <2>1 DEF Present, SNAPSTATE
  <2>3. CASE Access(p)
    BY <1>0, <2>1, <2>3 DEF Access, Types, LocalTypes
  <2>4. CASE CheckSealed(p)
    BY <1>0, <1>6, <2>2, <2>4 DEF CheckSealed, MayHold, Types, LocalTypes
  <2> QED
    BY <1>6, <2>3, <2>4 DEF Create, JoinRead,
       JoinWrite, SkipEntry, HashForever, Listed, LeaveRead, LeaveUncounted, LeaveLast,
       LeaveOthers
<1> QED
  BY <1>1, <1>4, <1>5, <1>6, MineSeen

\* A writer that is killed leaves the file as it is.
LEMMA MineKill ==
  ASSUME NEW p \in Writers, Turn(p), Kill(p) PROVE Mine' /\ UNCHANGED Seen
<1>1. UNCHANGED Seen /\ p \in dead'
  BY DEF Kill, file, Seen
<1> QED
  BY <1>1, MineSeen

\* The steps of an upsert that only look at the rows.
LEMMA MineLooking ==
  ASSUME NEW p \in Writers, Turn(p),
         \/ BeginUpsert(p) \/ LockRow(p) \/ CompareRow(p) \/ LockFound(p)
         \/ LockFree(p) \/ SkipLocked(p) \/ AddRead(p)
  PROVE  Mine' /\ UNCHANGED Seen
<1> USE DEF At, Goto, file, local
<1>0. /\ Types /\ Types' /\ Filled /\ p \notin dead /\ Place(p) /\ ~torn /\ ~torn'
      /\ hdr[COUNT] \in Nat /\ pos[p] \in Nat /\ Len(rows) \in Nat /\ togo[p] \in Nat
  BY TurnFacts DEF Turn, Types, LocalTypes
<1>1. UNCHANGED Seen
  <2>1. pc[p] \notin {"header", "replace", "write", "adding", "seal"}
    BY DEF BeginUpsert, Listed, LockRow, CompareRow, LockFound, LockFree, SkipLocked,
       AddRead
  <2>2. ~Writing(p)
    BY <2>1 DEF Writing, WriteHeader, ReplaceRow, InsertRow, AddWrite, Seal
  <2> QED
    BY <2>2, SeenKept
<1>2. rows' = rows /\ hdr'[COUNT] = hdr[COUNT]
  BY <1>1 DEF Seen
<1>3. pc[p] \notin {"access", "check"}
  BY DEF BeginUpsert, Listed, LockRow, CompareRow, LockFound, LockFree, SkipLocked,
     AddRead
<1>4. Place(p)' /\ pc'[p] \notin {"create", "header"}
  <2>1. CASE BeginUpsert(p)
    <3>1. pos[p] = 0 /\ pos'[p] = 0 /\ pc'[p] = "scan"
      BY <1>0, <2>1 DEF BeginUpsert, Listed, Place, Upserting, Types, LocalTypes
    <3>2. Present(COUNT)
      BY <1>0, <2>1 DEF BeginUpsert, ReadCount, NoteTorn
    <3>3. togo'[p] = hdr[COUNT]
      <4>1. PICK v \in MayHold(COUNT) : togo' = [togo EXCEPT ![p] = v]
        BY <2>1 DEF BeginUpsert
      <4> QED
        BY <1>0, <3>2, <4>1 DEF MayHold, Types, LocalTypes
    <3> QED
      BY <1>0, <1>2, <3>1, <3>3 DEF Place, Unseen, Upserting
  <2>2. CASE LockRow(p)
    <3>1. pc[p] = "scan" /\ pc'[p] = "row"
          /\ togo'[p] = togo[p] /\ pos'[p] = pos[p] /\ entry'[p] = entry[p]
      BY <1>0, <2>2 DEF LockRow, Types, LocalTypes
    <3> QED
      BY <1>0, <1>2, <3>1 DEF Place, Unseen, Upserting
  <2>3. CASE CompareRow(p)
    <3>1. /\ pc[p] = "row" /\ togo[p] > 0 /\ entry'[p] = entry[p]
          /\ togo[p] + pos[p] = hdr[COUNT] /\ Unseen(p)
      BY <1>0, <2>3 DEF CompareRow, Types, LocalTypes, Place
    <3>2. ~AtEOF(p)
      BY <1>0, <3>1 DEF AtEOF, Filled
    <3>3. CASE Matches(p)
      <4>1. pc'[p] = "found" /\ pos'[p] = pos[p]
        BY <1>0, <2>3, <3>2, <3>3 DEF CompareRow, Types, LocalTypes
      <4>2. rows[pos[p] + 1].key = entry[p]
        BY <3>3 DEF Matches
      <4> QED
        BY <1>0, <1>2, <3>1, <4>1, <4>2 DEF Place, Upserting
    <3>4. CASE ~Matches(p)
      <4>1. pc'[p] = "scan" /\ pos'[p] = pos[p] + 1 /\ togo'[p] = togo[p] - 1
        BY <1>0, <2>3, <3>2, <3>4 DEF CompareRow, Types, LocalTypes
      <4>2. rows[pos[p] + 1].key # entry[p]
        BY <3>2, <3>4 DEF Matches
      <4>3. \A i \in 1..(pos[p] + 1) : i \in 1..pos[p] \/ i = pos[p] + 1
        BY <1>0
      <4>4. Unseen(p)'
        BY <1>2, <3>1, <4>1, <4>2, <4>3 DEF Unseen
      <4> QED
        BY <1>0, <1>2, <3>1, <4>1, <4>4 DEF Place, Upserting
    <3> QED
      BY <3>3, <3>4
  <2>4. CASE LockFound(p)
    <3>1. pc[p] = "found" /\ pc'[p] = "replace" /\ pos'[p] = pos[p] /\ entry'[p] = entry[p]
      BY <1>0, <2>4 DEF LockFound, Types, LocalTypes
    <3> QED
      BY <1>0, <1>2, <3>1 DEF Place, Upserting
  <2>5. CASE LockFree(p)
    <3>1. pc[p] = "scan" /\ togo[p] = 0 /\ pc'[p] = "write" /\ pos'[p] = pos[p]
          /\ entry'[p] = entry[p]
      BY <1>0, <2>5 DEF LockFree, Types, LocalTypes
    <3> QED
      BY <1>0, <1>2, <3>1 DEF Place, Unseen, Upserting
  \* Nobody else has a row locked.
  <2>6. CASE SkipLocked(p)
    BY <2>6, TurnFacts DEF SkipLocked
  <2>7. CASE AddRead(p)
    <3>1. pc[p] = "add" /\ pc'[p] = "adding" /\ pos'[p] = pos[p] /\ entry'[p] = entry[p]
      BY <1>0, <2>7 DEF AddRead, Types, LocalTypes
    <3>2. tmp'[p] = hdr[COUNT]
      BY ZenonT(30), <1>0, <2>7 DEF AddRead, Fetch, NoteTorn, MayHold, Types, LocalTypes
    <3>3. Row(p)' = Row(p)
      BY <3>1 DEF Row
    <3> QED
      BY <1>0, <1>2, <3>1, <3>2, <3>3 DEF Place, Unseen, Upserting
  <2> QED
    BY <2>1, <2>2, <2>3, <2>4, <2>5, <2>6, <2>7
<1> QED
  BY <1>1, <1>3, <1>4, MineSeen

-----------------------------------------------------------------------------
(* Layer 3.  The steps that write: what each does to the rows that           *)
(* record_count covers.                                                      *)

\* What a write of the whole header does.
LEMMA MineHeader ==
  ASSUME NEW p \in Writers, Turn(p), WriteHeader(p)
  PROVE  /\ Mine' /\ headers = 0 /\ headers' > 0
         /\ hdr[COUNT] = 0 /\ hdr'[COUNT] = 0 /\ hdr'[SNAPSTATE] = Open
<1>0. /\ Types /\ Fresh /\ p \notin dead /\ Place(p) /\ Len(rows) \in Nat
  BY TurnFacts
<1>1. /\ pc[p] = "header" /\ pc'[p] = "list" /\ headers' = headers + 1
      /\ UNCHANGED <<rows, pos>>
  BY <1>0 DEF WriteHeader, At, Goto, Types, LocalTypes
<1>2. headers = 0 /\ hdr[COUNT] = 0 /\ headers' = 1
  BY <1>0, <1>1 DEF Fresh
<1>3. hdr'[COUNT] = 0 /\ hdr'[SNAPSTATE] = Open
  BY DEF WriteHeader, Fields, SNAPSTATE, WRITERS, COUNT
<1>4. Filled'
  BY <1>0, <1>1, <1>3 DEF Filled
<1>5. Place(p)'
  BY <1>0, <1>1 DEF Place, Upserting
<1>6. Mine'
  BY <1>1, <1>2, <1>3, <1>4, <1>5, MineFrame DEF Open, SealedState
<1> QED
  BY <1>2, <1>3, <1>6

\* A row that is replaced keeps its key and its place.
LEMMA MineReplace ==
  ASSUME NEW p \in Writers, Turn(p), ReplaceRow(p)
  PROVE  /\ Mine' /\ UNCHANGED <<headers, hdr>> /\ entry[p] \in Keys
         /\ Len(rows') = Len(rows) /\ pos[p] + 1 \in 1..hdr[COUNT]
         /\ rows[pos[p] + 1].key = entry[p] /\ rows'[pos[p] + 1] = Row(p)
         /\ \A i \in 1..Len(rows) : i # pos[p] + 1 => rows'[i] = rows[i]
<1> DEFINE n == pos[p] + 1
<1>0. /\ Types /\ Fresh /\ Closed /\ Filled /\ p \notin dead /\ Place(p)
      /\ Len(rows) \in Nat /\ hdr[COUNT] \in Nat /\ pos[p] \in Nat
  BY TurnFacts
<1>1. /\ pc[p] = "replace" /\ pc'[p] = "list" /\ pos'[p] = 0
      /\ UNCHANGED <<headers, hdr, dead>> /\ rows' = [rows EXCEPT ![n] = Row(p)]
  BY <1>0 DEF ReplaceRow, Upserted, At, Goto, Types, LocalTypes
<1>2. n \in 1..hdr[COUNT] /\ rows[n].key = entry[p] /\ n \in 1..Len(rows)
  BY <1>0, <1>1 DEF Place, Filled
<1>3. rows \in Seq(RowType) /\ entry[p] \in Keys
  BY <1>0, <1>1 DEF Types, FileTypes, LocalTypes, Upserting
<1>4. /\ Len(rows') = Len(rows) /\ rows'[n] = Row(p)
      /\ \A i \in 1..Len(rows) : i # n => rows'[i] = rows[i]
  BY <1>1, <1>2, <1>3
<1>5. \A i \in 1..Len(rows) : rows'[i].key = rows[i].key
  BY <1>2, <1>4 DEF Row
<1>6. Filled'
  <2>1. hdr'[COUNT] = hdr[COUNT] /\ \A i \in 1..hdr[COUNT] : i \in 1..Len(rows)
    BY <1>0, <1>1 DEF Filled
  <2> QED
    BY <1>0, <1>4, <1>5, <2>1 DEF Filled
<1>7. Place(p)'
  BY <1>1 DEF Place, Upserting
<1>8. headers > 0 /\ hdr[SNAPSTATE] = SealedState => FALSE
  BY <1>0, <1>1 DEF Closed
<1>9. Mine'
  BY <1>0, <1>1, <1>6, <1>7, <1>8, MineFrame DEF Fresh
<1> QED
  BY <1>1, <1>2, <1>3, <1>4, <1>9

\* A row that is inserted is not covered yet.
LEMMA MineInsert ==
  ASSUME NEW p \in Writers, Turn(p), InsertRow(p)
  PROVE  /\ Mine' /\ UNCHANGED <<headers, hdr>>
         /\ hdr[COUNT] <= Len(rows')
         /\ \A i \in 1..hdr[COUNT] : rows'[i] = rows[i]
<1> DEFINE n == IF AtEOF(p) THEN pos[p] + 1 ELSE Len(rows)
<1>0. /\ Types /\ Fresh /\ Closed /\ Filled /\ p \notin dead /\ Place(p)
      /\ Len(rows) \in Nat /\ hdr[COUNT] \in Nat /\ pos[p] \in Nat
  BY TurnFacts
<1>1. /\ pc[p] = "write" /\ pc'[p] = "add"
      /\ UNCHANGED <<headers, hdr, dead, pos, entry>>
  BY <1>0 DEF InsertRow, At, Goto, local, Types, LocalTypes
<1>2. pos[p] = hdr[COUNT] /\ Unseen(p)
  BY <1>0, <1>1 DEF Place
<1>3. n \in Nat /\ n > hdr[COUNT] /\ n >= Len(rows)
  BY <1>0, <1>2 DEF AtEOF, Filled
<1>4. rows' = [i \in 1..n |-> IF i = pos[p] + 1 THEN Row(p)
                              ELSE IF i <= Len(rows) THEN rows[i] ELSE Hole]
  BY DEF InsertRow
<1> HIDE DEF n
<1>5. Len(rows') = n /\ rows'[hdr[COUNT] + 1] = Row(p)
  BY <1>0, <1>2, <1>3, <1>4
<1>6. \A i \in 1..hdr[COUNT] : rows'[i] = rows[i]
  BY <1>0, <1>2, <1>3, <1>4 DEF Filled
<1>7. Filled'
  <2>1. hdr'[COUNT] = hdr[COUNT] /\ hdr'[COUNT] <= Len(rows')
    BY <1>0, <1>1, <1>3, <1>5
  <2>2. \A i, j \in 1..hdr[COUNT] : rows[i].key = rows[j].key => i = j
    BY <1>0 DEF Filled
  <2>3. \A i, j \in 1..hdr'[COUNT] : rows'[i].key = rows'[j].key => i = j
    BY <1>6, <2>1, <2>2
  <2> QED
    BY <2>1, <2>3 DEF Filled
<1>8. Place(p)'
  <2>1. Row(p)' = Row(p)
    BY <1>1 DEF Row
  <2>2. Unseen(p)'
    BY <1>0, <1>1, <1>2, <1>6 DEF Unseen
  <2> QED
    BY <1>0, <1>1, <1>2, <1>3, <1>5, <2>1, <2>2 DEF Place, Upserting
<1>9. headers > 0 /\ hdr[SNAPSTATE] = SealedState => FALSE
  BY <1>0, <1>1 DEF Closed
<1>10. Mine'
  BY <1>0, <1>1, <1>7, <1>8, <1>9, MineFrame DEF Fresh
<1> QED
  BY <1>0, <1>1, <1>3, <1>5, <1>6, <1>10

\* The row that was inserted is covered by the increment of record_count.
LEMMA MineAdd ==
  ASSUME NEW p \in Writers, Turn(p), AddWrite(p)
  PROVE  /\ Mine' /\ UNCHANGED <<headers, rows>> /\ entry[p] \in Keys
         /\ hdr'[COUNT] = hdr[COUNT] + 1 /\ hdr'[SNAPSTATE] = hdr[SNAPSTATE]
         /\ rows[hdr[COUNT] + 1] = Row(p) /\ hdr[COUNT] + 1 <= Len(rows)
         /\ \A i \in 1..hdr[COUNT] : rows[i].key # entry[p]
<1>0. /\ Types /\ Header /\ Fresh /\ Closed /\ Filled /\ p \notin dead /\ Place(p) /\ ~torn
      /\ Len(rows) \in Nat /\ hdr[COUNT] \in Nat /\ pos[p] \in Nat
  BY TurnFacts
<1>1. /\ pc[p] = "adding" /\ pc'[p] = "list" /\ pos'[p] = 0
      /\ UNCHANGED <<headers, rows, dead>> /\ Store(p, COUNT, tmp[p] + 1)
  BY <1>0 DEF AddWrite, Upserted, At, Goto, Types, LocalTypes
<1>2. entry[p] \in Keys
  BY <1>0, <1>1 DEF Types, LocalTypes, Upserting
<1>3. /\ pos[p] = hdr[COUNT] /\ Unseen(p) /\ tmp[p] = hdr[COUNT]
      /\ hdr[COUNT] < Len(rows) /\ rows[hdr[COUNT] + 1] = Row(p)
  BY <1>0, <1>1 DEF Place
<1>4. ~short[p]
  BY <1>0, <1>1 DEF Header
<1>5. hdr' = [hdr EXCEPT ![COUNT] = hdr[COUNT] + 1]
  BY <1>0, <1>1, <1>3, <1>4, StoreHits DEF Fields
<1>6. hdr'[COUNT] = hdr[COUNT] + 1 /\ hdr'[SNAPSTATE] = hdr[SNAPSTATE]
  BY <1>0, <1>5 DEF Types, FileTypes, Fields, SNAPSTATE, WRITERS, COUNT
<1>7. \A i \in 1..hdr[COUNT] : rows[i].key # entry[p]
  BY <1>3 DEF Unseen
<1>8. Filled'
  <2>1. rows[hdr[COUNT] + 1].key = entry[p]
    BY <1>3 DEF Row
  <2>2. \A i \in 1..(hdr[COUNT] + 1) : i \in 1..hdr[COUNT] \/ i = hdr[COUNT] + 1
    BY <1>0
  <2> QED
    BY <1>0, <1>1, <1>3, <1>6, <1>7, <2>1, <2>2 DEF Filled
<1>9. Place(p)'
  BY <1>1 DEF Place, Upserting
<1>10. headers > 0 /\ hdr[SNAPSTATE] = SealedState => FALSE
  BY <1>0, <1>1 DEF Closed
<1>11. headers # 0
  BY <1>0, <1>1 DEF Header, Before
<1>12. Mine'
  BY <1>1, <1>6, <1>8, <1>9, <1>10, <1>11, MineFrame
<1> QED
  BY <1>0, <1>1, <1>2, <1>3, <1>6, <1>7, <1>12

\* The writer that seals an open snapshot is the only one left.
LEMMA MineSeal ==
  ASSUME NEW p \in Writers, Turn(p), Seal(p)
  PROVE  /\ Mine' /\ UNCHANGED <<headers, rows>> /\ headers # 0
         /\ hdr'[COUNT] = hdr[COUNT]
         /\ hdr[SNAPSTATE] # SealedState /\ hdr'[SNAPSTATE] = SealedState
<1>0. /\ Types /\ Header /\ Fresh /\ Closed /\ Filled /\ p \notin dead /\ Place(p) /\ ~torn
  BY TurnFacts
<1>1. /\ pc[p] = "seal" /\ pc'[p] = "done" /\ UNCHANGED <<headers, rows, dead, pos>>
      /\ hdr' = [hdr EXCEPT ![SNAPSTATE] = SealedState]
  BY <1>0 DEF Seal, At, Goto, local, Types, LocalTypes
<1>2. headers # 0
  BY <1>0, <1>1 DEF Header, Before
<1>3. hdr[SNAPSTATE] # SealedState
  BY <1>0, <1>1, <1>2 DEF Closed, Types, FileTypes
<1>4. hdr'[COUNT] = hdr[COUNT] /\ hdr'[SNAPSTATE] = SealedState
  BY <1>0, <1>1 DEF Types, FileTypes, Fields, SNAPSTATE, WRITERS, COUNT
<1>5. Filled'
  BY <1>0, <1>1, <1>4 DEF Filled
<1>6. Place(p)'
  BY <1>0, <1>1 DEF Place, Upserting
<1>7. Mine'
  BY <1>1, <1>2, <1>5, <1>6, MineFrame
<1> QED
  BY <1>1, <1>2, <1>3, <1>4, <1>7

-----------------------------------------------------------------------------
(* Layer 4.  The invariant.                                                  *)

LEMMA MineStep ==
  ASSUME NEW p \in Writers, Turn(p) PROVE Mine'
BY MineOutside, MineKill, MineLooking, MineHeader, MineReplace, MineInsert, MineAdd,
   MineSeal DEF Turn, Step, Connect, Traverse, Upsert, Close

LEMMA OwnedNext == Owned /\ [Next]_vars => Owned'
<1> SUFFICES ASSUME Owned, [Next]_vars PROVE Owned'
  OBVIOUS
<1>1. Invariants' /\ Unlocked' /\ Single'
  BY InvariantsNext, UnlockedNext, SingleNext DEF Owned, Invariants
<1>2. ASSUME ~shared', ~torn' PROVE Mine'
  <2>1. ASSUME NEW p \in Writers, Step(p) \/ Kill(p) PROVE Mine'
    BY <1>1, <1>2, <2>1, MineStep DEF Turn
  <2>2. CASE Diff \/ UNCHANGED vars
    <3>1. UNCHANGED <<file, locks, pc, local, dead, past, torn>>
      BY <2>2, DiffAlone
    <3> QED
      BY <3>1 DEF Owned, Mine, Fresh, Closed, Filled, Place, Unseen, Row, file, local,
         past
  <2> QED
    BY <2>1, <2>2 DEF Next, Terminated
<1> QED
  BY <1>1, <1>2 DEF Owned, Mine

THEOREM OwnedInvariant == Spec => []Owned
<1> QED
  BY OwnedInit, OwnedNext, PTL DEF Spec

-----------------------------------------------------------------------------
(* Layer 5.  The refinement.                                                 *)

\* The table that SnapshotMap sees, and the phase.
Table == [k \in {r.key : r \in Covered} |-> (CHOOSE r \in Covered : r.key = k).value]
Phase == IF headers = 0 THEN "absent"
         ELSE IF hdr[SNAPSTATE] = SealedState THEN "sealed" ELSE "open"

\* The table has the value of each row that record_count covers under its key.
Tabled == /\ DOMAIN Table = {rows[i].key : i \in 1..hdr[COUNT]}
          /\ \A i \in 1..hdr[COUNT] : Table[rows[i].key] = rows[i].value

LEMMA TableRows == Filled /\ hdr[COUNT] \in Nat /\ Len(rows) \in Nat => Tabled
<1> SUFFICES ASSUME Filled, hdr[COUNT] \in Nat, Len(rows) \in Nat PROVE Tabled
  OBVIOUS
<1>1. Covered = {rows[i] : i \in 1..hdr[COUNT]}
  BY DEF Covered, Filled
<1>2. DOMAIN Table = {rows[i].key : i \in 1..hdr[COUNT]}
  BY <1>1 DEF Table
<1>3. ASSUME NEW i \in 1..hdr[COUNT] PROVE Table[rows[i].key] = rows[i].value
  <2>1. rows[i] \in Covered
    BY <1>1
  <2>2. \A r \in Covered : r.key = rows[i].key => r = rows[i]
    BY <1>1 DEF Filled
  <2>3. (CHOOSE r \in Covered : r.key = rows[i].key) = rows[i]
    BY <2>1, <2>2
  <2>4. Table[rows[i].key] = (CHOOSE r \in Covered : r.key = rows[i].key).value
    BY <1>2 DEF Table
  <2> QED
    BY <2>3, <2>4
<1> QED
  BY <1>2, <1>3 DEF Tabled

\* What record_count covers unchanged, the table is unchanged.
LEMMA TableKept ==
  ASSUME Filled, Filled', hdr[COUNT] \in Nat, Len(rows) \in Nat, Len(rows') \in Nat,
         hdr'[COUNT] = hdr[COUNT], \A i \in 1..hdr[COUNT] : rows'[i] = rows[i]
  PROVE  Table' = Table
<1>1. Covered = {rows[i] : i \in 1..hdr[COUNT]}
  BY DEF Covered, Filled
<1>2. Covered' = {rows'[i] : i \in 1..hdr[COUNT]}
  BY DEF Covered, Filled
<1>3. Covered' = Covered
  BY <1>1, <1>2
<1> QED
  BY <1>3 DEF Table

\* A covered row that is written, new or not, is put into the table.
LEMMA TablePut ==
  ASSUME Filled, Filled', hdr[COUNT] \in Nat, hdr'[COUNT] \in Nat,
         Len(rows) \in Nat, Len(rows') \in Nat,
         NEW n \in 1..hdr'[COUNT], NEW k, NEW v, rows'[n] = [key |-> k, value |-> v],
         \A i \in 1..hdr[COUNT] : i = n => rows[i].key = k,
         \A i \in 1..hdr'[COUNT] : i # n => i \in 1..hdr[COUNT] /\ rows'[i] = rows[i],
         \A i \in 1..hdr[COUNT] : i \in 1..hdr'[COUNT]
  PROVE  Table' = Map!Put(Table, k, v)
<1>1. /\ DOMAIN Table = {rows[i].key : i \in 1..hdr[COUNT]}
      /\ \A i \in 1..hdr[COUNT] : Table[rows[i].key] = rows[i].value
  BY TableRows DEF Tabled
<1>2. /\ DOMAIN Table' = {rows'[i].key : i \in 1..hdr'[COUNT]}
      /\ \A i \in 1..hdr'[COUNT] : Table'[rows'[i].key] = rows'[i].value
  <2>1. (Filled /\ hdr[COUNT] \in Nat /\ Len(rows) \in Nat)' => Tabled'
    BY TableRows, PTL
  <2> QED
    BY <2>1 DEF Tabled
<1>a. n \in 1..hdr'[COUNT] /\ rows'[n].key = k /\ rows'[n].value = v
  OBVIOUS
<1>3. DOMAIN Table' = DOMAIN Table \cup {k}
  <2>1. ASSUME NEW x \in DOMAIN Table' PROVE x \in DOMAIN Table \cup {k}
    <3>1. PICK i \in 1..hdr'[COUNT] : x = rows'[i].key
      BY <1>2, <2>1
    <3>2. CASE i = n
      BY <1>a, <3>1, <3>2
    <3>3. CASE i # n
      <4>1. i \in 1..hdr[COUNT] /\ rows'[i] = rows[i]
        BY <3>1, <3>3
      <4> QED
        BY <1>1, <3>1, <4>1
    <3> QED
      BY <3>2, <3>3
  <2>2. ASSUME NEW x \in DOMAIN Table PROVE x \in DOMAIN Table'
    <3>1. PICK i \in 1..hdr[COUNT] : x = rows[i].key
      BY <1>1, <2>2
    <3>2. CASE i = n
      <4>1. x = k
        BY <3>1, <3>2
      <4> QED
        BY <1>2, <1>a, <4>1
    <3>3. CASE i # n
      <4>1. i \in 1..hdr'[COUNT] /\ rows'[i] = rows[i]
        BY <3>1, <3>3
      <4> QED
        BY <1>2, <3>1, <4>1
    <3> QED
      BY <3>2, <3>3
  <2>3. k \in DOMAIN Table'
    BY <1>2, <1>a
  <2> QED
    BY <2>1, <2>2, <2>3
<1>4. Table'[k] = v
  BY <1>2, <1>a
<1>5. ASSUME NEW j \in DOMAIN Table, j # k PROVE Table'[j] = Table[j]
  <2>1. PICK i \in 1..hdr[COUNT] : j = rows[i].key
    BY <1>1
  <2>2. i # n
    BY <1>5, <2>1
  <2>3. i \in 1..hdr'[COUNT] /\ rows'[i] = rows[i]
    BY <2>1, <2>2
  <2>4. Table[j] = rows[i].value
    BY <1>1, <2>1
  <2>5. Table'[j] = rows'[i].value
    <3>1. j = rows'[i].key
      BY <2>1, <2>3
    <3> QED
      BY <1>2, <2>3, <3>1
  <2> QED
    BY <2>3, <2>4, <2>5
<1>6. Table' = [j \in DOMAIN Table' |-> Table'[j]]
  BY DEF Table
<1> HIDE DEF Table
<1> QED
  BY <1>3, <1>4, <1>5, <1>6 DEF Map!Put

\* The lengths and counts of the file, before and after a step.
LEMMA Numbers == Types =>
  hdr[COUNT] \in Nat /\ Len(rows) \in Nat /\ headers \in Nat
  BY DEF Types, FileTypes, Fields

\* The map has not been spoiled, and is not by the step.
LEMMA Unspoiled ==
  ASSUME ~shared, ~torn, ~shared', ~torn',
         \/ Map!Create \/ Map!Upsert \/ Map!Seal
  PROVE  Map!Next
<1>1. (shared \/ torn) = FALSE /\ (shared \/ torn)' = FALSE
  OBVIOUS
<1> QED
  BY <1>1 DEF Map!Next

\* A step that changes nothing of what the map sees is a stutter.
LEMMA SeenStutters ==
  ASSUME ~shared, ~torn, ~shared', ~torn', Phase' = Phase, Table' = Table
  PROVE  UNCHANGED Map!vars
<1>1. (shared \/ torn)' = (shared \/ torn)
  OBVIOUS
<1> QED
  BY <1>1 DEF Map!vars, Phase, Table

\* In an upsert the snapshot is open.
LEMMA UpsertOpen ==
  ASSUME NEW p \in Writers, Turn(p), pc[p] \in Upserting PROVE Phase = "open"
<1>0. Header /\ Closed /\ p \notin dead /\ ~torn /\ Types
  BY TurnFacts
<1>1. headers # 0
  BY <1>0 DEF Header, Before, Upserting
<1>2. hdr[SNAPSTATE] # SealedState
  BY <1>0, <1>1, Numbers DEF Closed, Upserting
<1> QED
  BY <1>1, <1>2 DEF Phase

\* A row that is put into the table, and nothing else, is an upsert of the map.
LEMMA PutMaps ==
  ASSUME NEW p \in Writers, Turn(p), pc[p] \in Upserting, entry[p] \in Keys,
         headers' = headers, hdr'[SNAPSTATE] = hdr[SNAPSTATE],
         Table' = Map!Put(Table, entry[p], Sees[p])
  PROVE  Map!Next
<1>1. Phase = "open" /\ Phase' = "open"
  BY UpsertOpen DEF Phase
<1>2. Sees[p] \in {Sees[q] : q \in Writers}
  OBVIOUS
<1>3. Map!Upsert
  BY <1>1, <1>2 DEF Map!Upsert, Phase, Table
<1> QED
  BY <1>3, TurnFacts, Unspoiled DEF Turn

\* A turn of a writer creates the map, puts one row into it, seals it, or
\* leaves it alone.
LEMMA TurnMaps ==
  ASSUME NEW p \in Writers, Turn(p) PROVE [Map!Next]_(Map!vars)
<1>0. /\ ~shared /\ ~torn /\ ~shared' /\ ~torn' /\ Filled /\ Filled' /\ Mine'
      /\ hdr[COUNT] \in Nat /\ Len(rows) \in Nat /\ headers \in Nat
      /\ hdr'[COUNT] \in Nat /\ Len(rows') \in Nat /\ headers' \in Nat
  <2>1. Types /\ Types' /\ Mine'
    BY TurnFacts, MineStep
  <2>2. (Types => hdr[COUNT] \in Nat /\ Len(rows) \in Nat /\ headers \in Nat)'
    BY Numbers, PTL
  <2> QED
    BY <2>1, <2>2, Numbers, TurnFacts DEF Turn, Mine
<1>1. CASE UNCHANGED Seen
  <2>1. Table' = Table
    BY <1>0, <1>1, TableKept DEF Seen
  <2>2. Phase' = Phase
    BY <1>1 DEF Seen, Phase
  <2> QED
    BY <1>0, <2>1, <2>2, SeenStutters
<1>2. CASE WriteHeader(p)
  <2>1. /\ headers = 0 /\ headers' > 0 /\ hdr[COUNT] = 0 /\ hdr'[COUNT] = 0
        /\ hdr'[SNAPSTATE] = Open
    BY <1>2, MineHeader
  <2>2. Table' = Table
    BY <1>0, <2>1, TableKept
  <2>3. Phase = "absent" /\ Phase' = "open"
    BY <1>0, <2>1 DEF Phase, Open, SealedState
  <2>4. Map!Create
    BY <2>2, <2>3 DEF Map!Create, Phase, Table
  <2> QED
    BY <1>0, <2>4, Unspoiled
<1>3. CASE ReplaceRow(p)
  <2> DEFINE n == pos[p] + 1
  <2>1. /\ UNCHANGED <<headers, hdr>> /\ entry[p] \in Keys
        /\ Len(rows') = Len(rows) /\ n \in 1..hdr[COUNT]
        /\ rows[n].key = entry[p] /\ rows'[n] = Row(p)
        /\ \A i \in 1..Len(rows) : i # n => rows'[i] = rows[i]
    BY <1>3, MineReplace
  <2>2. Table' = Map!Put(Table, entry[p], Sees[p])
    <3>1. rows'[n] = [key |-> entry[p], value |-> Sees[p]]
      BY <2>1 DEF Row
    <3>2. \A i \in 1..hdr'[COUNT] : i # n => i \in 1..hdr[COUNT] /\ rows'[i] = rows[i]
      BY <1>0, <2>1 DEF Filled
    <3> HIDE DEF n
    <3> QED
      BY <1>0, <2>1, <3>1, <3>2, TablePut
  <2>3. pc[p] \in Upserting
    BY <1>3 DEF ReplaceRow, At, Upserting
  <2> QED
    BY <2>1, <2>2, <2>3, PutMaps
<1>4. CASE InsertRow(p)
  <2>1. /\ UNCHANGED <<headers, hdr>> /\ \A i \in 1..hdr[COUNT] : rows'[i] = rows[i]
    BY <1>4, MineInsert
  <2>2. Table' = Table
    BY <1>0, <2>1, TableKept
  <2>3. Phase' = Phase
    BY <2>1 DEF Phase
  <2> QED
    BY <1>0, <2>2, <2>3, SeenStutters
<1>5. CASE AddWrite(p)
  <2> DEFINE n == hdr[COUNT] + 1
  <2>1. /\ UNCHANGED <<headers, rows>> /\ entry[p] \in Keys
        /\ hdr'[COUNT] = n /\ hdr'[SNAPSTATE] = hdr[SNAPSTATE] /\ rows[n] = Row(p)
        /\ \A i \in 1..hdr[COUNT] : rows[i].key # entry[p]
    BY <1>5, MineAdd
  <2>2. Table' = Map!Put(Table, entry[p], Sees[p])
    <3>1. rows'[n] = [key |-> entry[p], value |-> Sees[p]]
      BY <2>1 DEF Row
    <3>2. \A i \in 1..n : i # n => i \in 1..hdr[COUNT]
      BY <1>0
    <3>3. n \in 1..n /\ n \notin 1..hdr[COUNT] /\ \A i \in 1..hdr[COUNT] : i \in 1..n
      BY <1>0
    <3> HIDE DEF n
    <3> QED
      BY <1>0, <2>1, <3>1, <3>2, <3>3, TablePut
  <2>3. pc[p] \in Upserting
    BY <1>5 DEF AddWrite, At, Upserting
  <2> QED
    BY <2>1, <2>2, <2>3, PutMaps
<1>6. CASE Seal(p)
  <2>1. /\ UNCHANGED <<headers, rows>> /\ headers # 0 /\ hdr'[COUNT] = hdr[COUNT]
        /\ hdr[SNAPSTATE] # SealedState /\ hdr'[SNAPSTATE] = SealedState
    BY <1>6, MineSeal
  <2>2. Table' = Table
    BY <1>0, <2>1, TableKept
  <2>3. Phase = "open" /\ Phase' = "sealed"
    BY <2>1 DEF Phase
  <2>4. Map!Seal
    BY <2>2, <2>3 DEF Map!Seal, Phase, Table
  <2> QED
    BY <1>0, <2>4, Unspoiled
<1> QED
  BY <1>1, <1>2, <1>3, <1>4, <1>5, <1>6, SeenKept DEF Writing
LEMMA MapInit == Init => Map!Init
<1> SUFFICES ASSUME Init PROVE Map!Init
  OBVIOUS
<1>1. Covered = {}
  BY DEF Init, Covered
<1>2. Table = << >>
  BY <1>1 DEF Table
<1> QED
  BY <1>2 DEF Init, Map!Init, Table

\* Every step is one of the map, or spoils it, or leaves it spoiled.
LEMMA MapNext == Owned /\ [Next]_vars => [Map!Next]_(Map!vars)
<1> SUFFICES ASSUME Owned, [Next]_vars PROVE [Map!Next]_(Map!vars)
  OBVIOUS
<1>1. CASE shared' \/ torn'
  <2>1. (shared \/ torn)' = TRUE
    BY <1>1
  <2> QED
    BY <2>1 DEF Map!Next
<1>2. ASSUME ~shared', ~torn', NEW p \in Writers, Step(p) \/ Kill(p)
      PROVE  [Map!Next]_(Map!vars)
  BY <1>2, TurnMaps, InvariantsNext DEF Turn, Owned
<1>3. CASE Diff \/ UNCHANGED vars
  <2>1. UNCHANGED <<headers, hdr, rows, shared, torn>>
    BY <1>3, DiffAlone DEF file, past
  <2>2. Covered' = Covered
    BY <2>1 DEF Covered
  <2> QED
    BY <2>1, <2>2 DEF Map!vars
<1> QED
  BY <1>1, <1>2, <1>3 DEF Next, Terminated

\* The database of one writer at a time is a map from keys to rows: created
\* empty, filled by upserts that put one row each, sealed once and never changed
\* after that, whatever writers were killed before or are killed on the way.
THEOREM ImplementsMap == Spec => SnapshotIsMap
<1>1. Spec => [][Map!Next]_(Map!vars)
  BY MapNext, OwnedInvariant, PTL DEF Spec
<1> QED
  BY <1>1, MapInit, PTL DEF Spec, SnapshotIsMap, Map!Spec
=============================================================================
