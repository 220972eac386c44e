------------------------------ MODULE Snapshot ------------------------------
(***************************************************************************)
(* A snapshot database (src/HW5): the file with its header and rows, the    *)
(* fcntl region locks of lock.c, the operations of db.c, and the programs   *)
(* that use it at the same time: any number of writers, all file_indexer or *)
(* all procs, each of which creates or joins the snapshot, upserts one row  *)
(* per entry it lists and leaves, and one db_diff that compares the file    *)
(* with an older snapshot.                                                  *)
(*                                                                         *)
(* Control is cut between a lock and the write it protects: a step that     *)
(* locks, reads and unlocks without writing is one action, and only locks   *)
(* that outlive a step appear in reads and writes.  A writer that is killed *)
(* or exits on an error keeps its pc, joins dead, and loses its locks.      *)
(* The file may be there at the start, empty: a writer was killed before it *)
(* wrote the header.                                                        *)
(***************************************************************************)
EXTENDS DbDiff, FiniteSets, Relation

CONSTANTS
  Writers,       \* the processes that run file_indexer or procs
  Kinds,         \* the signatures the run considers, a subset of IDX and PROC
  Keys,          \* paths or pids, in the order of the comparison functions
  Roots,         \* what each writer lists: its root directory, or /proc
  Children,      \* the entries of each directory (files, processes: none)
  Flaky,         \* entries whose lstat, readlink, open or opendir may fail
  Unreadable,    \* regular files that lstat shows and open may refuse
  Sees,          \* the value each writer records in its rows
  OldSnapshots,  \* the rows db_diff may compare the snapshot with
  CounterMod,    \* active_writers is a uint8_t: 256
  Garbage,       \* bytes an uninitialised variable may hold
  MaxKills       \* bound on the writers that are killed

ASSUME WritersAssumption == IsFiniteSet(Writers)
ASSUME KindsAssumption == Kinds \subseteq {"IDX", "PROC"}
ASSUME KeysAssumption ==
  /\ Keys \subseteq Nat \ {0} /\ Roots \in [Writers -> SUBSET Keys]
  /\ Children \in [Keys -> SUBSET Keys]
  /\ Flaky \subseteq Keys /\ Unreadable \subseteq Keys
  /\ Sees \in [Writers -> Nat]
ASSUME BoundsAssumption ==
  /\ CounterMod \in Nat \ {0, 1} /\ MaxKills \in Nat
  /\ Garbage \subseteq 0..(CounterMod - 1) /\ Garbage # {}
\* The older snapshot was filled by one writer at a time: a row for each key.
ASSUME OldAssumption == \A old \in OldSnapshots :
  /\ old \in Seq([key : Nat, value : Nat])
  /\ \A i, j \in 1..Len(old) : old[i].key = old[j].key => i = j

\* The header fields that are locked, numbered as the file orders them before
\* row 0: snapshot_state, active_writers and record_count.
SNAPSTATE == -3
WRITERS == -2
COUNT == -1
Fields == {SNAPSTATE, WRITERS, COUNT}

Open == 0          \* SNAPSHOT_OPEN
SealedState == 1   \* SNAPSHOT_SEALED

\* A row nobody wrote, before one that was written past the end of the file.
Hole == [key |-> 0, value |-> 0]

VARIABLES
  kind,       \* the signature the writers use
  size,       \* header fields in the file: -1 no file, 0 empty, ..., 3 all
  hdr,        \* values of the header fields
  headers,    \* how many times a header was written
  rows,       \* the rows in the file
  reads, writes,   \* the regions each writer has locked for reading, writing
  pc,         \* place of each writer
  frames,     \* the directories a writer is in: entries still to be listed
  entry,      \* the key of the row being upserted, 0 if none
  togo, pos,  \* iterations left of the scan, and row at the file offset
  tmp, short, \* value read from the header, and whether the read was short
  dead,       \* writers killed or gone after an error
  shared,     \* history: two writers were running at once
  torn,       \* history: a header field was read before it was there
  inserted,   \* history: rows written at the end of an upsert's scan
  rpc, rn     \* db_diff: its place, and the record_count it has read

file   == <<kind, size, hdr, headers, rows>>
locks  == <<reads, writes>>
local  == <<frames, entry, togo, pos, tmp, short>>
past   == <<shared, inserted>>
reader == <<rpc, rn>>
vars   == <<file, locks, pc, local, dead, past, torn, reader>>

Places == {"access", "create", "header", "check", "join", "joining", "list",
           "hash", "scan", "row", "found", "replace", "write", "add",
           "adding", "leaving", "seal", "done", "refused"}

Init ==
  /\ kind \in Kinds
  /\ size \in {-1, 0} /\ hdr = [f \in Fields |-> 0] /\ headers = 0 /\ rows = << >>
  /\ reads = [p \in Writers |-> {}] /\ writes = [p \in Writers |-> {}]
  /\ pc = [p \in Writers |-> "access"]
  /\ frames = [p \in Writers |-> << >>] /\ entry = [p \in Writers |-> 0]
  /\ togo = [p \in Writers |-> 0] /\ pos = [p \in Writers |-> 0]
  /\ tmp = [p \in Writers |-> 0] /\ short = [p \in Writers |-> FALSE]
  /\ dead = {} /\ shared = FALSE /\ torn = FALSE /\ inserted = 0
  /\ rpc = "idle" /\ rn = 0

-----------------------------------------------------------------------------
At(p, l)   == p \notin dead /\ pc[p] = l
Goto(p, l) == pc' = [pc EXCEPT ![p] = l]

Ended(p)   == p \in dead \/ pc[p] \in {"done", "refused"}
Running(p) == pc[p] # "access" /\ ~Ended(p)

\* fcntl: a region another process has locked for writing cannot be read, and
\* one it has locked at all cannot be written; one's own locks never conflict.
MayRead(p, r)  == \A q \in Writers \ {p} : r \notin writes[q]
MayWrite(p, r) == \A q \in Writers \ {p} : r \notin writes[q] \cup reads[q]

LockRead(p, r)  == /\ reads' = [reads EXCEPT ![p] = @ \cup {r}]
                   /\ UNCHANGED writes
LockWrite(p, r) == /\ writes' = [writes EXCEPT ![p] = @ \cup {r}]
                   /\ reads' = [reads EXCEPT ![p] = @ \ {r}]
Unlock(p, r)    == /\ writes' = [writes EXCEPT ![p] = @ \ {r}]
                   /\ reads' = [reads EXCEPT ![p] = @ \ {r}]
UnlockAll(p)    == /\ writes' = [writes EXCEPT ![p] = {}]
                   /\ reads' = [reads EXCEPT ![p] = {}]

\* read() of a header field: it is there once the file reaches past it.
Present(f)  == size >= f + 4
MayHold(f)  == IF Present(f) THEN {hdr[f]} ELSE Garbage
NoteTorn(f) == torn' = (torn \/ ~Present(f))

AtLeast(n) == IF size < n THEN n ELSE size

\* The first half of db_inc_writers, db_dec_writers and db_inc_record_count:
\* lock a field and read it.
Fetch(p, f) ==
  /\ MayWrite(p, f) /\ LockWrite(p, f)
  /\ \E v \in MayHold(f) : tmp' = [tmp EXCEPT ![p] = v]
  /\ short' = [short EXCEPT ![p] = ~Present(f)] /\ NoteTorn(f)

\* The second half: step back by the size of the field, write and unlock.  A
\* read of active_writers that returned nothing left the offset where it was:
\* the write and the unlock hit snapshot_state, and the lock stays.  (When
\* record_count is read here, a row lies behind it.)
Store(p, f, v) ==
  LET hit == IF short[p] THEN SNAPSTATE ELSE f IN
    /\ hdr' = [hdr EXCEPT ![hit] = v] /\ size' = AtLeast(hit + 4)
    /\ Unlock(p, hit)

Forget(p) == /\ tmp' = [tmp EXCEPT ![p] = 0]
             /\ short' = [short EXCEPT ![p] = FALSE]

-----------------------------------------------------------------------------
(* db_open_connection with a signature.                                     *)

\* access(): the program starts; whether the file exists decides its way.
Access(p) ==
  /\ At(p, "access")
  /\ Goto(p, IF size = -1 THEN "create" ELSE "check")
  /\ shared' = (shared \/ \E q \in Writers \ {p} : Running(q))
  /\ UNCHANGED <<file, locks, local, dead, torn, inserted, reader>>

\* open with O_CREAT: neither O_EXCL nor O_TRUNC.
Create(p) ==
  /\ At(p, "create") /\ Goto(p, "header")
  /\ size' = AtLeast(0)
  /\ UNCHANGED <<kind, hdr, headers, rows, locks, local, dead, past, torn, reader>>

\* The whole header is written, under no lock, whatever the file holds.
WriteHeader(p) ==
  /\ At(p, "header") /\ Goto(p, "list")
  /\ hdr' = [f \in Fields |-> CASE f = SNAPSTATE -> Open
                                [] f = WRITERS -> 1 [] f = COUNT -> 0]
  /\ size' = 3 /\ headers' = headers + 1
  /\ frames' = [frames EXCEPT ![p] = <<Roots[p]>>]
  /\ UNCHANGED <<kind, rows, locks, entry, togo, pos, tmp, short, dead, past,
                 torn, reader>>

\* Fault: a sealed snapshot takes writers like an open one.
CheckNothing(p) ==
  /\ At(p, "check") /\ MayRead(p, SNAPSTATE) /\ Goto(p, "join")
  /\ NoteTorn(SNAPSTATE)
  /\ UNCHANGED <<file, locks, local, dead, past, reader>>

\* db_is_sealed: a sealed snapshot takes no more writers.  The unlock after a read
\* that returned nothing hits the byte before, and the lock stays until the file
\* is closed.
CheckSealed(p) ==
  /\ At(p, "check") /\ MayRead(p, SNAPSTATE)
  /\ \E v \in MayHold(SNAPSTATE) :
       \/ v = SealedState /\ Goto(p, "refused") /\ UNCHANGED locks
       \/ /\ v # SealedState /\ Goto(p, "join")
          /\ IF Present(SNAPSTATE) THEN UNCHANGED locks ELSE LockRead(p, SNAPSTATE)
  /\ NoteTorn(SNAPSTATE)
  /\ UNCHANGED <<file, local, dead, past, reader>>

\* Fault: active_writers is read without its lock.
JoinReadUnlocked(p) ==
  /\ At(p, "join") /\ Goto(p, "joining")
  /\ \E v \in MayHold(WRITERS) : tmp' = [tmp EXCEPT ![p] = v]
  /\ short' = [short EXCEPT ![p] = ~Present(WRITERS)] /\ NoteTorn(WRITERS)
  /\ UNCHANGED <<file, locks, frames, entry, togo, pos, dead, past, reader>>

JoinRead(p) ==
  /\ At(p, "join") /\ Goto(p, "joining")
  /\ Fetch(p, WRITERS)
  /\ UNCHANGED <<file, frames, entry, togo, pos, dead, past, reader>>

JoinWrite(p) ==
  /\ At(p, "joining") /\ Goto(p, "list")
  /\ Store(p, WRITERS, (tmp[p] + 1) % CounterMod) /\ Forget(p)
  /\ frames' = [frames EXCEPT ![p] = <<Roots[p]>>]
  /\ UNCHANGED <<kind, headers, rows, entry, togo, pos, dead, past, torn, reader>>

-----------------------------------------------------------------------------
(* traverse_file_tree and traverse_procs.                                   *)

\* readdir returns k, in the deepest directory that has entries left: that of
\* frame d.
Busy(p) == {i \in 1..Len(frames[p]) : frames[p][i] # {}}
Listed(p, k, d) ==
  /\ At(p, "list") /\ d \in Busy(p) /\ \A i \in Busy(p) : i <= d
  /\ k \in frames[p][d]
Rest(p, k, d) == [SubSeq(frames[p], 1, d) EXCEPT ![d] = @ \ {k}]

\* lstat or readlink fails: file_indexer gives up the rest of the directory,
\* procs goes on with the next process.
SkipEntry(p) == \E k \in Flaky, d \in Busy(p) :
  /\ Listed(p, k, d)
  /\ frames' = [frames EXCEPT ![p] = IF kind = "IDX" THEN SubSeq(@, 1, d - 1)
                                                     ELSE Rest(p, k, d)]
  /\ UNCHANGED <<file, locks, pc, entry, togo, pos, tmp, short, dead, past, torn,
                 reader>>

\* The open of a regular file fails unnoticed: hash_file reads -1 for ever.
HashForever(p) == \E k \in Unreadable, d \in Busy(p) :
  /\ kind = "IDX" /\ Children[k] = {} /\ Listed(p, k, d)
  /\ Goto(p, "hash")
  /\ UNCHANGED <<file, locks, local, dead, past, torn, reader>>

\* db_record_count: after a read that returned nothing the lock stays, and the
\* unlock, four bytes before, hits the two fields in front.
ReadCount(p) ==
  /\ MayRead(p, COUNT) /\ NoteTorn(COUNT)
  /\ IF Present(COUNT)
       THEN Unlock(p, COUNT)
       ELSE /\ reads' = [reads EXCEPT ![p] = (@ \ {SNAPSTATE, WRITERS}) \cup {COUNT}]
            /\ writes' = [writes EXCEPT ![p] = @ \ {SNAPSTATE, WRITERS}]

\* An entry is read; its upsert reads record_count once, which bounds the scan.
BeginUpsert(p) == \E k \in Keys, d \in Busy(p) :
  /\ Listed(p, k, d) /\ ReadCount(p)
  /\ frames' = [frames EXCEPT ![p] = Rest(p, k, d)]
  /\ entry' = [entry EXCEPT ![p] = k]
  /\ \E v \in MayHold(COUNT) : togo' = [togo EXCEPT ![p] = v]
  /\ Goto(p, "scan")
  /\ UNCHANGED <<file, pos, tmp, short, dead, past, reader>>

\* The upsert returns; the entries of a directory come next, if it opens.
Upserted(p) ==
  /\ Goto(p, "list")
  /\ \/ /\ kind = "IDX" /\ Children[entry[p]] # {}
        /\ frames' = [frames EXCEPT ![p] = Append(@, Children[entry[p]])]
     \/ /\ kind = "IDX" => Children[entry[p]] = {} \/ entry[p] \in Flaky
        /\ UNCHANGED frames
  /\ entry' = [entry EXCEPT ![p] = 0] /\ pos' = [pos EXCEPT ![p] = 0]

-----------------------------------------------------------------------------
(* db_indexer_upsert and db_procs_upsert.                                   *)

Row(p)     == [key |-> entry[p], value |-> Sees[p]]
AtEOF(p)   == pos[p] >= Len(rows)
Matches(p) == ~AtEOF(p) /\ rows[pos[p] + 1].key = entry[p]

\* Fault: the scan goes one row beyond record_count.
LockRowBeyond(p) ==
  /\ At(p, "scan") /\ togo[p] >= 0 /\ Goto(p, "row")
  /\ MayRead(p, pos[p]) /\ LockRead(p, pos[p])
  /\ UNCHANGED <<file, local, dead, past, torn, reader>>

LockRow(p) ==
  /\ At(p, "scan") /\ togo[p] > 0 /\ Goto(p, "row")
  /\ MayRead(p, pos[p]) /\ LockRead(p, pos[p])
  /\ UNCHANGED <<file, local, dead, past, torn, reader>>

\* Fault: a read that returned nothing is tried again.
CompareRowRetrying(p) ==
  /\ At(p, "row")
  /\ togo' = [togo EXCEPT ![p] = IF AtEOF(p) THEN @
                                 ELSE IF Matches(p) THEN 0 ELSE @ - 1]
  /\ Goto(p, IF Matches(p) THEN "found" ELSE "scan")
  /\ pos' = [pos EXCEPT ![p] = IF AtEOF(p) \/ Matches(p) THEN @ ELSE @ + 1]
  /\ IF AtEOF(p) THEN UNCHANGED locks ELSE Unlock(p, pos[p])
  /\ UNCHANGED <<file, frames, entry, tmp, short, dead, past, torn, reader>>

\* At the end of the file the read returns nothing, the offset stays, and the
\* unlock misses the region that was locked.
CompareRow(p) ==
  /\ At(p, "row")
  /\ togo' = [togo EXCEPT ![p] = IF Matches(p) THEN 0 ELSE @ - 1]
  /\ Goto(p, IF Matches(p) THEN "found" ELSE "scan")
  /\ pos' = [pos EXCEPT ![p] = IF AtEOF(p) \/ Matches(p) THEN @ ELSE @ + 1]
  /\ IF AtEOF(p) THEN UNCHANGED locks ELSE Unlock(p, pos[p])
  /\ UNCHANGED <<file, frames, entry, tmp, short, dead, past, torn, reader>>

LockFound(p) ==
  /\ At(p, "found") /\ Goto(p, "replace")
  /\ MayWrite(p, pos[p]) /\ LockWrite(p, pos[p])
  /\ UNCHANGED <<file, local, dead, past, torn, reader>>

ReplaceRow(p) ==
  /\ At(p, "replace")
  /\ rows' = [rows EXCEPT ![pos[p] + 1] = Row(p)]
  /\ Unlock(p, pos[p]) /\ Upserted(p)
  /\ UNCHANGED <<kind, size, hdr, headers, togo, tmp, short, dead, past, torn,
                 reader>>

\* The row after the scan is where the row goes, if it can be locked at once.
LockFree(p) ==
  /\ At(p, "scan") /\ togo[p] = 0 /\ MayWrite(p, pos[p])
  /\ LockWrite(p, pos[p]) /\ Goto(p, "write")
  /\ UNCHANGED <<file, local, dead, past, torn, reader>>

\* If not, the next one is tried.
SkipLocked(p) ==
  /\ At(p, "scan") /\ togo[p] = 0 /\ ~MayWrite(p, pos[p])
  /\ pos' = [pos EXCEPT ![p] = @ + 1]
  /\ UNCHANGED <<file, locks, pc, frames, entry, togo, tmp, short, dead, past,
                 torn, reader>>

\* write() at a row; rows skipped past the end of the file are holes.
InsertRow(p) ==
  /\ At(p, "write") /\ Goto(p, "add")
  /\ rows' = [i \in 1..(IF AtEOF(p) THEN pos[p] + 1 ELSE Len(rows)) |->
               IF i = pos[p] + 1 THEN Row(p)
               ELSE IF i <= Len(rows) THEN rows[i] ELSE Hole]
  /\ size' = 3 /\ Unlock(p, pos[p]) /\ inserted' = inserted + 1
  /\ UNCHANGED <<kind, hdr, headers, local, dead, shared, torn, reader>>

\* Fault: record_count is read under a lock that others may hold too.
AddReadShared(p) ==
  /\ At(p, "add") /\ Goto(p, "adding")
  /\ MayRead(p, COUNT) /\ LockRead(p, COUNT)
  /\ \E v \in MayHold(COUNT) : tmp' = [tmp EXCEPT ![p] = v]
  /\ short' = [short EXCEPT ![p] = ~Present(COUNT)] /\ NoteTorn(COUNT)
  /\ UNCHANGED <<file, frames, entry, togo, pos, dead, past, reader>>

AddRead(p) ==
  /\ At(p, "add") /\ Goto(p, "adding")
  /\ Fetch(p, COUNT)
  /\ UNCHANGED <<file, frames, entry, togo, pos, dead, past, reader>>

AddWrite(p) ==
  /\ At(p, "adding")
  /\ Store(p, COUNT, tmp[p] + 1) /\ Forget(p) /\ Upserted(p)
  /\ UNCHANGED <<kind, headers, rows, togo, dead, past, torn, reader>>

-----------------------------------------------------------------------------
(* db_close_connection.                                                     *)

\* Fault: active_writers is read without its lock.
LeaveReadUnlocked(p) ==
  /\ At(p, "list") /\ Busy(p) = {} /\ Goto(p, "leaving")
  /\ frames' = [frames EXCEPT ![p] = << >>]
  /\ \E v \in MayHold(WRITERS) : tmp' = [tmp EXCEPT ![p] = v]
  /\ short' = [short EXCEPT ![p] = ~Present(WRITERS)] /\ NoteTorn(WRITERS)
  /\ UNCHANGED <<file, locks, entry, togo, pos, dead, past, reader>>

\* The listing is complete.
LeaveRead(p) ==
  /\ At(p, "list") /\ Busy(p) = {} /\ Goto(p, "leaving")
  /\ frames' = [frames EXCEPT ![p] = << >>]
  /\ Fetch(p, WRITERS)
  /\ UNCHANGED <<file, entry, togo, pos, dead, past, reader>>

\* db_dec_writers returns false: nobody was counted.
LeaveUncounted(p) ==
  /\ At(p, "leaving") /\ tmp[p] = 0 /\ Goto(p, "seal")
  /\ Unlock(p, IF short[p] THEN SNAPSTATE ELSE WRITERS) /\ Forget(p)
  /\ UNCHANGED <<file, frames, entry, togo, pos, dead, past, torn, reader>>

\* It returns false: this was the last writer.
LeaveLast(p) ==
  /\ At(p, "leaving") /\ tmp[p] = 1 /\ Goto(p, "seal")
  /\ Store(p, WRITERS, 0) /\ Forget(p)
  /\ UNCHANGED <<kind, headers, rows, frames, entry, togo, pos, dead, past, torn,
                 reader>>

\* It returns true: the program ends, and its locks with it.
LeaveOthers(p) ==
  /\ At(p, "leaving") /\ tmp[p] > 1 /\ Goto(p, "done")
  /\ hdr' = [hdr EXCEPT ![IF short[p] THEN SNAPSTATE ELSE WRITERS] = tmp[p] - 1]
  /\ size' = AtLeast(1) /\ UnlockAll(p) /\ Forget(p)
  /\ UNCHANGED <<kind, headers, rows, frames, entry, togo, pos, dead, past, torn,
                 reader>>

\* db_seal, close, and the end of the program.
Seal(p) ==
  /\ At(p, "seal") /\ MayWrite(p, SNAPSTATE) /\ Goto(p, "done")
  /\ hdr' = [hdr EXCEPT ![SNAPSTATE] = SealedState] /\ size' = AtLeast(1)
  /\ UnlockAll(p)
  /\ UNCHANGED <<kind, headers, rows, local, dead, past, torn, reader>>

\* The regions a writer waits for where it stands, and the writers that hold
\* them against it.
ToRead(p) ==
  CASE At(p, "check") -> {SNAPSTATE}
    [] At(p, "list") /\ Busy(p) # {} -> {COUNT}
    [] At(p, "scan") /\ togo[p] > 0 -> {pos[p]}
    [] OTHER -> {}
ToWrite(p) ==
  CASE At(p, "join") \/ (At(p, "list") /\ Busy(p) = {}) -> {WRITERS}
    [] At(p, "found") -> {pos[p]}
    [] At(p, "add") -> {COUNT}
    [] At(p, "seal") -> {SNAPSTATE}
    [] OTHER -> {}
WaitsFor(p, q) ==
  /\ p # q
  /\ \/ (ToRead(p) \cup ToWrite(p)) \cap writes[q] # {}
     \/ ToWrite(p) \cap reads[q] # {}

\* A circle of writers that wait for each other: F_SETLKW refuses to close it.
Deadlocked(p) ==
  /\ \E q \in Writers : WaitsFor(p, q)
  /\ TransitiveClosure([q, r \in Writers |-> WaitsFor(q, r)], Writers)[p, p]

\* A writer is killed, or an ERRCHECK ends it, as the one after such a refusal.
Kill(p) ==
  /\ Running(p) /\ (Deadlocked(p) \/ Cardinality(dead) < MaxKills)
  /\ dead' = dead \cup {p} /\ UnlockAll(p)
  /\ UNCHANGED <<file, pc, local, past, torn, reader>>

-----------------------------------------------------------------------------
(* db_diff, with this file as its new snapshot.                             *)

\* Both snapshots are opened, their signatures and versions compared (a file
\* without a header has none, and ends the program) and record_count is read;
\* whether they are sealed is not looked at.
DiffCount ==
  /\ rpc = "idle" /\ headers > 0 /\ \A p \in Writers : COUNT \notin writes[p]
  /\ rn' = hdr[COUNT] /\ rpc' = "rows"
  /\ UNCHANGED <<file, locks, pc, local, dead, past, torn>>

\* One read of that many rows, under no lock; what the file does not hold is
\* whatever malloc returned.  The report is Report(kind, old, DiffRows).
DiffRows == [i \in 1..rn |-> IF i <= Len(rows) THEN rows[i]
                             ELSE [key |-> WildKey, value |-> 0]]
DiffRead ==
  /\ rpc = "rows" /\ rpc' = "idle" /\ rn' = 0
  /\ UNCHANGED <<file, locks, pc, local, dead, past, torn>>

-----------------------------------------------------------------------------
Connect(p) == Access(p) \/ Create(p) \/ WriteHeader(p) \/ CheckSealed(p)
              \/ JoinRead(p) \/ JoinWrite(p)
Traverse(p) == SkipEntry(p) \/ HashForever(p) \/ BeginUpsert(p)
Upsert(p)  == LockRow(p) \/ CompareRow(p) \/ LockFound(p)
              \/ ReplaceRow(p) \/ LockFree(p) \/ SkipLocked(p) \/ InsertRow(p)
              \/ AddRead(p) \/ AddWrite(p)
Close(p)   == LeaveRead(p) \/ LeaveUncounted(p) \/ LeaveLast(p)
              \/ LeaveOthers(p) \/ Seal(p)
Step(p)    == Connect(p) \/ Traverse(p) \/ Upsert(p) \/ Close(p)
Diff       == DiffCount \/ DiffRead

\* Every writer has ended, or hashes a file it could not open for ever.
Quiet == \A p \in Writers : Ended(p) \/ pc[p] = "hash"
Terminated == Quiet /\ UNCHANGED vars

Next == (\E p \in Writers : Step(p) \/ Kill(p)) \/ Diff \/ Terminated

Spec == Init /\ [][Next]_vars

\* The kernel schedules every writer, grants a lock that stays free and breaks a
\* circle of waits; nobody need be killed.
FairSpec ==
  Spec /\ \A p \in Writers : WF_vars(Step(p) \/ (Deadlocked(p) /\ Kill(p)))

-----------------------------------------------------------------------------
(* Properties.                                                              *)

On(S) == {p \in Writers : pc[p] \in S}

\* Writers that active_writers counts: from the header or the increment to the
\* decrement, the killed ones included.
Counted == On({"list", "hash", "scan", "row", "found", "replace",
               "write", "add", "adding", "leaving"})

\* Every variable keeps its type.
TypeOK ==
  /\ kind \in Kinds /\ size \in -1..3 /\ headers \in Nat
  /\ hdr \in [Fields -> Nat] /\ hdr[WRITERS] < CounterMod
  /\ rows \in Seq([key : Keys \cup {0}, value : Nat])
  /\ \A p \in Writers : reads[p] \subseteq Int /\ writes[p] \subseteq Int
  /\ pc \in [Writers -> Places]
  /\ frames \in [Writers -> Seq(SUBSET Keys)]
  /\ entry \in [Writers -> Keys \cup {0}]
  /\ togo \in [Writers -> Nat] /\ pos \in [Writers -> Nat]
  /\ tmp \in [Writers -> Nat] /\ short \in [Writers -> BOOLEAN]
  /\ dead \subseteq Writers /\ shared \in BOOLEAN /\ torn \in BOOLEAN
  /\ inserted \in Nat
  /\ rpc \in {"idle", "rows"} /\ rn \in Nat

\* The header was there when each writer looked, and no second header has
\* wiped out the counters.
OneHeader == ~torn /\ headers <= 1

\* No increment of record_count is lost, however the writers interleave: it is
\* the number of rows inserted, less those whose writer is between the row and
\* the counter, or was killed there.
CountExact ==
  OneHeader => hdr[COUNT] = inserted - Cardinality(On({"add", "adding"}))

\* active_writers counts the writers that have joined and not left, a killed one
\* for ever, as long as there are not more of them than a byte can count.
WritersExact ==
  OneHeader /\ Cardinality(Writers) < CounterMod
    => hdr[WRITERS] = Cardinality(Counted)

\* When the last of several writers has ended, the snapshot is sealed, even if
\* two of them created it or one joined while another was about to seal it
\* (t3_concurrency.sh).  A killed writer leaves it open.
SealedAtTheEnd ==
  (\A p \in Writers : Ended(p)) /\ dead = {} /\ ~torn /\ headers > 0
    => hdr[SNAPSTATE] = SealedState

\* FORMAT_DB.md: there are no duplicate primary keys within a valid snapshot, to
\* which several instances may contribute.
KeysUnique ==
  hdr[SNAPSTATE] = SealedState /\ dead = {} /\ OneHeader =>
    \A i, j \in {k \in 1..Len(rows) : k <= hdr[COUNT]} :
      rows[i].key = rows[j].key => i = j

KeysOf(s) == {s[i].key : i \in 1..Len(s)}
Keyed(s, k) == CHOOSE r \in {s[i] : i \in 1..Len(s)} : r.key = k
Named(what, r) == {r[i].key : i \in {j \in 1..Len(r) : r[j].what = what}}

\* The lines a report should have for each key of one and of both snapshots.
Gone(s, t)    == KeysOf(s) \ KeysOf(t)
Apart(v, w)   == IF kind = "IDX" THEN v # w
                 ELSE v + RssThreshold <= w \/ w + RssThreshold <= v
Changed(s, t) == {k \in KeysOf(s) \cap KeysOf(t) :
                    Apart(Keyed(s, k).value, Keyed(t, k).value)}

\* Whenever db_diff reads a snapshot that one writer may still be filling, its
\* report has the line it should for each key, once: what has appeared since
\* the count was read is left out.  For files the keys said to have appeared
\* are the subject of AppearedNamed.
ReportRight ==
  rpc = "rows" /\ ~shared /\ ~torn =>
    \A old \in OldSnapshots :
      LET r == Report(kind, old, DiffRows) IN
        /\ Named("DISAPPEARED", r) = Gone(old, DiffRows)
        /\ Named("CHANGED", r) = Changed(old, DiffRows)
        /\ Len(r) = Cardinality(Gone(old, DiffRows) \cup Gone(DiffRows, old)
                                \cup Changed(old, DiffRows))
        /\ kind = "PROC" => Named("APPEARED", r) = Gone(DiffRows, old)

\* FORMAT_DB.md of db_diff: a record that is only in the new snapshot is marked
\* as APPEARED.
AppearedNamed ==
  rpc = "rows" /\ ~shared /\ ~torn =>
    \A old \in OldSnapshots :
      Named("APPEARED", Report(kind, old, DiffRows)) = Gone(DiffRows, old)

\* Every writer ends, unless one hashes a file it cannot open: no writer scans or
\* waits for ever, neither for a region whose lock a short read or the end of the
\* file left with another, nor in a circle of such waits, which ends one of them.
WritersEnd == <>(Quiet \/ \E p \in Writers : pc[p] = "hash")

\* To a program that has it to itself, the snapshot is a map from keys to rows
\* that is sealed once and then never changes, whatever writers were killed
\* before or are killed while they write.
Covered == {rows[i] : i \in {j \in 1..Len(rows) : j <= hdr[COUNT]}}
Map == INSTANCE SnapshotMap WITH
  Values <- {Sees[p] : p \in Writers},
  phase <- IF headers = 0 THEN "absent"
           ELSE IF hdr[SNAPSTATE] = SealedState THEN "sealed" ELSE "open",
  table <- [k \in {r.key : r \in Covered} |->
             (CHOOSE r \in Covered : r.key = k).value],
  spoiled <- shared \/ torn
SnapshotIsMap == Map!Spec
=============================================================================
