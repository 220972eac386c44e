------------------------------- MODULE DbDiff -------------------------------
(***************************************************************************)
(* The comparison of db_diff (src/HW5/src/main_db_diff.c): both snapshots   *)
(* are sorted by key and merged into the lines of the report.  A row is a   *)
(* record of its key and one value, which stands for the fields compared    *)
(* (type, size, time, hash and link target of a file, rss of a process).    *)
(***************************************************************************)
EXTENDS Integers, Sequences

CONSTANT RssThreshold     \* DB_PROCS_RSS_THRESHOLD

ASSUME ThresholdAssumption == RssThreshold \in Nat

\* The key a row read outside of the array has: whatever the heap holds.
WildKey == -1

Line(what, k) == [what |-> what, key |-> k]

\* Fault: the rows stay in the order they were inserted in.
Unsorted(rows) == rows

\* The orders of the rows in which their keys ascend.
Orders(rows) == LET places == 1..Len(rows) IN
  {p \in [places -> places] : \A i, j \in places :
     i < j => p[i] # p[j] /\ rows[p[i]].key <= rows[p[j]].key}

\* qsort with idx_row_compare or procs_row_compare.
Sorted(rows) == LET p == CHOOSE p \in Orders(rows) : TRUE
                IN [i \in 1..Len(rows) |-> rows[p[i]]]

\* |r.rss - s.rss|, computed without going below zero.
Distance(r, s) == IF r.value > s.value THEN r.value - s.value
                                       ELSE s.value - r.value

\* Whether two rows of one key are reported as different.
Differ(kind, r, s) == CASE kind = "IDX"  -> r.value # s.value
                        [] kind = "PROC" -> Distance(r, s) >= RssThreshold

\* The row of the new snapshot that the last loop names when the old one is
\* exhausted: the index of the old rows is used for the files.
TailIndex(kind, i, j) == IF kind = "IDX" THEN i ELSE j

KeyAt(rows, i) == IF i \in 1..Len(rows) THEN rows[i].key ELSE WildKey

\* The lines written from row i of the old and row j of the new snapshot on,
\* when rest has those written from every later pair of rows on.
Written(kind, old, new, rest, i, j) ==
  IF i <= Len(old) /\ j <= Len(new) THEN
    IF old[i].key = new[j].key THEN
      (IF Differ(kind, old[i], new[j]) THEN <<Line("CHANGED", old[i].key)>>
                                       ELSE << >>) \o rest[<<i + 1, j + 1>>]
    ELSE IF old[i].key < new[j].key
         THEN <<Line("DISAPPEARED", old[i].key)>> \o rest[<<i + 1, j>>]
         ELSE <<Line("APPEARED", new[j].key)>> \o rest[<<i, j + 1>>]
  ELSE IF i <= Len(old)
       THEN <<Line("DISAPPEARED", old[i].key)>> \o rest[<<i + 1, j>>]
  ELSE IF j <= Len(new)
       THEN <<Line("APPEARED", KeyAt(new, TailIndex(kind, i, j)))>>
            \o rest[<<i, j + 1>>]
  ELSE << >>

\* The two loops over both snapshots, and the two over what is left of one.
Merge(kind, old, new) ==
  LET lines[at \in (1..(Len(old) + 1)) \X (1..(Len(new) + 1))] ==
        Written(kind, old, new, lines, at[1], at[2])
  IN lines[<<1, 1>>]

Report(kind, old, new) == Merge(kind, Sorted(old), Sorted(new))
=============================================================================
