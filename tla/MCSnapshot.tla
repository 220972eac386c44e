----------------------------- MODULE MCSnapshot -----------------------------
(* Small instances for TLC: a directory (or a process) 3, in it a file 2; what *)
(* a records differs from what the others do, and the older snapshots have     *)
(* rows that are gone, changed, unchanged and out of order.                    *)
EXTENDS Snapshot

MCRoots == [p \in Writers |-> {3}]
MCChildren == [k \in Keys |-> IF k = 3 THEN {2} ELSE {}]
MCSees == [p \in Writers |-> IF p = "a" THEN 0 ELSE 2]

R(k, v) == [key |-> k, value |-> v]
MCOld == {<< >>, <<R(2, 1)>>, <<R(3, 0), R(2, 4)>>, <<R(4, 0), R(1, 0)>>,
          <<R(3, 1), R(1, 0)>>}
=============================================================================
