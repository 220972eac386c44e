---------------------------- MODULE MCInventory ----------------------------
(* A small instance for TLC: a root with two subdirectories, one of which has   *)
(* the files to fill a ring.                                                   *)
EXTENDS Inventory

MCSub   == [d \in Dirs |-> IF d = 1 THEN {2, 3} ELSE {}]
MCFiles == [d \in Dirs |-> IF d = 2 THEN 2 ELSE IF d = 3 THEN 1 ELSE 0]

\* Nothing, or the database of an earlier run.
MCOlds == {NoFile, [Fresh EXCEPT !.complete = Full, !.stats = TRUE]}
=============================================================================
