---------------------------- MODULE SnapshotMap ----------------------------
(***************************************************************************)
(* What a snapshot database promises to a program that has it to itself: a  *)
(* map from keys (absolute_path, pid) to rows that is created empty, takes  *)
(* upserts while it is open, and never changes after it has been sealed.    *)
(* The promise ends (spoiled) when two writers overlap, or when a program   *)
(* is killed while it creates the file.                                     *)
(***************************************************************************)
EXTENDS Naturals

CONSTANTS Keys, Values

VARIABLES
  phase,     \* "absent", "open" or "sealed"
  table,     \* the rows that record_count covers, one value per key
  spoiled    \* the promise has ended

vars == <<phase, table, spoiled>>

Put(t, k, v) == [j \in DOMAIN t \cup {k} |-> IF j = k THEN v ELSE t[j]]

Init == phase = "absent" /\ table = << >> /\ spoiled = FALSE

Create == /\ phase = "absent" /\ phase' = "open"
          /\ table' = table

Upsert == /\ phase = "open" /\ phase' = "open"
          /\ \E k \in Keys, v \in Values : table' = Put(table, k, v)

Seal == /\ phase = "open" /\ phase' = "sealed"
        /\ table' = table

Next == \/ (Create \/ Upsert \/ Seal) /\ ~spoiled /\ spoiled' = FALSE
        \/ spoiled' = TRUE

Spec == Init /\ [][Next]_vars
=============================================================================
