----------------------------- MODULE Traversal -----------------------------
(***************************************************************************)
(* What the pool of inventory workers promises, with no queue, counter or   *)
(* semaphore in sight: a directory tree is discovered from its root, each    *)
(* directory is found once, listed once by one worker, and the traversal is  *)
(* finished only when nothing discovered is left over.                      *)
(***************************************************************************)
EXTENDS Naturals

CONSTANTS Dirs, Root, Children, Depth, MaxDepth, Flaky

VARIABLES
  pending,      \* discovered, and nobody lists it yet
  active,       \* being listed
  listed,       \* listed to the end
  skipped,      \* given up after an error
  finished      \* the end of the traversal has been announced

tvars == <<pending, active, listed, skipped, finished>>

Seen == pending \cup active \cup listed \cup skipped

Init ==
  /\ pending = {Root} /\ active = {} /\ listed = {} /\ skipped = {}
  /\ finished = FALSE

Start(d) ==
  /\ d \in pending
  /\ pending' = pending \ {d} /\ active' = active \cup {d}
  /\ UNCHANGED <<listed, skipped, finished>>

Discover(d, c) ==
  /\ d \in active /\ c \in Children[d] \ Seen /\ Depth[c] <= MaxDepth
  /\ pending' = pending \cup {c}
  /\ UNCHANGED <<active, listed, skipped, finished>>

\* A subdirectory of d that cannot be examined is never entered.
Omit(d, c) ==
  /\ d \in active /\ c \in (Children[d] \cap Flaky) \ Seen
  /\ skipped' = skipped \cup {c}
  /\ UNCHANGED <<pending, active, listed, finished>>

Fail(d) ==
  /\ d \in active \cap Flaky
  /\ active' = active \ {d} /\ skipped' = skipped \cup {d}
  /\ UNCHANGED <<pending, listed, finished>>

Finish(d) ==
  /\ d \in active
  /\ {c \in Children[d] : Depth[c] <= MaxDepth} \subseteq Seen
  /\ active' = active \ {d} /\ listed' = listed \cup {d}
  /\ UNCHANGED <<pending, skipped, finished>>

Announce ==
  /\ pending = {} /\ active = {}
  /\ finished' = TRUE
  /\ UNCHANGED <<pending, active, listed, skipped>>

Next ==
  \/ Announce
  \/ \E d \in Dirs : \/ Start(d) \/ Fail(d) \/ Finish(d)
                     \/ \E c \in Dirs : Discover(d, c) \/ Omit(d, c)

Spec == Init /\ [][Next]_tvars
=============================================================================
