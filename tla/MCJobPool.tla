----------------------------- MODULE MCJobPool -----------------------------
(* Two small trees for TLC.  In both the queue overflows on the private      *)
(* stacks, and the depth limit 2 cuts a directory off.                       *)
EXTENDS JobPool, TLC

\* A root with two subdirectories, and two more levels below one of them.
NarrowDirs == {"root", "a", "b", "a1", "deep"}
NarrowChildren == [d \in NarrowDirs |-> CASE d = "root" -> {"a", "b"}
                                          [] d = "a"    -> {"a1"}
                                          [] d = "a1"   -> {"deep"}
                                          [] OTHER      -> {}]
NarrowDepth == [d \in NarrowDirs |-> CASE d = "root" -> 0
                                       [] d \in {"a", "b"} -> 1
                                       [] d = "deep" -> 3
                                       [] OTHER -> 2]

\* Three subdirectories, and a second directory at depth 2.
WideDirs == NarrowDirs \cup {"c", "b1"}
WideChildren == [d \in WideDirs |-> CASE d = "root" -> {"a", "b", "c"}
                                      [] d = "b"    -> {"b1"}
                                      [] d \in {"c", "b1"} -> {}
                                      [] OTHER      -> NarrowChildren[d]]
WideDepth == [d \in WideDirs |-> IF d = "c" THEN 1 ELSE IF d = "b1" THEN 2
                                 ELSE NarrowDepth[d]]

\* The workers run the same program: they may be renamed.
WorkerSymmetry == Permutations(Workers)
=============================================================================
