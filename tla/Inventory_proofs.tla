-------------------------- MODULE Inventory_proofs --------------------------
(***************************************************************************)
(* Theorems about Inventory, for every number of workers, every tree and    *)
(* every length of the queue and of the rings: types, what the two names of *)
(* the database hold, and that a database marked complete is the result of  *)
(* a whole traversal.                                                       *)
(***************************************************************************)
EXTENDS Inventory, FiniteSetTheorems, TLAPS

-----------------------------------------------------------------------------
(* Layer 1.  Types, with the two counters of jobs weakened to integers.      *)

PcPlaces == {"top", "take", "open", "list", "error", "leaving", "gone", "dead"}
MPlaces  == {"begin", "pass", "drain", "wait", "mark", "remove", "create", "copy",
             "close", "rename", "end"}
Todo     == [dirs : SUBSET Dirs, files : Nat]
ChanType == [sem : 0..1, writeSem : Nat, readSem : Nat, head : 0..(RingLen - 1),
             tail : 0..(RingLen - 1), done : BOOLEAN, emitted : Nat, odd : BOOLEAN]

WorkTypes ==
  /\ version \in Versions
  /\ queue \in Seq(Dirs) /\ tokens \in Nat /\ running \in Int /\ waiting \in Int
  /\ pc \in [Workers -> PcPlaces] /\ stack \in [Workers -> Seq(Dirs)]
  /\ job \in [Workers -> Dirs] /\ todo \in [Workers -> Todo]
  /\ opened \subseteq Dirs /\ refused \subseteq Dirs
ChanTypes == chan \in [Workers -> ChanType]
LoopTypes ==
  /\ quitting \in BOOLEAN /\ next \in 1..(N + 1) /\ nothing \in BOOLEAN
  /\ mpc \in MPlaces /\ killed \in BOOLEAN
DiskTypes == temp \in File /\ final \in File

PipeTypes == messages \in 0..PipeLen

Types == WorkTypes /\ ChanTypes /\ LoopTypes /\ DiskTypes /\ PipeTypes

\* The files a run starts with.
LEMMA FileTypes == NoFile \in File /\ Fresh \in File /\ Empty \in File
<1>1. NoFile \in File
  BY DEF NoFile, File, Start
<1> QED
  BY <1>1 DEF File, Fresh, Empty

\* What manager_init leaves is typed.
LEMMA TypesInit == Init => Types
<1> SUFFICES ASSUME Init PROVE Types
  OBVIOUS
<1> USE ConstantsAssumption, OldsAssumption DEF ConstantsAssumption, OldsAssumption, Init
<1>1. WorkTypes
  <2>1. queue \in Seq(Dirs) /\ stack \in [Workers -> Seq(Dirs)]
    OBVIOUS
  <2>2. pc \in [Workers -> PcPlaces] /\ job \in [Workers -> Dirs]
        /\ todo \in [Workers -> Todo]
    BY DEF PcPlaces, Todo, NoJob
  <2> QED
    BY <2>1, <2>2 DEF WorkTypes
<1>2. ChanTypes
  BY DEF ChanTypes, ChanType
<1>3. LoopTypes
  <2>1. next \in 1..(N + 1) /\ mpc \in MPlaces
    BY DEF MPlaces
  <2>2. quitting \in BOOLEAN /\ nothing \in BOOLEAN /\ killed \in BOOLEAN
    OBVIOUS
  <2> QED
    BY <2>1, <2>2 DEF LoopTypes
<1>4. DiskTypes
  <2>1. Fresh \in File
    BY FileTypes
  <2>2. temp = Fresh /\ final \in Olds /\ Olds \subseteq File
    OBVIOUS
  <2> QED
    BY <2>1, <2>2 DEF DiskTypes
<1>5. PipeTypes
  BY DEF PipeTypes
<1> QED
  BY <1>1, <1>2, <1>3, <1>4, <1>5 DEF Types

\* A step of a worker, an interrupted write included.
Act(w) == Work(w) \/ InterruptWrite(w)

\* A file less to be listed.
LEMMA FileTaken ==
  ASSUME Types, NEW w \in Workers, todo[w].files > 0,
         UNCHANGED todo \/ todo' = [todo EXCEPT ![w].files = @ - 1]
  PROVE  todo' \in [Workers -> Todo]
<1>1. todo[w] \in Todo
  BY DEF Types, WorkTypes
<1>2. todo[w].files - 1 \in Nat
  BY <1>1 DEF Todo
<1>3. [todo[w] EXCEPT !.files = @ - 1] \in Todo
  BY <1>1, <1>2 DEF Todo
<1> QED
  BY <1>3 DEF Types, WorkTypes

\* The workers' steps keep the types.
LEMMA WorkKeepsTypes ==
  ASSUME Types, NEW w \in Workers, Act(w) PROVE Types'
<1> USE ConstantsAssumption DEF ConstantsAssumption, Types, At, Goto, pool, history
<1>s. Others /\ (messages' = messages \/ (messages < PipeLen /\ messages' = messages + 1))
  <2>1. Static \/ Reports
    BY DEF Act, Work, CheckIdle, PopStack, TakeJob, OpenDir, OpenFails, Discover, Emit,
       Vanished, OpenFileFails, Complain, InterruptWrite, EndJob, Abandon, Leave
  <2> QED
    BY <2>1 DEF Static, Reports, Others
<1>0. LoopTypes' /\ DiskTypes' /\ PipeTypes' /\ version' = version
  BY <1>s DEF LoopTypes, DiskTypes, PipeTypes, Others, loop, disk
<1>c. chan[w] \in ChanType
  BY DEF ChanTypes
<1>m. \A h \in 0..(RingLen - 1) : (h + 1) % RingLen \in 0..(RingLen - 1)
  OBVIOUS
<1>1. CASE CheckIdle(w)
  <2>1. PICK l \in PcPlaces : pc' = [pc EXCEPT ![w] = l]
    BY <1>1 DEF CheckIdle, PcPlaces
  <2>2. tokens' \in Nat
    BY <1>1 DEF CheckIdle, WorkTypes
  <2> QED
    BY <1>0, <1>1, <2>1, <2>2 DEF CheckIdle, WorkTypes, ChanTypes
<1>2. CASE PopStack(w)
  <2>1. Head(stack[w]) \in Dirs /\ Tail(stack[w]) \in Seq(Dirs)
    BY <1>2 DEF PopStack, WorkTypes
  <2> QED
    BY <1>0, <1>2, <2>1 DEF PopStack, WorkTypes, ChanTypes, PcPlaces
<1>3. CASE TakeJob(w)
  <2>1. queue # << >> => Head(queue) \in Dirs /\ Tail(queue) \in Seq(Dirs)
    BY DEF WorkTypes
  <2>2. PICK l \in PcPlaces : pc' = [pc EXCEPT ![w] = l]
    BY <1>3 DEF TakeJob, PcPlaces
  <2>3. queue' \in Seq(Dirs) /\ job' \in [Workers -> Dirs]
    BY <1>3, <2>1 DEF TakeJob, WorkTypes
  <2>4. tokens' \in Nat
    BY <1>3 DEF TakeJob, WorkTypes
  <2>5. running' \in Int /\ waiting' \in Int
    BY SMTT(30), <1>3 DEF TakeJob, WorkTypes
  <2> QED
    BY <1>0, <1>3, <2>2, <2>3, <2>4, <2>5 DEF TakeJob, WorkTypes, ChanTypes
<1>4. CASE OpenDir(w)
  <2>1. [dirs |-> Sub[job[w]], files |-> Files[job[w]]] \in Todo
    BY DEF WorkTypes, Todo
  <2> QED
    BY <1>0, <1>4, <2>1 DEF OpenDir, WorkTypes, ChanTypes, PcPlaces
<1>5. CASE OpenFails(w)
  <2>1. PICK l \in PcPlaces : pc' = [pc EXCEPT ![w] = l]
    BY <1>5 DEF OpenFails, PcPlaces
  <2>2. running' \in Int
    BY <1>5 DEF OpenFails, WorkTypes
  <2> QED
    BY <1>0, <1>5, <2>1, <2>2 DEF OpenFails, WorkTypes, ChanTypes
<1>6. CASE Discover(w)
  <2>1. PICK d \in todo[w].dirs : todo' = [todo EXCEPT ![w].dirs = @ \ {d}]
        /\ (queue' = queue \/ queue' = Append(queue, d))
        /\ (tokens' = tokens \/ tokens' = tokens + 1)
        /\ (UNCHANGED stack \/ stack' = [stack EXCEPT ![w] = <<d>> \o @])
    BY <1>6 DEF Discover
  <2>2. d \in Dirs /\ todo' \in [Workers -> Todo]
    <3>1. todo[w] \in Todo /\ todo \in [Workers -> Todo]
      BY DEF WorkTypes
    <3>2. d \in Dirs /\ [todo[w] EXCEPT !.dirs = @ \ {d}] \in Todo
      BY <2>1, <3>1 DEF Todo
    <3> QED
      BY <2>1, <3>1, <3>2
  <2>3. <<d>> \o stack[w] \in Seq(Dirs)
    BY <2>2 DEF WorkTypes
  <2>4. queue' \in Seq(Dirs) /\ tokens' \in Nat
    <3>1. Append(queue, d) \in Seq(Dirs) /\ queue \in Seq(Dirs) /\ tokens \in Nat
      BY <2>2 DEF WorkTypes
    <3>2. tokens' \in Nat
      BY SMTT(30), <1>6 DEF Discover, WorkTypes
    <3>3. queue' = queue \/ queue' = Append(queue, d)
      BY <2>1
    <3>4. queue' \in Seq(Dirs)
      BY ONLY <3>1, <3>3
    <3> QED
      BY <3>2, <3>4
  <2>5. stack' \in [Workers -> Seq(Dirs)]
    BY <2>1, <2>3 DEF WorkTypes
  <2>6. waiting' = waiting + 1 /\ UNCHANGED <<running, pc, job, chan, history>>
    BY <1>6 DEF Discover
  <2> QED
    BY <1>0, <2>2, <2>4, <2>5, <2>6 DEF WorkTypes, ChanTypes
<1>7. CASE Emit(w)
  <2>1. todo' \in [Workers -> Todo]
    BY <1>7, FileTaken DEF Emit
  <2>2. chan' = [chan EXCEPT ![w] =
            [chan[w] EXCEPT !.writeSem = @ - 1, !.readSem = @ + 1,
                            !.head = (@ + 1) % RingLen, !.emitted = @ + 1]]
    BY <1>7, <1>c DEF Emit, ChanTypes
  <2>3. chan' \in [Workers -> ChanType]
    BY SMTT(30), <1>7, <1>c, <1>m, <2>2 DEF Emit, ChanTypes, ChanType
  <2> QED
    BY <1>0, <1>7, <2>1, <2>3 DEF Emit, WorkTypes, ChanTypes
<1>8. CASE Vanished(w)
  <2>1. todo' \in [Workers -> Todo] /\ refused' \subseteq Dirs
    <3>1. todo[w] \in Todo
      BY DEF WorkTypes
    <3>2. CASE UNCHANGED <<todo, refused>>
      BY <3>2 DEF WorkTypes
    <3>3. ASSUME NEW d \in todo[w].dirs PROVE [todo[w] EXCEPT !.dirs = @ \ {d}] \in Todo
      BY <3>1 DEF Todo
    <3>4. ASSUME NEW n \in Nat PROVE [todo[w] EXCEPT !.files = n] \in Todo
      BY <3>1 DEF Todo
    <3>5. CASE ~UNCHANGED <<todo, refused>>
      <4>1. PICK rest \in Todo : /\ todo' = [todo EXCEPT ![w] = rest]
                                /\ refused' = refused \cup (todo[w].dirs \ rest.dirs)
        BY <1>8, <3>3, <3>4, <3>5 DEF Vanished
      <4> QED
        BY <3>1, <4>1 DEF WorkTypes, Todo
    <3> QED
      BY <3>2, <3>5
  <2>2. PICK l \in PcPlaces : pc' = [pc EXCEPT ![w] = l] \/ UNCHANGED pc
    BY <1>8 DEF Vanished, PcPlaces
  <2>3. UNCHANGED <<pool, stack, job, chan, opened>>
    BY <1>8 DEF Vanished
  <2> QED
    BY <1>0, <2>1, <2>2, <2>3 DEF WorkTypes, ChanTypes
<1>9. CASE OpenFileFails(w)
  <2>1. todo' \in [Workers -> Todo]
    BY <1>9, FileTaken DEF OpenFileFails
  <2>2. chan' \in [Workers -> ChanType]
    BY <1>9, <1>c, <1>m DEF OpenFileFails, ChanTypes, ChanType
  <2> QED
    BY <1>0, <1>9, <2>1, <2>2 DEF OpenFileFails, WorkTypes, ChanTypes, PcPlaces
<1>10. CASE EndJob(w)
  BY <1>0, <1>10 DEF EndJob, WorkTypes, ChanTypes, PcPlaces
<1>11. CASE Abandon(w)
  BY <1>0, <1>11 DEF Abandon, WorkTypes, ChanTypes, PcPlaces
<1>12. CASE Leave(w)
  <2>1. chan' \in [Workers -> ChanType]
    <3>1. chan' = chan \/ chan' = [chan EXCEPT ![w].done = TRUE]
      BY <1>12 DEF Leave
    <3>2. CASE chan' = chan
      BY <3>2 DEF ChanTypes
    <3>3. CASE chan' = [chan EXCEPT ![w].done = TRUE]
      BY <1>c, <3>3 DEF ChanTypes, ChanType
    <3> QED
      BY <3>1, <3>2, <3>3
  <2> QED
    BY <1>0, <1>12, <2>1 DEF Leave, WorkTypes, ChanTypes, PcPlaces
<1>13. CASE GiveBack(w)
  <2>1. chan' \in [Workers -> ChanType]
    BY <1>13, <1>c DEF GiveBack, ChanTypes, ChanType
  <2> QED
    BY <1>0, <1>13, <2>1 DEF GiveBack, WorkTypes, ChanTypes, PcPlaces
<1> QED
  BY <1>1, <1>2, <1>3, <1>4, <1>5, <1>6, <1>7, <1>8, <1>9, <1>10, <1>11, <1>12, <1>13
  DEF Act, Work, Complain, InterruptWrite

USE DEF InLoop

\* The manager's steps.
Manage == BeginShutdown \/ CollectAndWait \/ QuitManager \/ CopyPage \/ Kill

\* The manager's steps keep the types.
LEMMA ManageKeepsTypes == ASSUME Types, Manage PROVE Types'
<1> USE ConstantsAssumption DEF ConstantsAssumption, Types, Manager, Still, Publishing,
        pool, worker, history, loop, disk
<1>p. PipeTypes'
  <2>1. CASE BeginPass
    BY <2>1 DEF BeginPass, PipeTypes
  <2>2. CASE ~BeginPass
    <3>1. messages' = messages
      BY <2>2 DEF Manage, BeginShutdown, CollectAndWait, SkipEmpty, Collect, EndPass,
         Drain, Finish, QuitManager, Mark, Remove, Create, CopyLast, Close, Rename,
         CopyPage, Kill
    <3> QED
      BY <3>1 DEF PipeTypes
  <2> QED
    BY <2>1, <2>2
<1>0. UNCHANGED <<version, pool, worker, history>>
  BY DEF Manage, BeginShutdown, CollectAndWait, BeginPass, SkipEmpty, Collect, EndPass,
     Drain, Finish, QuitManager, Mark, Remove, Create, CopyLast, Close, Rename,
     CopyPage, Kill
<1>1. WorkTypes'
  BY <1>0 DEF WorkTypes
<1>2. CASE BeginShutdown \/ BeginPass \/ SkipEmpty \/ EndPass \/ Kill
  <2>1. mpc' \in MPlaces
    BY <1>2 DEF BeginShutdown, BeginPass, SkipEmpty, EndPass, Kill, LoopTypes, MPlaces
  <2>2. next' \in 1..(N + 1)
    BY <1>2 DEF BeginShutdown, BeginPass, SkipEmpty, EndPass, Kill, LoopTypes, Workers
  <2>3. quitting' \in BOOLEAN /\ nothing' \in BOOLEAN /\ killed' \in BOOLEAN
    BY <1>2 DEF BeginShutdown, BeginPass, SkipEmpty, EndPass, Kill, LoopTypes
  <2>4. UNCHANGED <<chan, disk>>
    BY <1>2 DEF BeginShutdown, BeginPass, SkipEmpty, EndPass, Kill
  <2> QED
    BY <1>p, <1>1, <2>1, <2>2, <2>3, <2>4 DEF LoopTypes, DiskTypes, ChanTypes
<1>3. CASE Collect
  <2>1. chan[next] \in ChanType /\ next \in Workers
    BY <1>3 DEF Collect, ChanTypes
  <2>2. chan' \in [Workers -> ChanType]
    BY <1>3, <2>1 DEF Collect, ChanTypes, ChanType
  <2>3. temp' \in File /\ nothing' \in BOOLEAN
    BY <1>3, <2>1 DEF Collect, DiskTypes, File, LoopTypes, ChanType
  <2> QED
    BY <1>p, <1>1, <1>3, <2>1, <2>2, <2>3 DEF Collect, LoopTypes, DiskTypes, ChanTypes,
       Workers
<1>4. CASE Drain
  <2>1. CASE next \in Workers /\ next' = next + 1 /\ UNCHANGED mpc
             /\ chan' = [chan EXCEPT ![next].tail = chan[next].head]
             /\ temp' = [temp EXCEPT !.records = @ +
                           ((chan[next].head + RingLen - chan[next].tail) % RingLen)]
    <3>1. chan[next] \in ChanType
      BY <2>1 DEF ChanTypes
    <3>2. chan' \in [Workers -> ChanType]
      BY <2>1, <3>1 DEF ChanTypes, ChanType
    <3>3. (chan[next].head + RingLen - chan[next].tail) % RingLen \in Nat
      BY <3>1 DEF ChanType
    <3>4. temp' \in File
      BY <2>1, <3>3 DEF DiskTypes, File
    <3> QED
      BY <1>p, <1>1, <1>4, <2>1, <3>2, <3>4 DEF Drain, LoopTypes, DiskTypes, ChanTypes,
         Workers
  <2>2. CASE mpc' = "wait" /\ UNCHANGED <<next, temp, chan>>
    BY <1>p, <1>1, <1>4, <2>2 DEF Drain, LoopTypes, DiskTypes, ChanTypes, MPlaces
  <2> QED
    BY <1>4, <2>1, <2>2 DEF Drain
<1>5. CASE Finish
  <2>1. mpc' \in MPlaces
    BY <1>5 DEF Finish, MPlaces
  <2> DEFINE c == IF version = "HW4" THEN temp.complete ELSE IF quitting THEN Part ELSE Full
  <2>2. c \in 0..2
    BY DEF DiskTypes, File, Full, Part
  <2>a. temp' = [temp EXCEPT !.stats = TRUE, !.rows = temp.records, !.complete = c]
    BY <1>5 DEF Finish
  <2> HIDE DEF c
  <2>3. temp' \in File
    BY <2>2, <2>a DEF DiskTypes, File
  <2> QED
    BY <1>p, <1>1, <1>5, <2>1, <2>3 DEF Finish, LoopTypes, DiskTypes, ChanTypes
<1>6. CASE QuitManager \/ CopyPage
  <2>1. mpc' \in MPlaces
    BY <1>6 DEF QuitManager, CopyPage, Mark, Remove, Create, CopyLast, Close, Rename,
       LoopTypes, MPlaces
  <2>2. NoFile \in File /\ Empty \in File /\ Full \in 0..2
    BY FileTypes DEF Full
  <2>3. DiskTypes'
    <3>1. CASE Mark
      BY <2>2, <3>1 DEF Mark, DiskTypes, File
    <3>2. CASE Remove \/ Create \/ CopyLast \/ Rename
      BY <2>2, <3>2 DEF Remove, Create, CopyLast, Rename, DiskTypes
    <3>3. CASE CopyPage
      <4>0. temp.rows \in Nat /\ final.rows \in Nat
        BY DEF DiskTypes, File
      <4>1. PICK n \in final.rows..temp.rows :
               final' = [temp EXCEPT !.rows = n, !.stats = FALSE]
        BY <3>3 DEF CopyPage
      <4>2. n \in Nat
        BY <4>0
      <4>3. temp' = temp
        BY <3>3 DEF CopyPage
      <4> QED
        BY <4>1, <4>2, <4>3 DEF DiskTypes, File
    <3>4. CASE Close
      BY <3>4 DEF Close, DiskTypes, File
    <3> QED
      BY <1>6, <3>1, <3>2, <3>3, <3>4 DEF QuitManager
  <2>4. UNCHANGED <<chan, next, nothing, quitting, killed>>
    BY <1>6 DEF QuitManager, CopyPage, Mark, Remove, Create, CopyLast, Close, Rename
  <2> QED
    BY <1>p, <1>1, <2>1, <2>3, <2>4 DEF LoopTypes, ChanTypes
<1> QED
  BY <1>2, <1>3, <1>4, <1>5, <1>6 DEF Manage, CollectAndWait

\* A step is one of a worker, one of the manager, or none.
LEMMA NextCases ==
  [Next]_vars => (\E w \in Workers : Act(w)) \/ Manage \/ UNCHANGED vars
  BY DEF Next, Act, Manage, Over

\* Every step keeps the types.
LEMMA TypesNext == Types /\ [Next]_vars => Types'
<1>1. Types /\ UNCHANGED vars => Types'
  BY DEF Types, WorkTypes, ChanTypes, LoopTypes, DiskTypes, PipeTypes, vars, pool,
     worker, loop, disk, history
<1> QED
  BY <1>1, NextCases, WorkKeepsTypes, ManageKeepsTypes

THEOREM TypesInvariant == Spec => []Types
<1> QED
  BY TypesInit, TypesNext, PTL DEF Spec

-----------------------------------------------------------------------------
(* Layer 2.  What the two names hold at each place of manager_quit.          *)

\* A worker does not touch what the manager keeps.
LEMMA WorkStatic ==
  ASSUME NEW w \in Workers, Act(w)
  PROVE  UNCHANGED <<version, quitting, mpc, next, nothing, killed, temp, final>>
  BY DEF Act, Work, Static, Reports, Others, loop, disk, CheckIdle, PopStack, TakeJob,
     OpenDir, OpenFails, Discover, Emit, Vanished, OpenFileFails, Complain,
     InterruptWrite, GiveBack, EndJob, Abandon, Leave

\* The manager does not touch what the workers keep, the channels apart.
LEMMA ManageStill ==
  ASSUME Manage PROVE UNCHANGED <<version, pool, worker, history>>
  BY DEF Manage, BeginShutdown, CollectAndWait, BeginPass, SkipEmpty, Collect, EndPass,
     Drain, Finish, QuitManager, Mark, Remove, Create, CopyLast, Close, Rename,
     CopyPage, Kill, Still, Publishing

Before  == {"begin", "pass", "drain", "wait"}
Copying == {"mark", "remove", "create", "copy"}
Moving  == {"close", "rename"}

Names ==
  /\ mpc \in Copying => version = "HW4"
  /\ mpc \in Moving => version = "HW5"
  /\ mpc \in Before \cup Moving \cup {"mark", "remove"} => final \in Olds
  /\ mpc = "create" => final = NoFile
  /\ mpc \in Before => temp.there /\ temp.header
  /\ mpc \in Copying \cup Moving => Whole(temp)
  /\ mpc = "end" => Whole(final)

LEMMA NamesInit == Init => Names
  BY DEF Init, Names, Before, Copying, Moving, Fresh, NoFile

\* The old database goes only when the new one is whole.
LEMMA NamesNext == Types /\ Names /\ [Next]_vars => Names'
<1> SUFFICES ASSUME Types, Names, [Next]_vars PROVE Names'
  OBVIOUS
<1> USE DEF Before, Copying, Moving
<1>1. ASSUME UNCHANGED <<version, mpc, temp, final>> PROVE Names'
  BY <1>1 DEF Names, Whole
<1>2. ASSUME Manage PROVE Names'
  <2>0. UNCHANGED version /\ temp \in File
    BY <1>2, ManageStill DEF Types, DiskTypes
  <2> USE DEF Manager, Publishing
  <2>1. CASE BeginShutdown \/ SkipEmpty \/ Kill
    BY <1>1, <2>0, <2>1 DEF BeginShutdown, SkipEmpty, Kill, loop, disk
  <2>2. CASE Collect
    <3>1. mpc = "pass" /\ mpc' = mpc /\ final' = final
      BY <2>2 DEF Collect
    <3>2. temp'.there = temp.there /\ temp'.header = temp.header
      BY <2>0, <2>2 DEF Collect, File
    <3> QED
      BY <2>0, <3>1, <3>2 DEF Names
  <2>3. CASE EndPass
    <3>1. mpc = "pass" /\ mpc' \in {"begin", "drain"} /\ UNCHANGED <<temp, final>>
      BY <2>3 DEF EndPass, disk
    <3> QED
      BY <2>0, <3>1 DEF Names
  <2>4. CASE Drain
    <3>1. mpc = "drain" /\ mpc' \in {"drain", "wait"} /\ final' = final
      BY <2>4 DEF Drain
    <3>2. temp'.there = temp.there /\ temp'.header = temp.header
      BY <2>0, <2>4 DEF Drain, File
    <3> QED
      BY <2>0, <3>1, <3>2 DEF Names
  <2>5. CASE Finish
    <3>1. mpc = "wait" /\ final' = final /\ version \in {"HW4", "HW5"}
          /\ mpc' = IF version = "HW4" THEN "mark" ELSE "close"
      BY <2>5, ConstantsAssumption DEF Finish, ConstantsAssumption, Types, WorkTypes
    <3>2. temp'.there = temp.there /\ temp'.header = temp.header /\ temp'.stats
          /\ temp'.rows = temp'.records
      BY <2>0, <2>5 DEF Finish, File
    <3>3. temp.there /\ temp.header /\ final \in Olds
      BY <3>1 DEF Names
    <3> QED
      BY <2>0, <3>1, <3>2, <3>3 DEF Names, Whole
  <2>6. CASE Mark
    <3>1. mpc = "mark" /\ mpc' = "remove" /\ final' = final
          /\ temp' = [temp EXCEPT !.complete = Full]
      BY <2>6 DEF Mark
    <3>2. Whole(temp')
      BY <2>0, <3>1 DEF Names, Whole, File
    <3> QED
      BY <2>0, <3>1, <3>2 DEF Names
  <2>7. CASE Remove \/ Create \/ CopyLast \/ CopyPage
    <3>1. temp' = temp /\ Whole(temp) /\ version = "HW4"
      BY <2>7 DEF Remove, Create, CopyLast, CopyPage, Names
    <3>2. \/ mpc' = "create" /\ final' = NoFile
          \/ mpc' = "copy"
          \/ mpc' = "end" /\ final' = temp
      BY <2>7 DEF Remove, Create, CopyLast, CopyPage
    <3> QED
      BY <2>0, <3>1, <3>2 DEF Names, Whole
  <2>8. CASE Close
    <3>1. mpc = "close" /\ mpc' = "rename" /\ final' = final
          /\ temp' = [temp EXCEPT !.rows = temp.records]
      BY <2>8 DEF Close
    <3>2. Whole(temp')
      BY <2>0, <3>1 DEF Names, Whole, File
    <3> QED
      BY <2>0, <3>1, <3>2 DEF Names
  <2>9. CASE Rename
    BY <2>0, <2>9 DEF Rename, Names, Whole
  <2>10. CASE BeginPass
    BY <2>0, <2>10 DEF BeginPass, Names, Whole, disk
  <2> QED
    BY <1>2, <2>1, <2>2, <2>3, <2>4, <2>5, <2>6, <2>7, <2>8, <2>9, <2>10
    DEF Manage, CollectAndWait, QuitManager
<1> QED
  BY <1>1, <1>2, WorkStatic, NextCases DEF vars, loop, disk

THEOREM NamesInvariant == Spec => [](Types /\ Names)
<1>1. Types /\ Names /\ [Next]_vars => (Types /\ Names)'
  BY TypesNext, NamesNext
<1> QED
  BY <1>1, TypesInit, NamesInit, PTL DEF Spec

\* Wherever the manager is killed, one of the two names holds a whole database
\* once the run has its statistics, for every tree and number of workers.
THEOREM OneIsWholeInvariant == Spec => []OneIsWhole
<1>1. Types /\ Names => OneIsWhole
  BY DEF Types, LoopTypes, MPlaces, Names, Before, Copying, Moving, OneIsWhole, InLoop
<1> QED
  BY <1>1, NamesInvariant, PTL

\* What HW5's --verify approves under the final name is whole, wherever the
\* manager was killed.
THEOREM ApprovedInvariant == Spec => []ApprovedIsWhole
<1>1. Types /\ Names => ApprovedIsWhole
  <2>1. \A f \in Olds : Approves(f) => Whole(f)
    BY OldsAssumption DEF OldsAssumption, Approves
  <2>2. ~Approves(NoFile)
    BY DEF Approves, NoFile
  <2> QED
    BY <2>1, <2>2 DEF Types, LoopTypes, MPlaces, Names, Before, Copying, Moving,
       ApprovedIsWhole
<1> QED
  BY <1>1, NamesInvariant, PTL

-----------------------------------------------------------------------------
(* Layer 3.  The counters of jobs.                                           *)

On(S) == {w \in Workers : pc[w] \in S}

LEMMA OnFinite == ASSUME NEW S PROVE IsFiniteSet(On(S)) /\ Cardinality(On(S)) \in Nat
<1>1. IsFiniteSet(Workers)
  BY FS_Interval, ConstantsAssumption DEF Workers, ConstantsAssumption
<1> QED
  BY <1>1, FS_Subset, FS_CardinalityType DEF On

\* What moving one worker does to the number of workers at some places.
LEMMA Move ==
  ASSUME Types, NEW w \in Workers, NEW l, pc' = [pc EXCEPT ![w] = l], NEW S
  PROVE  /\ Cardinality(On(S)') = Cardinality(On(S)) + (IF l \in S THEN 1 ELSE 0)
                                                     - (IF pc[w] \in S THEN 1 ELSE 0)
         /\ pc[w] \in S => Cardinality(On(S)) >= 1
<1>1. On(S)' = IF l \in S THEN On(S) \cup {w} ELSE On(S) \ {w}
  BY DEF Types, WorkTypes, On
<1>2. w \in On(S) <=> pc[w] \in S
  BY DEF On
<1>3. IsFiniteSet(On(S)) /\ Cardinality(On(S)) \in Nat
  BY OnFinite
<1>4. w \in On(S) => Cardinality(On(S)) # 0
  BY <1>3, FS_EmptySet
<1>5. Cardinality(On(S) \cup {w}) = IF w \in On(S) THEN Cardinality(On(S))
                                    ELSE Cardinality(On(S)) + 1
  BY <1>3, FS_AddElement
<1>6. Cardinality(On(S) \ {w}) = IF w \in On(S) THEN Cardinality(On(S)) - 1
                                 ELSE Cardinality(On(S))
  BY <1>3, FS_RemoveElement
<1> QED
  BY <1>1, <1>2, <1>3, <1>4, <1>5, <1>6

InHand  == {"open", "list", "error"}
Claimed == {"open", "list", "error", "dead"}

NHand    == Cardinality(On(InHand))
NClaimed == Cardinality(On(Claimed))

\* The places whose occupants jobs_running is about.
LEMMA Moves ==
  ASSUME Types, NEW w \in Workers, NEW l, Goto(w, l)
  PROVE  /\ NHand' = NHand + (IF l \in InHand THEN 1 ELSE 0)
                           - (IF pc[w] \in InHand THEN 1 ELSE 0)
         /\ NClaimed' = NClaimed + (IF l \in Claimed THEN 1 ELSE 0)
                                 - (IF pc[w] \in Claimed THEN 1 ELSE 0)
  BY Move DEF NHand, NClaimed, Goto

\* jobs_running counts each job in hand, that of a worker that died included.
RunCounts ==
  /\ NHand <= running
  /\ ~quitting => running = NClaimed

LEMMA RunCountsInit == Init => RunCounts
<1> SUFFICES ASSUME Init PROVE RunCounts
  OBVIOUS
<1>1. On(InHand) = {} /\ On(Claimed) = {}
  BY DEF Init, On, InHand, Claimed
<1> QED
  BY <1>1, FS_EmptySet DEF Init, RunCounts, NHand, NClaimed

\* A worker that takes, ends or drops a job does so with the counter.
LEMMA RunCountsNext == Types /\ RunCounts /\ [Next]_vars => RunCounts'
<1> SUFFICES ASSUME Types, RunCounts, [Next]_vars PROVE RunCounts'
  OBVIOUS
<1>1. ASSUME UNCHANGED <<pc, running>>, quitting' = quitting \/ quitting' = TRUE
      PROVE  RunCounts'
  <2>1. On(InHand)' = On(InHand) /\ On(Claimed)' = On(Claimed)
    BY <1>1 DEF On
  <2> QED
    BY <1>1, <2>1 DEF RunCounts, NHand, NClaimed
<1>2. ASSUME NEW w \in Workers, Act(w) PROVE RunCounts'
  <2>0. quitting' = quitting
    BY <1>2, WorkStatic
  <2>n. NHand \in Nat /\ NClaimed \in Nat /\ running \in Int
    BY OnFinite DEF Types, WorkTypes, NHand, NClaimed
  <2>i. NHand <= running /\ (~quitting => running = NClaimed)
    BY DEF RunCounts
  <2>r. ASSUME NHand' <= running', ~quitting => running' = NClaimed' PROVE RunCounts'
    BY <2>0, <2>r DEF RunCounts
  <2> USE DEF At, pool, worker, InHand, Claimed
  <2>1. CASE CheckIdle(w) \/ Leave(w)
    <3>1. PICK l \in {"take", "leaving", "gone"} : Goto(w, l)
      BY <2>1 DEF CheckIdle, Leave
    <3>2. pc[w] \notin Claimed /\ pc[w] \notin InHand /\ running' = running
      BY <2>1 DEF CheckIdle, Leave
    <3>3. NHand' = NHand /\ NClaimed' = NClaimed
      BY <2>n, <3>1, <3>2, Moves
    <3> QED
      BY <2>i, <2>r, <3>2, <3>3
  <2>2. CASE PopStack(w) \/ (TakeJob(w) /\ running' = running + 1)
    <3>1. pc[w] = "take" /\ running' = running + 1 /\ Goto(w, "open")
      BY <2>2, <2>n DEF PopStack, TakeJob
    <3>2. NHand' = NHand + 1 /\ NClaimed' = NClaimed + 1
      BY <2>n, <3>1, Moves
    <3> QED
      BY <2>n, <2>i, <2>r, <3>1, <3>2
  <2>3. CASE TakeJob(w) /\ running' # running + 1
    <3>1. pc[w] = "take" /\ running' = running /\ Goto(w, "top")
      BY <2>3 DEF TakeJob
    <3>2. NHand' = NHand /\ NClaimed' = NClaimed
      BY <2>n, <3>1, Moves
    <3> QED
      BY <2>i, <2>r, <3>1, <3>2
  <2>4. CASE OpenDir(w)
    <3>1. pc[w] = "open" /\ running' = running /\ Goto(w, "list")
      BY <2>4 DEF OpenDir
    <3>2. NHand' = NHand /\ NClaimed' = NClaimed
      BY <2>n, <3>1, Moves
    <3> QED
      BY <2>i, <2>r, <3>1, <3>2
  <2>5. CASE OpenFails(w)
    <3>1. pc[w] = "open"
          /\ \/ running' = running /\ Goto(w, "dead")
             \/ running' = running - 1 /\ Goto(w, "top")
      BY <2>5 DEF OpenFails
    <3>2. CASE running' = running /\ Goto(w, "dead")
      <4>1. NHand' = NHand - 1 /\ NClaimed' = NClaimed
        BY <2>n, <3>1, <3>2, Moves
      <4> QED
        BY <2>n, <2>i, <2>r, <3>2, <4>1
    <3>3. CASE running' = running - 1 /\ Goto(w, "top")
      <4>1. NHand' = NHand - 1 /\ NClaimed' = NClaimed - 1
        BY <2>n, <3>1, <3>3, Moves
      <4> QED
        BY <2>n, <2>i, <2>r, <3>3, <4>1
    <3> QED
      BY <3>1, <3>2, <3>3
  <2>6. CASE Discover(w) \/ Emit(w)
    BY <1>1, <2>0, <2>6 DEF Discover, Emit
  <2>7. CASE Vanished(w) \/ OpenFileFails(w) \/ GiveBack(w)
    <3>1. pc[w] \in {"list", "error"} /\ running' = running
          /\ (UNCHANGED pc \/ Goto(w, "dead") \/ Goto(w, "error") \/ Goto(w, "list"))
      BY <2>7 DEF Vanished, OpenFileFails, GiveBack
    <3>2. CASE UNCHANGED pc
      BY <1>1, <2>0, <3>1, <3>2
    <3>3. CASE Goto(w, "dead")
      <4>1. NHand' = NHand - 1 /\ NClaimed' = NClaimed
        BY <2>n, <3>1, <3>3, Moves
      <4> QED
        BY <2>n, <2>i, <2>r, <3>1, <4>1
    <3>4. CASE Goto(w, "error") \/ Goto(w, "list")
      <4>1. NHand' = NHand /\ NClaimed' = NClaimed
        BY <2>n, <3>1, <3>4, Moves
      <4> QED
        BY <2>i, <2>r, <3>1, <4>1
    <3> QED
      BY <3>1, <3>2, <3>3, <3>4
  <2>8. CASE EndJob(w)
    <3>1. pc[w] = "list" /\ running' = running - 1 /\ Goto(w, "top")
      BY <2>8 DEF EndJob
    <3>2. NHand' = NHand - 1 /\ NClaimed' = NClaimed - 1
      BY <2>n, <3>1, Moves
    <3> QED
      BY <2>n, <2>i, <2>r, <3>1, <3>2
  <2>9. CASE Abandon(w)
    <3>1. quitting /\ running' = running /\ Goto(w, "leaving")
      BY <2>9 DEF Abandon
    <3>2. NHand' <= NHand
      BY <2>n, <3>1, Moves
    <3>3. NHand' <= running'
      <4>1. NHand' \in Int
        BY <2>n, <3>1, Moves
      <4> QED
        BY <2>n, <2>i, <3>1, <3>2, <4>1
    <3> QED
      BY <2>r, <3>1, <3>3
  <2> QED
    BY <1>2, <2>1, <2>2, <2>3, <2>4, <2>5, <2>6, <2>7, <2>8, <2>9
    DEF Act, Work, Complain, InterruptWrite
<1>3. ASSUME Manage PROVE UNCHANGED <<pc, running>> /\ (quitting' = quitting \/ quitting' = TRUE)
  <2>1. UNCHANGED <<pc, running>>
    BY <1>3, ManageStill DEF pool, worker
  <2>2. quitting' = quitting \/ quitting' = TRUE
    BY <1>3 DEF Manage, BeginShutdown, CollectAndWait, BeginPass, SkipEmpty, Collect,
       EndPass, Drain, Finish, QuitManager, Mark, Remove, Create, CopyLast, Close,
       Rename, CopyPage, Kill, Publishing
  <2> QED
    BY <2>1, <2>2
<1>4. CASE UNCHANGED vars
  BY <1>1, <1>4 DEF vars, pool, worker
<1> QED
  BY <1>1, <1>2, <1>3, <1>4, NextCases

\* The jobs on private stacks, each with its owner and its place there.
Stacked == UNION {{w} \X (1..Len(stack[w])) : w \in Workers}

LEMMA StackedIs ==
  \A x : x \in Stacked <=> \E w \in Workers : \E i \in 1..Len(stack[w]) : x = <<w, i>>
  BY DEF Stacked

\* One job more, or less, on a stack is one more, or less, stacked.
LEMMA StackedChanges ==
  ASSUME Types, Types', IsFiniteSet(Stacked), NEW w \in Workers,
         \A v \in Workers \ {w} : stack'[v] = stack[v]
  PROVE  /\ Len(stack'[w]) = Len(stack[w]) + 1 =>
              IsFiniteSet(Stacked') /\ Cardinality(Stacked') = Cardinality(Stacked) + 1
         /\ Len(stack'[w]) = Len(stack[w]) - 1 =>
              IsFiniteSet(Stacked') /\ Cardinality(Stacked') = Cardinality(Stacked) - 1
<1> DEFINE n == Len(stack[w])
<1>n. \A v \in Workers : Len(stack[v]) \in Nat /\ Len(stack'[v]) \in Nat
  BY DEF Types, WorkTypes
<1>i. \A x : x \in Stacked' <=>
               \E v \in Workers : \E i \in 1..Len(stack'[v]) : x = <<v, i>>
  BY DEF Stacked
<1>1. ASSUME Len(stack'[w]) = n + 1
      PROVE  IsFiniteSet(Stacked') /\ Cardinality(Stacked') = Cardinality(Stacked) + 1
  <2>1. Stacked' = Stacked \cup {<<w, n + 1>>}
    <3>1. ASSUME NEW x \in Stacked' PROVE x \in Stacked \cup {<<w, n + 1>>}
      <4>0. PICK v \in Workers : \E i \in 1..Len(stack'[v]) : x = <<v, i>>
        BY <1>i, <3>1
      <4>1. PICK i \in 1..Len(stack'[v]) : x = <<v, i>>
        BY <4>0
      <4>2. CASE v # w
        BY <4>1, <4>2, StackedIs
      <4>3. CASE v = w
        <5>1. i \in 1..n \/ i = n + 1
          BY <1>1, <1>n, <4>1, <4>3
        <5> QED
          BY <4>1, <4>3, <5>1, StackedIs
      <4> QED
        BY <4>2, <4>3
    <3>2. ASSUME NEW x \in Stacked PROVE x \in Stacked'
      <4>0. PICK v \in Workers : \E i \in 1..Len(stack[v]) : x = <<v, i>>
        BY <3>2, StackedIs
      <4>1. PICK i \in 1..Len(stack[v]) : x = <<v, i>>
        BY <4>0
      <4>2. i \in 1..Len(stack'[v])
        BY <1>1, <1>n, <4>1
      <4> QED
        BY <1>i, <4>1, <4>2
    <3>3. <<w, n + 1>> \in Stacked'
      <4>1. n + 1 \in 1..Len(stack'[w])
        BY <1>1, <1>n
      <4> QED
        BY <1>i, <4>1
    <3> QED
      BY <3>1, <3>2, <3>3
  <2>2. <<w, n + 1>> \notin Stacked
    BY <1>n, StackedIs
  <2> QED
    BY <2>1, <2>2, FS_AddElement
<1>2. ASSUME Len(stack'[w]) = n - 1
      PROVE  IsFiniteSet(Stacked') /\ Cardinality(Stacked') = Cardinality(Stacked) - 1
  <2>0. n \in Nat \ {0}
    BY <1>2, <1>n
  <2>1. Stacked' = Stacked \ {<<w, n>>}
    <3>1. ASSUME NEW x \in Stacked' PROVE x \in Stacked \ {<<w, n>>}
      <4>0. PICK v \in Workers : \E i \in 1..Len(stack'[v]) : x = <<v, i>>
        BY <1>i, <3>1
      <4>1. PICK i \in 1..Len(stack'[v]) : x = <<v, i>>
        BY <4>0
      <4>2. CASE v # w
        BY <4>1, <4>2, StackedIs
      <4>3. CASE v = w
        <5>1. i \in 1..n /\ i # n
          BY <1>2, <1>n, <2>0, <4>1, <4>3
        <5> QED
          BY <4>1, <4>3, <5>1, StackedIs
      <4> QED
        BY <4>2, <4>3
    <3>2. ASSUME NEW x \in Stacked, x # <<w, n>> PROVE x \in Stacked'
      <4>0. PICK v \in Workers : \E i \in 1..Len(stack[v]) : x = <<v, i>>
        BY <3>2, StackedIs
      <4>1. PICK i \in 1..Len(stack[v]) : x = <<v, i>>
        BY <4>0
      <4>2. i \in 1..Len(stack'[v])
        BY <1>2, <1>n, <2>0, <3>2, <4>1
      <4> QED
        BY <1>i, <4>1, <4>2
    <3> QED
      BY <3>1, <3>2
  <2>2. <<w, n>> \in Stacked
    <3>1. n \in 1..Len(stack[w])
      BY <2>0
    <3> QED
      BY <3>1, StackedIs
  <2> QED
    BY <2>1, <2>2, FS_RemoveElement
<1> QED
  BY <1>1, <1>2

\* jobs_waiting is the number of jobs in the queue and on the stacks.
WaitCounts ==
  IsFiniteSet(Stacked) /\ waiting = Len(queue) + Cardinality(Stacked)

LEMMA WaitCountsInit == Init => WaitCounts
<1> SUFFICES ASSUME Init PROVE WaitCounts
  OBVIOUS
<1>1. Stacked = {}
  <2>1. \A w \in Workers : 1..Len(stack[w]) = {}
    BY DEF Init
  <2> QED
    BY <2>1, StackedIs
<1>2. Len(queue) = 1 /\ waiting = 1
  BY DEF Init
<1> QED
  BY <1>1, <1>2, FS_EmptySet DEF WaitCounts

\* Every job that is put somewhere or taken from there is counted.
LEMMA WaitCountsNext == Types /\ Types' /\ WaitCounts /\ [Next]_vars => WaitCounts'
<1> SUFFICES ASSUME Types, Types', WaitCounts, [Next]_vars PROVE WaitCounts'
  OBVIOUS
<1>n. /\ Len(queue) \in Nat /\ Cardinality(Stacked) \in Nat /\ waiting \in Int
      /\ \A w \in Workers : stack[w] \in Seq(Dirs)
  BY FS_CardinalityType DEF WaitCounts, Types, WorkTypes
<1>1. ASSUME UNCHANGED <<queue, stack, waiting>> PROVE WaitCounts'
  BY <1>1 DEF WaitCounts, Stacked
<1>2. ASSUME NEW w \in Workers, Act(w) PROVE WaitCounts'
  <2> USE DEF At, Goto, pool, worker
  <2>1. CASE CheckIdle(w) \/ OpenDir(w) \/ OpenFails(w) \/ Emit(w) \/ Vanished(w)
             \/ OpenFileFails(w) \/ GiveBack(w) \/ EndJob(w) \/ Abandon(w) \/ Leave(w)
    <3>1. UNCHANGED <<queue, stack, waiting>>
      BY <2>1 DEF CheckIdle, OpenDir, OpenFails, Emit, Vanished, OpenFileFails,
         Complain, InterruptWrite, GiveBack, EndJob, Abandon, Leave
    <3> QED
      BY <1>1, <3>1
  <2>2. CASE PopStack(w)
    <3>1. stack[w] # << >> /\ stack' = [stack EXCEPT ![w] = Tail(@)]
          /\ waiting' = waiting - 1 /\ queue' = queue
      BY <2>2 DEF PopStack
    <3>2. Len(stack'[w]) = Len(stack[w]) - 1
          /\ \A v \in Workers \ {w} : stack'[v] = stack[v]
      BY <1>n, <3>1 DEF Types, WorkTypes
    <3> QED
      BY <1>n, <3>1, <3>2, StackedChanges DEF WaitCounts
  <2>3. CASE TakeJob(w)
    <3>1. CASE UNCHANGED <<queue, waiting>>
      BY <1>1, <2>3, <3>1 DEF TakeJob
    <3>2. CASE queue # << >> /\ queue' = Tail(queue) /\ waiting' = waiting - 1
      <4>1. Len(queue') = Len(queue) - 1
        BY <3>2 DEF Types, WorkTypes
      <4>2. Stacked' = Stacked
        BY <2>3 DEF TakeJob, Stacked
      <4> QED
        BY <1>n, <3>2, <4>1, <4>2 DEF WaitCounts
    <3> QED
      BY <2>3, <3>1, <3>2 DEF TakeJob
  <2>4. CASE Discover(w)
    <3>1. PICK d \in todo[w].dirs :
             /\ waiting' = waiting + 1
             /\ \/ queue' = Append(queue, d) /\ UNCHANGED stack
                \/ stack' = [stack EXCEPT ![w] = <<d>> \o @] /\ UNCHANGED queue
      BY <2>4 DEF Discover
    <3>2. CASE queue' = Append(queue, d) /\ UNCHANGED stack
      <4>1. Len(queue') = Len(queue) + 1
        BY <3>2 DEF Types, WorkTypes
      <4>2. Stacked' = Stacked
        BY <3>2 DEF Stacked
      <4> QED
        BY <1>n, <3>1, <4>1, <4>2 DEF WaitCounts
    <3>3. CASE stack' = [stack EXCEPT ![w] = <<d>> \o @] /\ UNCHANGED queue
      <4>1. stack'[w] = <<d>> \o stack[w] /\ \A v \in Workers \ {w} : stack'[v] = stack[v]
        BY <3>3 DEF Types, WorkTypes
      <4>2. Len(stack'[w]) = Len(stack[w]) + 1
        BY <1>n, <4>1
      <4> QED
        BY <1>n, <3>1, <3>3, <4>1, <4>2, StackedChanges DEF WaitCounts
    <3> QED
      BY <3>1, <3>2, <3>3
  <2> QED
    BY <1>2, <2>1, <2>2, <2>3, <2>4 DEF Act, Work, Complain, InterruptWrite
<1>3. ASSUME Manage \/ UNCHANGED vars PROVE UNCHANGED <<queue, stack, waiting>>
  BY <1>3, ManageStill DEF vars, pool, worker
<1> QED
  BY <1>1, <1>2, <1>3, NextCases

Counts == Types /\ RunCounts /\ WaitCounts

THEOREM CountsInvariant == Spec => []Counts
<1>1. Init => Counts
  BY TypesInit, RunCountsInit, WaitCountsInit DEF Counts
<1>2. Counts /\ [Next]_vars => Counts'
  BY TypesNext, RunCountsNext, WaitCountsNext DEF Counts
<1> QED
  BY <1>1, <1>2, PTL DEF Spec

\* Every variable keeps its type: no counter or semaphore goes below zero.
THEOREM TypeCorrect == Spec => []TypeOK
<1>1. Counts => TypeOK
  <2> SUFFICES ASSUME Counts PROVE TypeOK
    OBVIOUS
  <2>1. running \in Nat
    BY OnFinite DEF Counts, RunCounts, NHand, Types, WorkTypes
  <2>2. waiting \in Nat
    BY FS_CardinalityType DEF Counts, WaitCounts, Types, WorkTypes
  <2>3. Types
    BY DEF Counts
  <2> QED
    BY <2>1, <2>2, <2>3 DEF Types, WorkTypes, ChanTypes, LoopTypes, DiskTypes,
       PipeTypes, PcPlaces, MPlaces, Todo, ChanType, TypeOK
<1> QED
  BY <1>1, CountsInvariant, PTL

-----------------------------------------------------------------------------
(* Layer 4.  No directory is lost on the way.                                *)

InSeq(x, s) == \E i \in 1..Len(s) : s[i] = x

\* Where a job may be found after one has been put into a sequence or taken out.
LEMMA InSeqChanges ==
  ASSUME NEW s \in Seq(Dirs), NEW x \in Dirs
  PROVE  /\ \A y : InSeq(y, s) => InSeq(y, Append(s, x)) /\ InSeq(y, <<x>> \o s)
         /\ InSeq(x, Append(s, x)) /\ InSeq(x, <<x>> \o s)
         /\ s # << >> => \A y : InSeq(y, s) => y = Head(s) \/ InSeq(y, Tail(s))
<1>1. ASSUME NEW y, InSeq(y, s) PROVE InSeq(y, Append(s, x)) /\ InSeq(y, <<x>> \o s)
  <2>1. PICK i \in 1..Len(s) : s[i] = y
    BY <1>1 DEF InSeq
  <2>2. Append(s, x)[i] = y /\ i \in 1..Len(Append(s, x))
    BY <2>1
  <2>3. (<<x>> \o s)[i + 1] = y /\ i + 1 \in 1..Len(<<x>> \o s)
    BY <2>1
  <2> QED
    BY <2>2, <2>3 DEF InSeq
<1>2. InSeq(x, Append(s, x)) /\ InSeq(x, <<x>> \o s)
  <2>1. Append(s, x)[Len(s) + 1] = x /\ Len(s) + 1 \in 1..Len(Append(s, x))
    OBVIOUS
  <2>2. (<<x>> \o s)[1] = x /\ 1 \in 1..Len(<<x>> \o s)
    OBVIOUS
  <2> QED
    BY <2>1, <2>2 DEF InSeq
<1>3. ASSUME s # << >>, NEW y, InSeq(y, s) PROVE y = Head(s) \/ InSeq(y, Tail(s))
  <2>1. PICK i \in 1..Len(s) : s[i] = y
    BY <1>3 DEF InSeq
  <2>2. CASE i = 1
    BY <1>3, <2>1, <2>2
  <2>3. CASE i # 1
    <3>1. i - 1 \in 1..Len(Tail(s)) /\ Tail(s)[i - 1] = y
      BY <1>3, <2>1, <2>3
    <3> QED
      BY <3>1 DEF InSeq
  <2> QED
    BY <2>2, <2>3
<1> QED
  BY <1>1, <1>2, <1>3

\* What is to be done with a directory: by which worker, if it has one.
Holds(w, x) == InSeq(x, stack[w]) \/ (pc[w] = "open" /\ x = job[w]) \/ x \in todo[w].dirs

LEMMA PendingIs ==
  \A x : x \in Pending <=> InSeq(x, queue) \/ \E w \in Workers : Holds(w, x)
<1> SUFFICES ASSUME NEW x
             PROVE  x \in Pending <=> InSeq(x, queue) \/ \E w \in Workers : Holds(w, x)
  OBVIOUS
<1>1. x \in Queued <=> InSeq(x, queue)
  BY DEF Queued, InSeq
<1>2. x \in OnStack <=> \E w \in Workers : InSeq(x, stack[w])
  BY DEF OnStack, InSeq
<1>3. x \in BeingRead <=> \E w \in Workers : pc[w] = "open" /\ x = job[w]
  BY DEF BeingRead
<1>4. x \in ToBeFound <=> \E w \in Workers : x \in todo[w].dirs
  BY DEF ToBeFound
<1> QED
  BY <1>1, <1>2, <1>3, <1>4 DEF Pending, Holds

Known == opened \cup refused \cup Pending

Traversed == ~quitting =>
  /\ Root \in Known
  /\ \A d \in opened : Sub[d] \subseteq Known
  /\ \A w \in Workers : todo[w].dirs # {} => pc[w] \in {"list", "error", "dead"}
  /\ mpc \notin InLoop => NoJobs

Marked ==
  /\ version = "HW4" => ~quitting
  /\ temp.complete = Full => ~quitting /\ mpc \notin Before

LEMMA TraversedInit == Init => Traversed /\ Marked
<1> SUFFICES ASSUME Init PROVE Traversed /\ Marked
  OBVIOUS
<1>1. Root \in Known
  <2>1. InSeq(Root, queue)
    BY DEF Init, InSeq
  <2> QED
    BY <2>1, PendingIs DEF Known
<1>2. opened = {} /\ \A w \in Workers : todo[w].dirs = {}
  BY DEF Init, NoJob
<1>3. temp.complete # Full /\ mpc \in InLoop /\ ~quitting
  BY DEF Init, Fresh, NoFile, Start, Full
<1> QED
  BY <1>1, <1>2, <1>3 DEF Traversed, Marked

\* A manager that finds nothing waiting or running leaves no job anywhere.
LEMMA NothingLeft ==
  ASSUME Counts, ~quitting, NoJobs
  PROVE  /\ queue = << >> /\ \A w \in Workers : stack[w] = << >>
         /\ \A w \in Workers : pc[w] \notin Claimed
<1>1. NClaimed = 0
  BY DEF NoJobs, Counts, RunCounts
<1>2. \A w \in Workers : pc[w] \notin Claimed
  <2>1. On(Claimed) = {}
    BY <1>1, OnFinite, FS_EmptySet DEF NClaimed
  <2> QED
    BY <2>1 DEF On
<1>3. Len(queue) = 0 /\ Cardinality(Stacked) = 0 /\ IsFiniteSet(Stacked)
  <2>1. Len(queue) \in Nat /\ Cardinality(Stacked) \in Nat /\ IsFiniteSet(Stacked)
    BY FS_CardinalityType DEF Counts, WaitCounts, Types, WorkTypes
  <2>2. Len(queue) + Cardinality(Stacked) = 0
    BY DEF NoJobs, Counts, WaitCounts
  <2> QED
    BY <2>1, <2>2
<1>4. Stacked = {}
  BY <1>3, FS_EmptySet
<1>5. ASSUME NEW w \in Workers PROVE stack[w] = << >>
  <2>1. stack[w] \in Seq(Dirs)
    BY DEF Counts, Types, WorkTypes
  <2>2. ASSUME Len(stack[w]) # 0 PROVE FALSE
    <3>1. 1 \in 1..Len(stack[w])
      BY <2>1, <2>2
    <3> QED
      BY <1>4, <3>1, StackedIs
  <2> QED
    BY <2>1, <2>2
<1>6. queue = << >>
  BY <1>3 DEF Counts, Types, WorkTypes
<1> QED
  BY <1>2, <1>5, <1>6

\* Once a pool is idle it stays idle.
LEMMA IdleStays ==
  ASSUME Counts, ~quitting, NoJobs, NEW w \in Workers, Act(w) PROVE NoJobs'
<1>1. pc[w] \notin Claimed /\ stack[w] = << >> /\ queue = << >>
  BY NothingLeft
<1>2. CheckIdle(w) \/ (TakeJob(w) /\ UNCHANGED <<running, waiting>>) \/ Leave(w)
  BY <1>1 DEF Claimed, Act, Work, At, PopStack, TakeJob, OpenDir, OpenFails, Discover,
     Emit, Vanished, OpenFileFails, Complain, InterruptWrite, GiveBack, EndJob, Abandon
<1> QED
  BY <1>2 DEF NoJobs, CheckIdle, Leave, pool

\* What a step of one worker does to what it and the others hold.
LEMMA KnownGrows ==
  ASSUME Types, ~quitting, Traversed, NEW w \in Workers, Act(w)
  PROVE  /\ Known \subseteq Known'
         /\ \A d \in opened' \ opened : Sub[d] \subseteq Known'
         /\ \A v \in Workers : todo'[v].dirs # {} => pc'[v] \in {"list", "error", "dead"}
<1> USE DEF At, Goto, pool, worker, history
<1>t. /\ queue \in Seq(Dirs) /\ todo[w].dirs \subseteq Dirs
      /\ \A v \in Workers : stack[v] \in Seq(Dirs)
      /\ pc \in [Workers -> PcPlaces] /\ job \in [Workers -> Dirs]
      /\ stack \in [Workers -> Seq(Dirs)] /\ todo \in [Workers -> Todo]
  BY DEF Types, WorkTypes, Todo
<1>d. \A v \in Workers : todo[v].dirs # {} => pc[v] \in {"list", "error", "dead"}
  BY DEF Traversed
<1>k. \A x : x \in Known' <=>
        x \in opened' \/ x \in refused' \/ InSeq(x, queue')
        \/ \E v \in Workers : \/ InSeq(x, stack'[v]) \/ (pc'[v] = "open" /\ x = job'[v])
                              \/ x \in todo'[v].dirs
  <2> SUFFICES ASSUME NEW x
               PROVE  x \in Known' <=>
                        x \in opened' \/ x \in refused' \/ InSeq(x, queue')
                        \/ \E v \in Workers :
                             \/ InSeq(x, stack'[v]) \/ (pc'[v] = "open" /\ x = job'[v])
                             \/ x \in todo'[v].dirs
    OBVIOUS
  <2>1. x \in Queued' <=> InSeq(x, queue')
    BY DEF Queued, InSeq
  <2>2. x \in OnStack' <=> \E v \in Workers : InSeq(x, stack'[v])
    BY DEF OnStack, InSeq
  <2>3. x \in BeingRead' <=> \E v \in Workers : pc'[v] = "open" /\ x = job'[v]
    BY DEF BeingRead
  <2>4. x \in ToBeFound' <=> \E v \in Workers : x \in todo'[v].dirs
    BY DEF ToBeFound
  <2> QED
    BY <2>1, <2>2, <2>3, <2>4 DEF Known, Pending
<1>0. \A x : x \in Known =>
        x \in opened \/ x \in refused \/ InSeq(x, queue)
        \/ \E v \in Workers : Holds(v, x)
  BY PendingIs DEF Known
<1>s. ASSUME opened \subseteq opened', refused \subseteq refused',
             \A x : InSeq(x, queue) => x \in Known',
             \A x : Holds(w, x) => x \in Known',
             \A v \in Workers \ {w} :
               stack'[v] = stack[v] /\ pc'[v] = pc[v] /\ job'[v] = job[v]
               /\ todo'[v] = todo[v]
      PROVE  Known \subseteq Known'
  <2> SUFFICES ASSUME NEW x \in Known PROVE x \in Known'
    OBVIOUS
  <2>1. CASE x \in opened \/ x \in refused \/ InSeq(x, queue)
    BY <1>s, <1>k, <2>1
  <2>2. ASSUME NEW v \in Workers, Holds(v, x) PROVE x \in Known'
    <3>1. CASE v = w
      BY <1>s, <2>2, <3>1
    <3>2. CASE v # w
      <4>1. InSeq(x, stack'[v]) \/ (pc'[v] = "open" /\ x = job'[v]) \/ x \in todo'[v].dirs
        BY <1>s, <2>2, <3>2 DEF Holds
      <4> QED
        BY <1>k, <4>1
    <3> QED
      BY <3>1, <3>2
  <2> QED
    BY <1>0, <2>1, <2>2
<1>1. CASE CheckIdle(w) \/ Emit(w) \/ OpenFileFails(w) \/ GiveBack(w) \/ EndJob(w)
           \/ Leave(w)
  <2>1. UNCHANGED <<queue, stack, job, opened, refused>> /\ pc[w] # "open"
    BY <1>1 DEF CheckIdle, Emit, OpenFileFails, GiveBack, EndJob, Leave
  <2>2. UNCHANGED todo \/ todo' = [todo EXCEPT ![w].files = @ - 1]
    BY <1>1 DEF CheckIdle, Emit, OpenFileFails, GiveBack, EndJob, Leave
  <2>3. ASSUME NEW v \in Workers PROVE todo'[v].dirs = todo[v].dirs
    <3>1. todo[v] \in Todo
      BY <1>t
    <3>2. CASE UNCHANGED todo \/ v # w
      BY <1>t, <2>2, <3>2
    <3>3. CASE v = w /\ todo' = [todo EXCEPT ![w].files = @ - 1]
      <4>1. todo'[v] = [todo[v] EXCEPT !.files = @ - 1]
        BY <1>t, <3>3
      <4> QED
        BY <3>1, <4>1 DEF Todo
    <3> QED
      BY <2>2, <3>2, <3>3
  <2>4. UNCHANGED pc \/ \E l \in PcPlaces : pc' = [pc EXCEPT ![w] = l]
    BY <1>1 DEF PcPlaces, CheckIdle, Emit, OpenFileFails, GiveBack, EndJob, Leave
  <2>5. \A v \in Workers \ {w} : pc'[v] = pc[v] /\ todo'[v] = todo[v]
    BY <1>t, <2>2, <2>4
  <2>6. Known \subseteq Known'
    BY <1>s, <1>k, <2>1, <2>3, <2>5 DEF Holds
  <2>7. ASSUME todo[w].dirs # {} PROVE pc'[w] \in {"list", "error", "dead"}
    <3>1. pc[w] \in {"list", "error", "dead"} /\ ~EndJob(w)
      BY <1>d, <2>7 DEF EndJob, NoJob
    <3> QED
      BY <1>1, <1>t, <3>1 DEF CheckIdle, Emit, OpenFileFails, GiveBack, Leave
  <2> QED
    BY <1>d, <2>1, <2>3, <2>5, <2>6, <2>7
<1>2. CASE PopStack(w)
  <2>1. /\ pc[w] = "take" /\ stack[w] # << >> /\ pc' = [pc EXCEPT ![w] = "open"]
        /\ job' = [job EXCEPT ![w] = Head(stack[w])]
        /\ stack' = [stack EXCEPT ![w] = Tail(@)]
        /\ UNCHANGED <<queue, todo, opened, refused>>
    BY <1>2 DEF PopStack
  <2>2. \A x : InSeq(x, stack[w]) => x = Head(stack[w]) \/ InSeq(x, Tail(stack[w]))
    BY <1>t, <2>1, InSeqChanges, ConstantsAssumption DEF ConstantsAssumption
  <2>3. \A x : Holds(w, x) => x \in Known'
    BY <1>t, <1>k, <2>1, <2>2 DEF Holds
  <2>4. Known \subseteq Known'
    BY <1>t, <1>s, <1>k, <2>1, <2>3
  <2> QED
    BY <1>t, <1>d, <2>1, <2>4
<1>3. CASE TakeJob(w)
  <2>1. /\ pc[w] = "take" /\ UNCHANGED <<stack, todo, opened, refused>>
        /\ \/ pc' = [pc EXCEPT ![w] = "top"] /\ UNCHANGED <<queue, job>>
           \/ /\ queue # << >> /\ pc' = [pc EXCEPT ![w] = "open"]
              /\ job' = [job EXCEPT ![w] = Head(queue)] /\ queue' = Tail(queue)
    BY <1>3 DEF TakeJob
  <2>2. queue # << >> => \A x : InSeq(x, queue) => x = Head(queue) \/ InSeq(x, Tail(queue))
    BY <1>t, InSeqChanges, ConstantsAssumption DEF ConstantsAssumption
  <2>3. \A x : InSeq(x, queue) => x \in Known'
    BY ZenonT(30), <1>t, <1>k, <2>1, <2>2
  <2>4. \A x : Holds(w, x) => x \in Known'
    BY <1>t, <1>k, <2>1 DEF Holds
  <2>5. Known \subseteq Known'
    BY <1>t, <1>s, <2>1, <2>3, <2>4
  <2> QED
    BY <1>t, <1>d, <2>1, <2>5
<1>4. CASE OpenDir(w)
  <2>1. /\ pc[w] = "open" /\ pc' = [pc EXCEPT ![w] = "list"]
        /\ todo' = [todo EXCEPT ![w] = [dirs |-> Sub[job[w]], files |-> Files[job[w]]]]
        /\ opened' = opened \cup {job[w]} /\ UNCHANGED <<queue, stack, job, refused>>
    BY <1>4 DEF OpenDir
  <2>2. todo[w].dirs = {} /\ todo'[w].dirs = Sub[job[w]] /\ pc'[w] = "list"
    BY <1>t, <1>d, <2>1
  <2>3. \A x : Holds(w, x) => x \in Known'
    BY <1>t, <1>k, <2>1, <2>2 DEF Holds
  <2>4. Known \subseteq Known'
    BY <1>t, <1>s, <1>k, <2>1, <2>3
  <2>5. \A d \in opened' \ opened : Sub[d] \subseteq Known'
    BY <1>k, <2>1, <2>2
  <2> QED
    BY <1>t, <1>d, <2>1, <2>2, <2>4, <2>5
<1>5. CASE OpenFails(w)
  <2>1. /\ pc[w] = "open" /\ UNCHANGED <<queue, stack, job, todo, opened>>
        /\ refused' = refused \cup {job[w]}
        /\ \E l : pc' = [pc EXCEPT ![w] = l]
    BY <1>5 DEF OpenFails
  <2>2. todo[w].dirs = {}
    BY <1>d, <2>1
  <2>3. \A x : Holds(w, x) => x \in Known'
    BY <1>t, <1>k, <2>1, <2>2 DEF Holds
  <2>4. Known \subseteq Known'
    BY <1>t, <1>s, <1>k, <2>1, <2>3
  <2> QED
    BY <1>t, <1>d, <2>1, <2>2, <2>4
<1>6. CASE Discover(w)
  <2>1. PICK d \in todo[w].dirs :
           /\ pc[w] = "list" /\ todo' = [todo EXCEPT ![w].dirs = @ \ {d}]
           /\ UNCHANGED <<pc, job, opened, refused>>
           /\ \/ queue' = Append(queue, d) /\ UNCHANGED stack
              \/ stack' = [stack EXCEPT ![w] = <<d>> \o @] /\ UNCHANGED queue
    BY <1>6 DEF Discover
  <2>2. /\ todo'[w].dirs = todo[w].dirs \ {d}
        /\ \A v \in Workers \ {w} : todo'[v] = todo[v] /\ stack'[v] = stack[v]
    BY <1>t, <2>1 DEF Todo
  <2>3. \A s \in Seq(Dirs) :
          /\ \A y : InSeq(y, s) => InSeq(y, Append(s, d)) /\ InSeq(y, <<d>> \o s)
          /\ InSeq(d, Append(s, d)) /\ InSeq(d, <<d>> \o s)
    BY <1>t, <2>1, InSeqChanges
  <2>4. (\A x : InSeq(x, queue) => InSeq(x, queue'))
        /\ (\A x : InSeq(x, stack[w]) => InSeq(x, stack'[w]))
        /\ (InSeq(d, queue') \/ InSeq(d, stack'[w]))
    BY <1>t, <2>1, <2>3
  <2>5. \A x : Holds(w, x) => x \in Known'
    BY <1>k, <2>1, <2>2, <2>4 DEF Holds
  <2>6. Known \subseteq Known'
    BY <1>s, <1>k, <2>1, <2>2, <2>4, <2>5
  <2> QED
    BY <1>d, <2>1, <2>2, <2>6
<1>7. CASE Abandon(w)
  BY <1>7 DEF Abandon
<1>8. CASE Vanished(w)
  <2>1. PICK rest \in Todo :
          /\ pc[w] = "list" /\ UNCHANGED <<queue, stack, job, opened>>
          /\ \/ pc' = [pc EXCEPT ![w] = "dead"] /\ UNCHANGED <<todo, refused>>
             \/ /\ UNCHANGED pc /\ todo' = [todo EXCEPT ![w] = rest]
                /\ refused' = refused \cup (todo[w].dirs \ rest.dirs)
    <3>1. todo[w] \in Todo
      BY <1>t
    <3>2. ASSUME NEW d \in todo[w].dirs PROVE [todo[w] EXCEPT !.dirs = @ \ {d}] \in Todo
      BY <3>1 DEF Todo
    <3>3. ASSUME NEW n \in Nat PROVE [todo[w] EXCEPT !.files = n] \in Todo
      BY <3>1 DEF Todo
    <3> QED
      BY <1>8, <3>2, <3>3 DEF Vanished
  <2>2. \A x : Holds(w, x) => x \in Known'
    BY <1>t, <1>k, <2>1 DEF Holds
  <2>3. Known \subseteq Known'
    BY <1>t, <1>s, <1>k, <2>1, <2>2
  <2> QED
    BY <1>t, <1>d, <2>1, <2>3
<1> QED
  BY <1>1, <1>2, <1>3, <1>4, <1>5, <1>6, <1>7, <1>8 DEF Act, Work, Complain,
     InterruptWrite

\* Every directory that is found is queued, stacked, in hand or dealt with, and
\* the manager stops collecting only when none is left.
LEMMA TraversedNext == Counts /\ Traversed /\ [Next]_vars => Traversed'
<1> SUFFICES ASSUME Counts, Traversed, [Next]_vars, ~quitting' PROVE Traversed'
  BY DEF Traversed
<1>0. Types
  BY DEF Counts
<1>1. ASSUME NEW w \in Workers, Act(w) PROVE Traversed'
  <2>1. ~quitting /\ UNCHANGED <<quitting, mpc>>
    BY <1>1, WorkStatic
  <2>2. /\ Root \in Known /\ \A d \in opened : Sub[d] \subseteq Known
        /\ mpc \notin InLoop => NoJobs
    BY <2>1 DEF Traversed
  <2>3. mpc' \notin InLoop => NoJobs'
    BY <1>1, <2>1, <2>2, IdleStays
  <2>4. /\ Known \subseteq Known' /\ \A d \in opened' \ opened : Sub[d] \subseteq Known'
        /\ \A v \in Workers : todo'[v].dirs # {} => pc'[v] \in {"list", "error", "dead"}
    BY <1>0, <1>1, <2>1, KnownGrows
  <2> QED
    BY <2>2, <2>3, <2>4 DEF Traversed
<1>2. ASSUME Manage \/ UNCHANGED vars PROVE Traversed'
  <2>1. UNCHANGED <<queue, stack, pc, job, todo, opened, refused, running, waiting>>
    BY <1>2, ManageStill DEF vars, pool, worker, history
  <2>2. Known' = Known /\ NoJobs' = NoJobs
    BY <2>1 DEF Known, Pending, Queued, OnStack, BeingRead, ToBeFound, NoJobs
  <2>3. ~quitting
    BY <1>2 DEF Manage, BeginShutdown, CollectAndWait, BeginPass, SkipEmpty, Collect,
       EndPass, Drain, Finish, QuitManager, Mark, Remove, Create, CopyLast, Close,
       Rename, CopyPage, Kill, Publishing, vars
  <2>4. mpc' \notin InLoop => mpc \notin InLoop \/ NoJobs
    BY <1>2, <2>3 DEF Manage, Manager, BeginShutdown, CollectAndWait, BeginPass,
       SkipEmpty, Collect, EndPass, CanStop, Drain, Finish, QuitManager, Mark, Remove,
       Create, CopyLast, Close, Rename, CopyPage, Kill, loop, vars
  <2> QED
    BY <2>1, <2>2, <2>3, <2>4 DEF Traversed
<1> QED
  BY <1>1, <1>2, NextCases

\* The completion byte says Full only in a run that was not shut down.
LEMMA MarkedNext == Types /\ Names /\ Marked /\ [Next]_vars => Marked'
<1> SUFFICES ASSUME Types, Names, Marked, [Next]_vars PROVE Marked'
  OBVIOUS
<1>1. ASSUME UNCHANGED <<version, quitting, mpc, temp>> PROVE Marked'
  BY <1>1 DEF Marked
<1>2. ASSUME Manage PROVE Marked'
  <2>0. UNCHANGED version /\ temp \in File
    BY <1>2, ManageStill DEF Types, DiskTypes
  <2> USE DEF Manager, Publishing, Marked, Before
  <2>1. CASE BeginShutdown
    BY <2>0, <2>1 DEF BeginShutdown, loop, disk
  <2>2. CASE SkipEmpty \/ Kill
    BY <1>1, <2>0, <2>2 DEF SkipEmpty, Kill, loop, disk
  <2>9. CASE BeginPass
    BY <2>0, <2>9 DEF BeginPass, disk
  <2>3. CASE Collect \/ Drain
    <3>1. temp'.complete = temp.complete /\ mpc \in Before /\ quitting' = quitting
      BY <2>0, <2>3 DEF Collect, Drain, File
    <3> QED
      BY <2>0, <3>1
  <2>4. CASE EndPass
    BY <2>0, <2>4 DEF EndPass, disk
  <2>5. CASE Finish
    <3>1. temp'.complete = (IF version = "HW4" THEN temp.complete
                            ELSE IF quitting THEN Part ELSE Full)
          /\ mpc' \in {"mark", "close"} /\ quitting' = quitting /\ mpc = "wait"
      BY <2>0, <2>5 DEF Finish, File
    <3> QED
      BY <2>0, <3>1 DEF Part, Full
  <2>6. CASE Mark
    BY <2>0, <2>6 DEF Mark, Names, Copying
  <2>7. CASE Remove \/ Create \/ CopyLast \/ CopyPage
    <3>1. UNCHANGED <<temp, quitting>> /\ mpc' \in {"create", "copy", "end"}
      BY <2>7 DEF Remove, Create, CopyLast, CopyPage
    <3> QED
      BY <2>0, <2>7, <3>1 DEF Remove, Create, CopyLast, CopyPage
  <2>8. CASE Close \/ Rename
    <3>1. (temp'.complete = temp.complete \/ temp'.complete # Full)
          /\ quitting' = quitting /\ mpc' \in {"rename", "end"}
      BY <2>0, <2>8 DEF Close, Rename, File, NoFile, Start, Full
    <3> QED
      BY <2>0, <2>8, <3>1 DEF Close, Rename
  <2> QED
    BY <1>2, <2>1, <2>2, <2>3, <2>4, <2>5, <2>6, <2>7, <2>8, <2>9
    DEF Manage, CollectAndWait, QuitManager
<1> QED
  BY <1>1, <1>2, WorkStatic, NextCases DEF vars, loop, disk

\* A database that is marked fully complete is the result of a whole traversal,
\* for every tree, number of workers and queue length, but for the directories
\* that opendir or lstat failed for in a worker of HW5, and what is below them.
THEOREM CompleteInvariant == Spec => []CompleteIsListed
<1> DEFINE Inv == Counts /\ Names /\ Traversed /\ Marked
<1>1. Init => Inv
  BY TypesInit, RunCountsInit, WaitCountsInit, NamesInit, TraversedInit DEF Counts
<1>2. Inv /\ [Next]_vars => Inv'
  BY TypesNext, RunCountsNext, WaitCountsNext, NamesNext, TraversedNext, MarkedNext
  DEF Counts
<1>3. Inv => CompleteIsListed
  <2> SUFFICES ASSUME Inv, temp.complete = Full
               PROVE  /\ Pending = {} /\ Dead = {} /\ Root \in opened \cup refused
                      /\ \A d \in opened : Sub[d] \subseteq opened \cup refused
    BY DEF CompleteIsListed
  <2>1. ~quitting /\ NoJobs
    BY DEF Marked, Before, Traversed
  <2>2. /\ queue = << >> /\ \A w \in Workers : stack[w] = << >>
        /\ \A w \in Workers : pc[w] \notin Claimed
    BY <2>1, NothingLeft
  <2>3. \A w \in Workers : todo[w].dirs = {} /\ pc[w] # "open" /\ pc[w] # "dead"
    BY <2>1, <2>2 DEF Traversed, Claimed
  <2>4. \A x : ~InSeq(x, << >>)
    BY DEF InSeq
  <2>5. Pending = {}
    BY <2>2, <2>3, <2>4, PendingIs DEF Holds
  <2> QED
    BY <2>1, <2>3, <2>5 DEF Traversed, Known, Dead
<1> QED
  BY <1>1, <1>2, <1>3, PTL DEF Spec

-----------------------------------------------------------------------------
(* Layer 5.  Every record is accounted for.                                  *)

\* The files a worker has a number of: those it has emitted, or those of them
\* that no record of the database stands for yet.
FilePairs(f) == UNION {{w} \X (1..f[w]) : w \in Workers}

LEMMA FilePairsIs ==
  ASSUME NEW f
  PROVE  \A x : x \in FilePairs(f) <=> \E w \in Workers : \E i \in 1..f[w] : x = <<w, i>>
  BY DEF FilePairs

\* The n numbers that follow a.
LEMMA IntervalSize ==
  ASSUME NEW a \in Nat, NEW n \in Nat
  PROVE  IsFiniteSet((a + 1)..(a + n)) /\ Cardinality((a + 1)..(a + n)) = n
<1> DEFINE b == a + 1
           c == a + n
<1>1. b \in Int /\ c \in Int /\ n = IF b > c THEN 0 ELSE c - b + 1
  OBVIOUS
<1> HIDE DEF b, c
<1>2. IsFiniteSet(b..c) /\ Cardinality(b..c) = IF b > c THEN 0 ELSE c - b + 1
  BY <1>1, FS_Interval
<1> QED
  BY <1>1, <1>2 DEF b, c

\* n files more of one worker are n files more.
LEMMA FilePairsGrow ==
  ASSUME NEW f \in [Workers -> Nat], NEW w \in Workers, NEW n \in Nat,
         NEW g \in [Workers -> Nat], g[w] = f[w] + n,
         \A v \in Workers \ {w} : g[v] = f[v],
         IsFiniteSet(FilePairs(f))
  PROVE  /\ IsFiniteSet(FilePairs(g))
         /\ Cardinality(FilePairs(f)) \in Nat
         /\ Cardinality(FilePairs(g)) = Cardinality(FilePairs(f)) + n
<1> DEFINE More == {w} \X ((f[w] + 1)..(f[w] + n))
<1>1. /\ g[w] = f[w] + n /\ f[w] \in Nat /\ g[w] \in Nat
      /\ \A v \in Workers \ {w} : g[v] = f[v]
  OBVIOUS
<1>2. \A x : x \in More <=> \E i \in (f[w] + 1)..(f[w] + n) : x = <<w, i>>
  OBVIOUS
<1>3. FilePairs(g) = FilePairs(f) \cup More
  <2>i. \A x : x \in FilePairs(g) <=> \E v \in Workers : \E i \in 1..g[v] : x = <<v, i>>
    BY FilePairsIs
  <2>1. ASSUME NEW x \in FilePairs(g) PROVE x \in FilePairs(f) \cup More
    <3>1. PICK v \in Workers : \E i \in 1..g[v] : x = <<v, i>>
      BY <2>1, <2>i
    <3>2. PICK i \in 1..g[v] : x = <<v, i>>
      BY <3>1
    <3>3. CASE v # w
      BY <1>1, <3>2, <3>3, FilePairsIs
    <3>4. CASE v = w
      <4>1. i \in 1..f[w] \/ i \in (f[w] + 1)..(f[w] + n)
        BY <1>1, <3>2, <3>4
      <4> QED
        BY <1>2, <3>2, <3>4, <4>1, FilePairsIs
    <3> QED
      BY <3>3, <3>4
  <2>2. ASSUME NEW x \in FilePairs(f) PROVE x \in FilePairs(g)
    <3>1. PICK v \in Workers : \E i \in 1..f[v] : x = <<v, i>>
      BY <2>2, FilePairsIs
    <3>2. PICK i \in 1..f[v] : x = <<v, i>>
      BY <3>1
    <3>3. i \in 1..g[v]
      BY <1>1, <3>2
    <3> QED
      BY <3>2, <3>3, FilePairsIs
  <2>3. ASSUME NEW x \in More PROVE x \in FilePairs(g)
    <3>1. PICK i \in (f[w] + 1)..(f[w] + n) : x = <<w, i>>
      BY <1>2, <2>3
    <3>2. i \in 1..g[w]
      BY <1>1, <3>1
    <3> QED
      BY <3>1, <3>2, FilePairsIs
  <2> QED
    BY <2>1, <2>2, <2>3
<1>4. FilePairs(f) \cap More = {}
  <2> SUFFICES ASSUME NEW x \in FilePairs(f), x \in More PROVE FALSE
    OBVIOUS
  <2>1. PICK i \in (f[w] + 1)..(f[w] + n) : x = <<w, i>>
    BY <1>2
  <2>2. PICK v \in Workers : \E j \in 1..f[v] : x = <<v, j>>
    BY FilePairsIs
  <2>3. i \in 1..f[w]
    BY <2>1, <2>2
  <2> QED
    BY <1>1, <2>1, <2>3
<1>5. IsFiniteSet(More) /\ Cardinality(More) = n
  <2>1. /\ IsFiniteSet((f[w] + 1)..(f[w] + n))
        /\ Cardinality((f[w] + 1)..(f[w] + n)) = n
    BY <1>1, IntervalSize
  <2>2. IsFiniteSet({w}) /\ Cardinality({w}) = 1
    BY FS_Singleton
  <2>3. Cardinality(More) = 1 * n /\ IsFiniteSet(More)
    <3> DEFINE I == (f[w] + 1)..(f[w] + n)
    <3>1. IsFiniteSet(I) /\ Cardinality(I) = n
      BY <2>1
    <3> HIDE DEF I
    <3>2. IsFiniteSet({w} \X I) /\ Cardinality({w} \X I) = 1 * n
      BY <2>2, <3>1, FS_Product
    <3> QED
      BY <3>2 DEF I
  <2> QED
    BY <2>3
<1> HIDE DEF More
<1>6. IsFiniteSet(FilePairs(g))
  BY <1>3, <1>5, FS_Union
<1>7. Cardinality(FilePairs(g)) = Cardinality(FilePairs(f)) + Cardinality(More)
                                   - Cardinality({})
  BY <1>3, <1>4, <1>5, FS_Union
<1> QED
  BY <1>5, <1>6, <1>7, FS_EmptySet, FS_CardinalityType

\* Files that no record stands for are finitely many: a ring is bounded.
LEMMA FilePairsFinite ==
  ASSUME NEW u \in [Workers -> 0..RingLen]
  PROVE  IsFiniteSet(FilePairs(u)) /\ Cardinality(FilePairs(u)) \in Nat
<1>1. IsFiniteSet(Workers) /\ IsFiniteSet(1..RingLen)
  BY FS_Interval, ConstantsAssumption DEF Workers, ConstantsAssumption
<1>2. IsFiniteSet(Workers \X (1..RingLen))
  BY <1>1, FS_Product
<1>3. FilePairs(u) \subseteq Workers \X (1..RingLen)
  <2> SUFFICES ASSUME NEW x \in FilePairs(u) PROVE x \in Workers \X (1..RingLen)
    OBVIOUS
  <2>1. PICK v \in Workers : \E i \in 1..u[v] : x = <<v, i>>
    BY FilePairsIs
  <2>2. PICK i \in 1..u[v] : x = <<v, i>>
    BY <2>1
  <2>3. u[v] \in 0..RingLen /\ RingLen \in Nat
    BY ConstantsAssumption DEF ConstantsAssumption
  <2>4. i \in 1..RingLen
    BY <2>2, <2>3
  <2> QED
    BY <2>2, <2>4
<1> QED
  BY <1>2, <1>3, FS_Subset, FS_CardinalityType

\* Remainders of numbers below twice the length of a ring.
LEMMA SmallMod ==
  ASSUME NEW a \in Nat, a < 2 * RingLen
  PROVE  a % RingLen = IF a < RingLen THEN a ELSE a - RingLen
<1>r. RingLen \in Nat /\ RingLen > 0
  BY ConstantsAssumption DEF ConstantsAssumption
<1> DEFINE q == a \div RingLen
           r == a % RingLen
<1>1. a = RingLen * q + r /\ q \in Int /\ r \in 0..(RingLen - 1)
  BY <1>r
<1> HIDE DEF q, r
<1>2. CASE q <= -1
  <2>1. RingLen * q <= -RingLen
    BY <1>r, <1>1, <1>2
  <2> QED
    BY <1>r, <1>1, <2>1
<1>3. CASE q >= 2
  <2>1. RingLen * q >= 2 * RingLen
    BY <1>r, <1>1, <1>3
  <2> QED
    BY <1>r, <1>1, <2>1
<1>4. CASE q = 0
  BY <1>r, <1>1, <1>4 DEF r
<1>5. CASE q = 1
  BY <1>r, <1>1, <1>5 DEF r
<1> QED
  BY <1>1, <1>2, <1>3, <1>4, <1>5

\* The records between tail and head of a ring, as Drain counts them.
Gap(w) == (chan[w].head + RingLen - chan[w].tail) % RingLen

\* Nobody works any more once the manager has left its loop.
Settled == mpc \notin InLoop => IF quitting THEN Reaped ELSE NoJobs

\* The tokens of a channel add up, and a worker that is done is gone.
ChanCounts ==
  \A w \in Workers : /\ ~chan[w].odd => chan[w].writeSem + chan[w].readSem = RingLen
                     /\ pc[w] = "error" => chan[w].odd
                     /\ chan[w].done => pc[w] = "gone"

Drained(w) == mpc \notin InLoop \cup {"drain"} \/ (mpc = "drain" /\ w < next)

\* With u[w] files of each worker that no record stands for, the account is
\* even.  The ring shows u[w] up to the length of the ring; while the worker is
\* at work the read semaphore shows it exactly.
Tally(u) ==
  /\ Result.records + Cardinality(FilePairs(u)) = Emitted
  /\ \A w \in Workers :
       /\ u[w] % RingLen = Gap(w)
       /\ mpc \in InLoop /\ ~chan[w].done => u[w] = chan[w].readSem
       /\ Drained(w) => chan[w].head = chan[w].tail

EmittedBy == [w \in Workers |-> chan[w].emitted]
NoneOdd   == \A w \in Workers : ~chan[w].odd

Tallied ==
  /\ IsFiniteSet(FilePairs(EmittedBy))
  /\ NoneOdd => \E u \in [Workers -> 0..RingLen] : Tally(u)

LEMMA EmittedIs == Emitted = Cardinality(FilePairs(EmittedBy))
<1>1. FilePairs(EmittedBy) = UNION {{w} \X (1..chan[w].emitted) : w \in Workers}
  BY DEF FilePairs, EmittedBy
<1> QED
  BY <1>1 DEF Emitted

LEMMA AccountInit == Init => Settled /\ ChanCounts /\ Tallied
<1> SUFFICES ASSUME Init PROVE Settled /\ ChanCounts /\ Tallied
  OBVIOUS
<1>r. RingLen \in Nat \ {0, 1}
  BY ConstantsAssumption DEF ConstantsAssumption
<1>1. Settled /\ ChanCounts
  BY <1>r DEF Init, Settled, ChanCounts
<1> DEFINE zero == [w \in Workers |-> 0]
<1>2. FilePairs(zero) = {}
  BY DEF FilePairs
<1>3. EmittedBy = zero /\ zero \in [Workers -> 0..RingLen]
  BY <1>r DEF Init, EmittedBy
<1>4. Tally(zero)
  <2>1. Result.records = 0 /\ Emitted = 0 /\ Cardinality(FilePairs(zero)) = 0
    BY <1>2, <1>3, EmittedIs, FS_EmptySet DEF Init, Result, Fresh, NoFile
  <2>2. \A w \in Workers : Gap(w) = 0 /\ 0 % RingLen = 0
    BY <1>r, SmallMod DEF Init, Gap
  <2> HIDE DEF zero
  <2>3. \A w \in Workers : zero[w] = 0
    BY DEF zero
  <2> QED
    BY <2>1, <2>2, <2>3 DEF Init, Tally, Drained
<1> QED
  BY <1>1, <1>2, <1>3, <1>4, FS_EmptySet DEF Tallied

\* A worker with a job in hand finds the manager in its loop.
LEMMA HandMeansPass ==
  ASSUME Counts, Settled, NEW w \in Workers, pc[w] \in InHand PROVE mpc \in InLoop
<1> SUFFICES ASSUME mpc \notin InLoop PROVE FALSE
  OBVIOUS
<1>1. CASE quitting
  BY <1>1 DEF Settled, Reaped, InHand
<1>2. CASE ~quitting
  BY <1>2, NothingLeft DEF Settled, InHand, Claimed
<1> QED
  BY <1>1, <1>2

LEMMA SettledNext == Counts /\ Settled /\ [Next]_vars => Settled'
<1> SUFFICES ASSUME Counts, Settled, [Next]_vars, mpc' \notin InLoop
             PROVE  IF quitting' THEN Reaped' ELSE NoJobs'
  BY DEF Settled
<1>1. ASSUME NEW w \in Workers, Act(w) PROVE IF quitting' THEN Reaped' ELSE NoJobs'
  <2>1. UNCHANGED <<quitting, mpc>>
    BY <1>1, WorkStatic
  <2>2. CASE quitting
    <3>1. pc[w] \in {"gone", "dead"}
      BY <2>1, <2>2 DEF Settled, Reaped
    <3> QED
      BY <1>1, <3>1 DEF Act, Work, At, CheckIdle, PopStack, TakeJob, OpenDir, OpenFails,
         Discover, Emit, Vanished, OpenFileFails, Complain, InterruptWrite, GiveBack,
         EndJob, Abandon, Leave
  <2>3. CASE ~quitting
    BY <1>1, <2>1, <2>3, IdleStays DEF Settled
  <2> QED
    BY <2>2, <2>3
<1>2. ASSUME Manage \/ UNCHANGED vars PROVE IF quitting' THEN Reaped' ELSE NoJobs'
  <2>1. UNCHANGED <<pc, running, waiting>>
    BY <1>2, ManageStill DEF vars, pool, worker
  <2>2. Reaped' = Reaped /\ NoJobs' = NoJobs
    BY <2>1 DEF Reaped, NoJobs
  <2>3. \/ mpc \notin InLoop /\ quitting' = quitting
        \/ CanStop /\ quitting' = quitting
    BY <1>2 DEF Manage, Manager, BeginShutdown, CollectAndWait, BeginPass, SkipEmpty,
       Collect, EndPass, Drain, Finish, QuitManager, Mark, Remove, Create, CopyLast,
       Close, Rename, CopyPage, Kill, Publishing, loop, vars
  <2>4. quitting \in BOOLEAN
    BY DEF Counts, Types, LoopTypes
  <2> QED
    BY <2>2, <2>3, <2>4 DEF Settled, CanStop
<1> QED
  BY <1>1, <1>2, NextCases

\* A ring with its head at h and its tail at t that holds u records, or is full
\* and looks empty: what one record more, one less, and draining it do.
LEMMA RingMoves ==
  ASSUME NEW h \in 0..(RingLen - 1), NEW t \in 0..(RingLen - 1),
         NEW u \in 0..RingLen, u % RingLen = (h + RingLen - t) % RingLen
  PROVE  /\ u < RingLen =>
              (u + 1) % RingLen = (((h + 1) % RingLen) + RingLen - t) % RingLen
         /\ u > 0 =>
              (u - 1) % RingLen = (h + RingLen - ((t + 1) % RingLen)) % RingLen
         /\ u - ((h + RingLen - t) % RingLen) \in {0, RingLen}
<1>r. RingLen \in Nat /\ RingLen > 1
  BY ConstantsAssumption DEF ConstantsAssumption
<1> DEFINE m(a) == a % RingLen
<1>s. \A a \in Nat : a < 2 * RingLen => m(a) = IF a < RingLen THEN a ELSE a - RingLen
  BY SmallMod
<1>e. m(u) = m(h + RingLen - t)
  OBVIOUS
<1> HIDE DEF m
<1>g. \A a, b \in 0..(RingLen - 1) :
        m(a + RingLen - b) = IF a >= b THEN a - b ELSE a + RingLen - b
  <2> TAKE a, b \in 0..(RingLen - 1)
  <2>1. PICK x \in Nat : x = a + RingLen - b /\ x < 2 * RingLen
    BY <1>r
  <2>2. m(x) = IF x < RingLen THEN x ELSE x - RingLen
    BY <1>s, <2>1
  <2> QED
    BY <1>r, <2>1, <2>2
<1>n. \A a \in 0..(RingLen - 1) : m(a + 1) = IF a + 1 < RingLen THEN a + 1 ELSE 0
  <2> TAKE a \in 0..(RingLen - 1)
  <2>1. PICK x \in Nat : x = a + 1 /\ x < 2 * RingLen
    BY <1>r
  <2>2. m(x) = IF x < RingLen THEN x ELSE x - RingLen
    BY <1>s, <2>1
  <2> QED
    BY <1>r, <2>1, <2>2
<1>u. \A a \in 0..RingLen : m(a) = IF a < RingLen THEN a ELSE 0
  BY <1>r, <1>s
<1>1. IF u < RingLen THEN u = (IF h >= t THEN h - t ELSE h + RingLen - t) ELSE h = t
  <2>1. m(u) = IF h >= t THEN h - t ELSE h + RingLen - t
    BY <1>e, <1>g
  <2>2. m(u) = IF u < RingLen THEN u ELSE 0
    BY <1>u
  <2> QED
    BY <1>r, <2>1, <2>2
<1>2. ASSUME u < RingLen PROVE m(u + 1) = m(m(h + 1) + RingLen - t)
  <2>1. PICK x \in 0..(RingLen - 1) : x = m(h + 1)
    BY <1>r, <1>n
  <2>2. m(x + RingLen - t) = IF x >= t THEN x - t ELSE x + RingLen - t
    BY <1>g
  <2>3. PICK y \in 0..RingLen : y = u + 1
    BY <1>r, <1>2
  <2>4. m(y) = IF y < RingLen THEN y ELSE 0
    BY <1>u
  <2>5. x = IF h + 1 < RingLen THEN h + 1 ELSE 0
    BY <1>n, <2>1
  <2>6. m(y) = m(x + RingLen - t)
    BY <1>r, <1>1, <1>2, <2>2, <2>3, <2>4, <2>5
  <2> QED
    BY <2>1, <2>3, <2>6
<1>3. ASSUME u > 0 PROVE m(u - 1) = m(h + RingLen - m(t + 1))
  <2>1. PICK x \in 0..(RingLen - 1) : x = m(t + 1)
    BY <1>r, <1>n
  <2>2. m(h + RingLen - x) = IF h >= x THEN h - x ELSE h + RingLen - x
    BY <1>g
  <2>3. PICK y \in 0..RingLen : y = u - 1
    BY <1>r, <1>3
  <2>4. m(y) = IF y < RingLen THEN y ELSE 0
    BY <1>u
  <2>5. x = IF t + 1 < RingLen THEN t + 1 ELSE 0
    BY <1>n, <2>1
  <2>6. m(y) = m(h + RingLen - x)
    BY <1>r, <1>1, <1>3, <2>2, <2>3, <2>4, <2>5
  <2> QED
    BY <2>1, <2>3, <2>6
<1>4. u - m(h + RingLen - t) \in {0, RingLen}
  <2>1. PICK y \in Int : y = m(h + RingLen - t)
                         /\ y = IF h >= t THEN h - t ELSE h + RingLen - t
    BY <1>r, <1>g
  <2> QED
    BY <1>r, <1>1, <2>1
<1>5. /\ u < RingLen => m(u + 1) = m(m(h + 1) + RingLen - t)
      /\ u > 0 => m(u - 1) = m(h + RingLen - m(t + 1))
      /\ u - m(h + RingLen - t) \in {0, RingLen}
  BY <1>2, <1>3, <1>4
<1> QED
  BY <1>5 DEF m

\* The channel of w after a step of w.
LEMMA ChanCountsNext ==
  Types /\ ChanCounts /\ [Next]_vars => ChanCounts'
<1> SUFFICES ASSUME Types, ChanCounts, [Next]_vars PROVE ChanCounts'
  OBVIOUS
<1>c. \A w \in Workers : chan[w] \in ChanType
  BY DEF Types, ChanTypes
<1>1. ASSUME NEW w \in Workers, Act(w) PROVE ChanCounts'
  <2>1. /\ \A v \in Workers \ {w} : chan'[v] = chan[v] /\ pc'[v] = pc[v]
        /\ pc[w] \notin {"gone", "dead"} /\ (pc'[w] = "error" => OpenFileFails(w))
    BY <1>1 DEF Act, Work, At, Goto, CheckIdle, PopStack, TakeJob, OpenDir, OpenFails,
       Discover, Emit, Vanished, OpenFileFails, Complain, InterruptWrite, GiveBack,
       EndJob, Abandon, Leave, Types, WorkTypes, ChanTypes, worker
  <2>2. ~chan[w].done
    BY <2>1 DEF ChanCounts
  <2>o. pc'[w] = "error" => chan'[w].odd
    BY <1>c, <2>1 DEF OpenFileFails, Types, ChanTypes, ChanType
  <2>3. CASE Emit(w)
    <3>1. chan'[w] = [chan[w] EXCEPT !.writeSem = @ - 1, !.readSem = @ + 1,
                         !.head = (@ + 1) % RingLen, !.emitted = @ + 1]
      BY <2>3 DEF Emit, Types, ChanTypes
    <3>2. /\ chan'[w].writeSem + chan'[w].readSem = chan[w].writeSem + chan[w].readSem
          /\ chan'[w].done = chan[w].done /\ chan'[w].odd = chan[w].odd
      BY <1>c, <3>1 DEF ChanType
    <3> QED
      BY <2>1, <2>2, <2>o, <3>2 DEF ChanCounts
  <2>4. CASE OpenFileFails(w)
    <3>1. chan'[w].odd /\ ~chan'[w].done
      BY <1>c, <2>2, <2>4 DEF OpenFileFails, Types, ChanTypes, ChanType
    <3> QED
      BY <2>1, <3>1 DEF ChanCounts
  <2>5. CASE Leave(w)
    <3>1. /\ chan'[w] = [chan[w] EXCEPT !.done = TRUE] \/ chan'[w] = chan[w]
          /\ pc'[w] = "gone"
      BY <2>5 DEF Leave, Goto, Types, ChanTypes, WorkTypes
    <3>2. /\ chan'[w].writeSem = chan[w].writeSem /\ chan'[w].readSem = chan[w].readSem
          /\ chan'[w].odd = chan[w].odd
      BY <1>c, <3>1 DEF ChanType
    <3>3. pc'[w] = "gone"
      BY <3>1
    <3> QED
      BY <2>1, <3>2, <3>3 DEF ChanCounts
  <2>6. CASE UNCHANGED chan
    BY <2>1, <2>2, <2>o, <2>6 DEF ChanCounts
  <2>7. CASE GiveBack(w)
    <3>1. pc[w] = "error" /\ chan'[w] = [chan[w] EXCEPT !.sem = 1, !.writeSem = @ + 1]
      BY <2>7 DEF GiveBack, At, Types, ChanTypes
    <3>2. chan'[w].odd = chan[w].odd /\ ~chan'[w].done /\ chan[w].odd
      BY <1>c, <2>2, <3>1 DEF ChanType, ChanCounts
    <3> QED
      BY <2>1, <3>2 DEF ChanCounts
  <2> QED
    BY <1>1, <2>3, <2>4, <2>5, <2>6, <2>7 DEF Act, Work, Complain, InterruptWrite,
       CheckIdle, PopStack, TakeJob, OpenDir, OpenFails, Discover, Vanished, EndJob,
       Abandon
<1>2. ASSUME Manage \/ UNCHANGED vars PROVE ChanCounts'
  <2>1. UNCHANGED pc
    BY <1>2, ManageStill DEF vars, worker
  <2>2. CASE Collect
    <3>1. next \in Workers /\ chan[next].readSem > 0
      BY <2>2 DEF Collect
    <3>2. /\ \A v \in Workers \ {next} : chan'[v] = chan[v]
          /\ chan'[next].readSem = chan[next].readSem - 1
          /\ chan'[next].writeSem = chan[next].writeSem + 1
          /\ chan'[next].done = chan[next].done /\ chan'[next].odd = chan[next].odd
      BY <1>c, <2>2, <3>1 DEF Collect, Types, ChanTypes, ChanType
    <3>3. \A v \in Workers : chan[v].readSem \in Nat /\ chan[v].writeSem \in Nat
      BY <1>c DEF ChanType
    <3> QED
      BY <2>1, <3>1, <3>2, <3>3 DEF ChanCounts
  <2>3. CASE Drain
    <3>1. \A v \in Workers : /\ chan'[v].readSem = chan[v].readSem
                             /\ chan'[v].writeSem = chan[v].writeSem
                             /\ chan'[v].done = chan[v].done /\ chan'[v].odd = chan[v].odd
      BY <1>c, <2>3 DEF Drain, Types, ChanTypes, ChanType
    <3> QED
      BY <2>1, <3>1 DEF ChanCounts
  <2>4. CASE UNCHANGED chan
    BY <2>1, <2>4 DEF ChanCounts
  <2> QED
    BY <1>2, <2>2, <2>3, <2>4 DEF Manage, BeginShutdown, CollectAndWait, BeginPass,
       SkipEmpty, EndPass, Finish, QuitManager, Mark, Remove, Create, CopyLast, Close,
       Rename, CopyPage, Kill, Publishing, vars
<1> QED
  BY <1>1, <1>2, NextCases

\* Steps that emit, store and drain nothing.
LEMMA TallyKept ==
  ASSUME Tallied, NoneOdd' => NoneOdd,
         Result'.records = Result.records, EmittedBy' = EmittedBy,
         mpc' \in InLoop => mpc \in InLoop,
         \A w \in Workers :
           /\ chan'[w].head = chan[w].head /\ chan'[w].tail = chan[w].tail
           /\ ~chan'[w].done => ~chan[w].done /\ chan'[w].readSem = chan[w].readSem
           /\ Drained(w)' => Drained(w)
  PROVE  Tallied'
<1>1. IsFiniteSet(FilePairs(EmittedBy)')
  BY DEF Tallied, FilePairs
<1>2. ASSUME NoneOdd' PROVE \E u \in [Workers -> 0..RingLen] : Tally(u)'
  <2>1. PICK u \in [Workers -> 0..RingLen] : Tally(u)
    BY <1>2 DEF Tallied
  <2>2. Emitted' = Emitted
    <3>1. Emitted' = Cardinality(UNION {{w} \X (1..EmittedBy'[w]) : w \in Workers})
      BY DEF Emitted, EmittedBy
    <3>2. Emitted = Cardinality(UNION {{w} \X (1..EmittedBy[w]) : w \in Workers})
      BY DEF Emitted, EmittedBy
    <3> QED
      BY <3>1, <3>2
  <2>3. \A w \in Workers : Gap(w)' = Gap(w)
    BY DEF Gap
  <2>4. Tally(u)'
    BY <2>1, <2>2, <2>3 DEF Tally, FilePairs
  <2> QED
    BY <2>4
<1> QED
  BY <1>1, <1>2 DEF Tallied

\* A worker emits while the manager is in its loop: one file more is emitted,
\* and one more has no record yet.
LEMMA TallyEmit ==
  ASSUME Counts, Settled, ChanCounts, Tallied, NEW w \in Workers, Emit(w)
  PROVE  Tallied'
<1>r. RingLen \in Nat /\ RingLen > 1
  BY ConstantsAssumption DEF ConstantsAssumption
<1>c. \A v \in Workers : chan[v] \in ChanType
  BY DEF Counts, Types, ChanTypes
<1>1. /\ mpc \in InLoop /\ mpc' \in InLoop /\ ~chan[w].done
      /\ chan[w].writeSem > 0 /\ UNCHANGED <<temp, final>>
  <2>1. pc[w] = "list" /\ chan[w].writeSem > 0
    BY DEF Emit, At
  <2>2. ~chan[w].done
    BY <2>1 DEF ChanCounts
  <2>3. mpc \in InLoop
    BY <2>1, HandMeansPass DEF InHand
  <2> QED
    BY <2>1, <2>2, <2>3, WorkStatic DEF Act, Work
<1>2. chan'[w] = [chan[w] EXCEPT !.writeSem = @ - 1, !.readSem = @ + 1,
                                 !.head = (@ + 1) % RingLen, !.emitted = @ + 1]
      /\ \A v \in Workers \ {w} : chan'[v] = chan[v]
  BY DEF Emit, Counts, Types, ChanTypes
<1>3. /\ chan'[w].head = (chan[w].head + 1) % RingLen /\ chan'[w].tail = chan[w].tail
      /\ chan'[w].readSem = chan[w].readSem + 1 /\ chan'[w].done = chan[w].done
      /\ chan'[w].odd = chan[w].odd /\ chan'[w].emitted = chan[w].emitted + 1
  BY <1>c, <1>2 DEF ChanType
<1>4. PICK e \in [Workers -> Nat], f \in [Workers -> Nat] :
        /\ e = EmittedBy /\ f = EmittedBy'
        /\ f[w] = e[w] + 1 /\ \A v \in Workers \ {w} : f[v] = e[v]
  <2>1. /\ \A v \in Workers : chan[v].emitted \in Nat
        /\ \A v \in Workers \ {w} : chan'[v].emitted = chan[v].emitted
        /\ chan'[w].emitted = chan[w].emitted + 1
    BY <1>c, <1>2, <1>3 DEF ChanType
  <2>2. EmittedBy \in [Workers -> Nat] /\ EmittedBy' \in [Workers -> Nat]
    BY <2>1 DEF EmittedBy
  <2>3. /\ EmittedBy'[w] = EmittedBy[w] + 1
        /\ \A v \in Workers \ {w} : EmittedBy'[v] = EmittedBy[v]
    BY <2>1 DEF EmittedBy
  <2> QED
    BY <2>2, <2>3
<1>5. /\ IsFiniteSet(FilePairs(f))
      /\ Cardinality(FilePairs(f)) = Cardinality(FilePairs(e)) + 1
      /\ Cardinality(FilePairs(e)) \in Nat
  <2>1. IsFiniteSet(FilePairs(e))
    BY <1>4 DEF Tallied
  <2> QED
    BY <1>4, <2>1, FilePairsGrow
<1>6. /\ IsFiniteSet(FilePairs(EmittedBy)')
      /\ Emitted' = Emitted + 1 /\ Emitted \in Nat
  <2>1. FilePairs(EmittedBy)' = FilePairs(f)
    BY <1>4 DEF FilePairs
  <2>2. Emitted = Cardinality(FilePairs(e))
    BY <1>4, EmittedIs
  <2>3. Emitted' = Cardinality(FilePairs(f))
    <3>1. FilePairs(f) = UNION {{v} \X (1..chan'[v].emitted) : v \in Workers}
      BY <1>4 DEF FilePairs, EmittedBy
    <3> QED
      BY <3>1 DEF Emitted
  <2> QED
    BY <1>5, <2>1, <2>2, <2>3
<1>7. ASSUME NoneOdd' PROVE \E u \in [Workers -> 0..RingLen] : Tally(u)'
  <2>1. NoneOdd
    BY <1>2, <1>3, <1>7 DEF NoneOdd
  <2>2. PICK u \in [Workers -> 0..RingLen] : Tally(u)
    BY <2>1 DEF Tallied
  <2>3. u[w] = chan[w].readSem /\ u[w] < RingLen /\ u[w] \in 0..RingLen
    <3>1. chan[w].writeSem + chan[w].readSem = RingLen
      BY <2>1 DEF ChanCounts, NoneOdd
    <3>2. u[w] = chan[w].readSem /\ chan[w].writeSem \in Nat /\ chan[w].readSem \in Nat
      BY <1>1, <1>c, <2>2 DEF Tally, ChanType
    <3> QED
      BY <1>1, <1>r, <3>1, <3>2
  <2>0. PICK v : v = [u EXCEPT ![w] = u[w] + 1]
    OBVIOUS
  <2>4. /\ v \in [Workers -> 0..RingLen] /\ v \in [Workers -> Nat]
        /\ u \in [Workers -> Nat] /\ v[w] = u[w] + 1
        /\ \A x \in Workers \ {w} : v[x] = u[x]
    BY <1>r, <2>0, <2>3
  <2>5. /\ Cardinality(FilePairs(v)) = Cardinality(FilePairs(u)) + 1
        /\ Cardinality(FilePairs(u)) \in Nat
    <3>1. IsFiniteSet(FilePairs(u)) /\ 1 \in Nat
      BY FilePairsFinite
    <3> QED
      BY <2>4, <3>1, FilePairsGrow
  <2>6. Result'.records + Cardinality(FilePairs(v)) = Emitted'
    <3>1. Result' = Result /\ Result.records \in Nat
      BY <1>1 DEF Result, Counts, Types, DiskTypes, File
    <3> QED
      BY <1>6, <2>2, <2>5, <3>1 DEF Tally
  <2>7. \A x \in Workers :
          /\ v[x] % RingLen = Gap(x)'
          /\ ~chan'[x].done => v[x] = chan'[x].readSem
    <3> TAKE x \in Workers
    <3>1. u[x] % RingLen = Gap(x) /\ (~chan[x].done => u[x] = chan[x].readSem)
      BY <1>1, <2>2 DEF Tally
    <3>2. CASE x # w
      BY <1>2, <2>4, <3>1, <3>2 DEF Gap
    <3>3. CASE x = w
      <4>1. /\ chan[w].head \in 0..(RingLen - 1) /\ chan[w].tail \in 0..(RingLen - 1)
            /\ u[w] % RingLen = (chan[w].head + RingLen - chan[w].tail) % RingLen
        BY <1>c, <3>1, <3>3 DEF ChanType, Gap
      <4>2. (u[w] + 1) % RingLen
              = (((chan[w].head + 1) % RingLen) + RingLen - chan[w].tail) % RingLen
        BY <2>3, <4>1, RingMoves
      <4> QED
        BY <1>3, <2>3, <2>4, <3>3, <4>2 DEF Gap
    <3> QED
      BY <3>2, <3>3
  <2>8. \A x \in Workers : ~Drained(x)'
    BY <1>1 DEF Drained
  <2>9. Tally(v)'
    <3>1. FilePairs(v)' = FilePairs(v)
      BY DEF FilePairs
    <3> QED
      BY <2>6, <2>7, <2>8, <3>1 DEF Tally
  <2> QED
    BY <2>4, <2>9
<1> QED
  BY <1>6, <1>7 DEF Tallied

\* What is emitted is so whatever the manager does with the channels.
LEMMA EmittedStays ==
  ASSUME Tallied, \A x \in Workers : chan'[x].emitted = chan[x].emitted
  PROVE  /\ EmittedBy' = EmittedBy /\ Emitted' = Emitted
         /\ IsFiniteSet(FilePairs(EmittedBy)')
<1>1. EmittedBy' = EmittedBy
  BY DEF EmittedBy
<1>2. Emitted' = Emitted
  BY DEF Emitted
<1>3. FilePairs(EmittedBy)' = FilePairs(EmittedBy)
  BY <1>1 DEF FilePairs
<1> QED
  BY <1>1, <1>2, <1>3 DEF Tallied

\* A ring that is read leaves fewer files without a record: the account stays
\* even if the records are more by as many.
LEMMA TallyLess ==
  ASSUME Types, Tallied, NEW u \in [Workers -> 0..RingLen], Tally(u),
         NEW w \in Workers, NEW k \in 0..RingLen, k <= u[w],
         Result'.records = Result.records + k,
         Emitted' = Emitted
  PROVE  \E v \in [Workers -> 0..RingLen] :
           /\ v[w] = u[w] - k /\ \A x \in Workers \ {w} : v[x] = u[x]
           /\ Result'.records + Cardinality(FilePairs(v)) = Emitted'
<1>r. RingLen \in Nat /\ RingLen > 1
  BY ConstantsAssumption DEF ConstantsAssumption
<1>1. PICK v : v = [u EXCEPT ![w] = u[w] - k]
  OBVIOUS
<1>2. /\ v \in [Workers -> 0..RingLen] /\ v[w] = u[w] - k
      /\ \A x \in Workers \ {w} : v[x] = u[x]
  BY <1>r, <1>1
<1>3. /\ v \in [Workers -> Nat] /\ u \in [Workers -> Nat] /\ k \in Nat
      /\ u[w] = v[w] + k /\ \A x \in Workers \ {w} : u[x] = v[x]
  BY <1>r, <1>2
<1>4. IsFiniteSet(FilePairs(v))
  BY <1>2, FilePairsFinite
<1>5. /\ Cardinality(FilePairs(u)) = Cardinality(FilePairs(v)) + k
      /\ Cardinality(FilePairs(v)) \in Nat
  BY <1>3, <1>4, FilePairsGrow
<1>6. Result.records \in Nat
  BY DEF Result, Types, DiskTypes, File
<1>7. Result.records + Cardinality(FilePairs(u)) = Emitted
  BY DEF Tally
<1>8. Result'.records + Cardinality(FilePairs(v)) = Emitted'
  BY <1>3, <1>5, <1>6, <1>7
<1> QED
  BY <1>2, <1>8

\* A record that is collected is one that was missing; the token of a worker
\* that is done stands for no record of its own.
LEMMA TallyCollect ==
  ASSUME Types, Names, ChanCounts, Tallied, Collect PROVE Tallied'
<1>r. RingLen \in Nat /\ RingLen > 1
  BY ConstantsAssumption DEF ConstantsAssumption
<1>c. \A v \in Workers : chan[v] \in ChanType
  BY DEF Types, ChanTypes
<1>1. /\ next \in Workers /\ chan[next].readSem > 0
      /\ mpc = "pass" /\ mpc' = "pass" /\ temp.there /\ temp \in File
  BY DEF Collect, Manager, Names, Before, Types, DiskTypes
<1>2. \A v \in Workers \ {next} : chan'[v] = chan[v]
  BY DEF Collect, Types, ChanTypes
<1>3. /\ chan'[next].head = chan[next].head
      /\ chan'[next].readSem = chan[next].readSem - 1
      /\ chan'[next].done = chan[next].done /\ chan'[next].odd = chan[next].odd
      /\ chan'[next].emitted = chan[next].emitted
      /\ chan'[next].tail = IF chan[next].done THEN chan[next].tail
                            ELSE (chan[next].tail + 1) % RingLen
  BY <1>c, <1>1 DEF Collect, Types, ChanTypes, ChanType
<1>4. /\ Result = temp /\ Result' = temp'
      /\ temp'.records = IF chan[next].done THEN temp.records ELSE temp.records + 1
  BY <1>1 DEF Collect, Result, File
<1>5. EmittedBy' = EmittedBy /\ Emitted' = Emitted /\ IsFiniteSet(FilePairs(EmittedBy)')
  BY <1>2, <1>3, EmittedStays
<1>6. NoneOdd' => NoneOdd
  BY <1>2, <1>3 DEF NoneOdd
<1>7. CASE chan[next].done
  <2>1. \A w \in Workers :
          /\ chan'[w].head = chan[w].head /\ chan'[w].tail = chan[w].tail
          /\ ~chan'[w].done => ~chan[w].done /\ chan'[w].readSem = chan[w].readSem
          /\ Drained(w)' => Drained(w)
    BY <1>1, <1>2, <1>3, <1>7 DEF Drained
  <2> QED
    BY <1>1, <1>4, <1>5, <1>6, <1>7, <2>1, TallyKept
<1>8. CASE ~chan[next].done
  <2> SUFFICES ASSUME NoneOdd' PROVE \E v \in [Workers -> 0..RingLen] : Tally(v)'
    BY <1>5 DEF Tallied
  <2>1. PICK u \in [Workers -> 0..RingLen] : Tally(u)
    BY <1>6 DEF Tallied
  <2>2. u[next] = chan[next].readSem /\ u[next] \in 0..RingLen /\ u[next] > 0
    BY <1>1, <1>8, <2>1 DEF Tally
  <2>3. Result'.records = Result.records + 1 /\ 1 \in 0..RingLen /\ 1 <= u[next]
    BY <1>r, <1>4, <1>8, <2>2
  <2>4. PICK v \in [Workers -> 0..RingLen] :
          /\ v[next] = u[next] - 1 /\ \A x \in Workers \ {next} : v[x] = u[x]
          /\ Result'.records + Cardinality(FilePairs(v)) = Emitted'
    BY <1>1, <1>5, <2>1, <2>3, TallyLess
  <2>5. \A x \in Workers :
          /\ v[x] % RingLen = Gap(x)'
          /\ ~chan'[x].done => v[x] = chan'[x].readSem
    <3> TAKE x \in Workers
    <3>1. u[x] % RingLen = Gap(x) /\ (~chan[x].done => u[x] = chan[x].readSem)
      BY <1>1, <2>1 DEF Tally
    <3>2. CASE x # next
      BY <1>2, <2>4, <3>1, <3>2 DEF Gap
    <3>3. CASE x = next
      <4>1. /\ chan[x].head \in 0..(RingLen - 1) /\ chan[x].tail \in 0..(RingLen - 1)
            /\ u[x] % RingLen = (chan[x].head + RingLen - chan[x].tail) % RingLen
        BY <1>c, <3>1 DEF ChanType, Gap
      <4>2. (u[x] - 1) % RingLen
              = (chan[x].head + RingLen - ((chan[x].tail + 1) % RingLen)) % RingLen
        BY <2>2, <3>3, <4>1, RingMoves
      <4> QED
        BY <1>3, <1>8, <2>2, <2>4, <3>3, <4>2 DEF Gap
    <3> QED
      BY <3>2, <3>3
  <2>6. \A x \in Workers : ~Drained(x)'
    BY <1>1 DEF Drained
  <2>7. FilePairs(v)' = FilePairs(v)
    BY DEF FilePairs
  <2>8. Tally(v)'
    BY <2>4, <2>5, <2>6, <2>7 DEF Tally
  <2> QED
    BY <2>8
<1> QED
  BY <1>7, <1>8

\* Drain stores what the ring shows, which is all of it or, of a full ring, none.
LEMMA TallyDrain ==
  ASSUME Types, Names, Tallied, Drain, next \in Workers, next' = next + 1,
         mpc' = mpc, chan' = [chan EXCEPT ![next].tail = chan[next].head],
         temp' = [temp EXCEPT !.records = @ + Gap(next)]
  PROVE  Tallied'
<1>r. RingLen \in Nat /\ RingLen > 1
  BY ConstantsAssumption DEF ConstantsAssumption
<1>c. \A v \in Workers : chan[v] \in ChanType
  BY DEF Types, ChanTypes
<1>1. mpc = "drain" /\ temp.there /\ temp \in File
  BY DEF Drain, Manager, Names, Before, Types, DiskTypes
<1>2. /\ \A v \in Workers \ {next} : chan'[v] = chan[v]
      /\ chan'[next].head = chan[next].head /\ chan'[next].tail = chan[next].head
      /\ chan'[next].odd = chan[next].odd /\ chan'[next].emitted = chan[next].emitted
  BY <1>c DEF Types, ChanTypes, ChanType
<1>3. Result = temp /\ Result' = temp' /\ temp'.records = temp.records + Gap(next)
  BY <1>1 DEF Result, File
<1>4. Emitted' = Emitted /\ IsFiniteSet(FilePairs(EmittedBy)')
  BY <1>2, EmittedStays
<1>5. NoneOdd' => NoneOdd
  BY <1>2 DEF NoneOdd
<1> SUFFICES ASSUME NoneOdd' PROVE \E v \in [Workers -> 0..RingLen] : Tally(v)'
  BY <1>4 DEF Tallied
<1>6. PICK u \in [Workers -> 0..RingLen] : Tally(u)
  BY <1>5 DEF Tallied
<1>7. /\ u[next] \in 0..RingLen /\ u[next] - Gap(next) \in {0, RingLen}
      /\ Gap(next) \in 0..(RingLen - 1)
  <2>1. /\ chan[next].head \in 0..(RingLen - 1) /\ chan[next].tail \in 0..(RingLen - 1)
        /\ u[next] % RingLen = (chan[next].head + RingLen - chan[next].tail) % RingLen
    BY <1>c, <1>6 DEF ChanType, Gap, Tally
  <2>2. u[next] - ((chan[next].head + RingLen - chan[next].tail) % RingLen) \in {0, RingLen}
    BY <2>1, RingMoves
  <2>3. (chan[next].head + RingLen - chan[next].tail) % RingLen \in 0..(RingLen - 1)
    BY <1>r, <2>1
  <2> QED
    BY <2>2, <2>3 DEF Gap
<1>8. PICK v \in [Workers -> 0..RingLen] :
        /\ v[next] = u[next] - Gap(next) /\ \A x \in Workers \ {next} : v[x] = u[x]
        /\ Result'.records + Cardinality(FilePairs(v)) = Emitted'
  <2>1. Gap(next) \in 0..RingLen /\ Gap(next) <= u[next]
    BY <1>r, <1>7
  <2> QED
    BY <1>3, <1>4, <1>6, <2>1, TallyLess
<1>9. \A x \in Workers :
        /\ v[x] % RingLen = Gap(x)'
        /\ Drained(x)' => chan'[x].head = chan'[x].tail
  <2> TAKE x \in Workers
  <2>1. /\ u[x] % RingLen = Gap(x)
        /\ Drained(x) => chan[x].head = chan[x].tail
    BY <1>6 DEF Tally
  <2>2. CASE x # next
    <3>1. Drained(x)' => Drained(x)
      BY <1>1, <2>2 DEF Drained, Types, LoopTypes, Workers
    <3>2. chan'[x] = chan[x] /\ v[x] = u[x]
      BY <1>2, <1>8, <2>2
    <3>3. v[x] % RingLen = Gap(x)'
      BY <2>1, <3>2 DEF Gap
    <3>4. Drained(x)' => chan'[x].head = chan'[x].tail
      BY <2>1, <3>1, <3>2
    <3> QED
      BY <3>3, <3>4
  <2>3. CASE x = next
    <3>1. PICK h \in 0..(RingLen - 1) : h = chan[next].head
      BY <1>c DEF ChanType
    <3>2. Gap(x)' = RingLen % RingLen
      <4>1. h + RingLen - h = RingLen
        BY <1>r
      <4> QED
        BY <1>2, <2>3, <3>1, <4>1 DEF Gap
    <3>3. RingLen % RingLen = 0 /\ 0 % RingLen = 0
      BY <1>r, SmallMod
    <3> QED
      BY <1>2, <1>7, <1>8, <2>3, <3>2, <3>3
  <2> QED
    BY <2>2, <2>3
<1>10. FilePairs(v)' = FilePairs(v)
  BY DEF FilePairs
<1>11. Tally(v)'
  BY <1>1, <1>8, <1>9, <1>10 DEF Tally
<1> QED
  BY <1>11

LEMMA TalliedNext ==
  Counts /\ Names /\ Settled /\ ChanCounts /\ Tallied /\ [Next]_vars => Tallied'
<1> SUFFICES ASSUME Counts, Names, Settled, ChanCounts, Tallied, [Next]_vars
             PROVE  Tallied'
  OBVIOUS
<1>0. Types
  BY DEF Counts
<1>c. \A v \in Workers : chan[v] \in ChanType
  BY <1>0 DEF Types, ChanTypes
\* Nothing happens to the channels and the records.
<1>1. ASSUME UNCHANGED chan, Result'.records = Result.records,
             mpc' \in InLoop => mpc \in InLoop, \A w \in Workers : Drained(w)' => Drained(w)
      PROVE  Tallied'
  <2>1. EmittedBy' = EmittedBy /\ (NoneOdd' => NoneOdd)
    BY <1>1 DEF EmittedBy, NoneOdd
  <2> QED
    BY <1>1, <2>1, TallyKept
<1>2. ASSUME NEW w \in Workers, Act(w) PROVE Tallied'
  <2>1. UNCHANGED <<mpc, next, temp, final>>
    BY <1>2, WorkStatic
  <2>2. Result' = Result /\ \A v \in Workers : Drained(v)' => Drained(v)
    BY <2>1 DEF Result, Drained
  <2>3. CASE UNCHANGED chan
    BY <1>1, <2>1, <2>2, <2>3
  <2>4. CASE Emit(w)
    BY <2>4, TallyEmit
  <2>5. CASE OpenFileFails(w)
    <3>1. chan[w].emitted = chan'[w].emitted
          /\ (version = "HW4" \/ version = "HW5" => chan'[w].odd)
      BY <1>c, <2>5 DEF OpenFileFails, Counts, Types, ChanTypes, ChanType
    <3>2. \A v \in Workers \ {w} : chan'[v] = chan[v]
      BY <2>5 DEF OpenFileFails, Counts, Types, ChanTypes
    <3>3. ~NoneOdd'
      BY <2>5, <3>1 DEF OpenFileFails, NoneOdd
    <3>4. IsFiniteSet(FilePairs(EmittedBy)')
      BY <3>1, <3>2, EmittedStays
    <3> QED
      BY <3>3, <3>4 DEF Tallied
  <2>6. CASE Leave(w) \/ GiveBack(w)
    <3>1. /\ \A v \in Workers \ {w} : chan'[v] = chan[v]
          /\ (chan[w].done => chan'[w].done) /\ chan'[w].odd = chan[w].odd
          /\ chan'[w].readSem = chan[w].readSem
          /\ chan'[w].head = chan[w].head /\ chan'[w].tail = chan[w].tail
          /\ chan'[w].emitted = chan[w].emitted
      BY <1>c, <2>6 DEF Leave, GiveBack, Counts, Types, ChanTypes, ChanType
    <3>2. EmittedBy' = EmittedBy /\ (NoneOdd' => NoneOdd)
      BY <3>1 DEF EmittedBy, NoneOdd
    <3> QED
      BY <2>1, <2>2, <3>1, <3>2, TallyKept
  <2> QED
    BY <1>2, <2>3, <2>4, <2>5, <2>6 DEF Act, Work, Complain, InterruptWrite, CheckIdle,
       PopStack, TakeJob, OpenDir, OpenFails, Discover, Vanished, EndJob, Abandon
<1>3. CASE BeginShutdown \/ BeginPass \/ SkipEmpty \/ EndPass \/ Kill \/ UNCHANGED vars
  <2>1. UNCHANGED <<chan, temp, final>>
    BY <1>3 DEF BeginShutdown, BeginPass, SkipEmpty, EndPass, Kill, vars, disk
  <2>2. Result' = Result
    BY <2>1 DEF Result
  <2>3. mpc' \in InLoop => mpc \in InLoop
    BY <1>3 DEF BeginShutdown, BeginPass, SkipEmpty, EndPass, Kill, Manager, vars, loop
  <2>4. \A w \in Workers : Drained(w)' => Drained(w)
    <3>1. CASE EndPass
      BY <1>0, <3>1 DEF EndPass, Manager, Drained, Workers
    <3>2. CASE ~EndPass
      <4>1. UNCHANGED <<mpc, next>> \/ (mpc \in InLoop /\ mpc' \in InLoop)
        BY <1>3, <3>2 DEF BeginShutdown, BeginPass, SkipEmpty, Kill, Manager, vars, loop
      <4> QED
        BY <4>1 DEF Drained
    <3> QED
      BY <3>1, <3>2
  <2> QED
    BY <1>1, <2>1, <2>2, <2>3, <2>4
<1>4. CASE Collect
  BY <1>0, <1>4, TallyCollect
<1>5. CASE Drain
  <2>1. CASE UNCHANGED <<next, temp, chan>>
    <3>1. mpc = "drain" /\ next = N + 1 /\ mpc' = "wait" /\ UNCHANGED final
      BY <1>0, <1>5, <2>1 DEF Drain, Manager, Types, LoopTypes
    <3>2. \A w \in Workers : Drained(w)
      BY <3>1, ConstantsAssumption DEF Drained, Workers, ConstantsAssumption
    <3>3. Result' = Result
      BY <2>1, <3>1 DEF Result
    <3> QED
      BY <1>1, <2>1, <3>1, <3>2, <3>3
  <2>2. CASE ~UNCHANGED <<next, temp, chan>>
    BY <1>0, <1>5, <2>2, TallyDrain DEF Drain, Gap
  <2> QED
    BY <2>1, <2>2
<1>6. CASE Finish \/ QuitManager \/ CopyPage
  <2>1. /\ UNCHANGED chan /\ mpc \notin InLoop \cup {"drain"} /\ mpc' \notin InLoop \cup {"drain"}
    BY <1>6 DEF Finish, QuitManager, Mark, Remove, Create, CopyLast, Close, Rename,
       CopyPage, Manager, Publishing
  <2>2. Result'.records = Result.records
    <3>1. temp.there /\ temp \in File
      BY <1>0, <1>6 DEF Names, Before, Copying, Moving, Whole, Finish, QuitManager, Mark,
         Remove, Create, CopyLast, Close, Rename, CopyPage, Manager, Types, DiskTypes
    <3>2. CASE Rename
      BY <3>1, <3>2 DEF Rename, Result, NoFile
    <3>3. CASE ~Rename
      <4>1. temp'.there = temp.there /\ temp'.records = temp.records
        BY <1>6, <3>1, <3>3 DEF Finish, QuitManager, Mark, Remove, Create, CopyLast,
           Close, CopyPage, File
      <4> QED
        BY <3>1, <4>1 DEF Result
    <3> QED
      BY <3>2, <3>3
  <2> QED
    BY <1>1, <2>1, <2>2 DEF Drained
<1> QED
  BY <1>2, <1>3, <1>4, <1>5, <1>6, NextCases DEF Manage, CollectAndWait

\* A drained account is even but for whole rings.
LEMMA LostRings ==
  ASSUME NEW u \in [Workers -> 0..RingLen], \A w \in Workers : u[w] % RingLen = 0
  PROVE  \E lost \in 0..N : Cardinality(FilePairs(u)) = lost * RingLen
<1>r. RingLen \in Nat /\ RingLen > 1 /\ N \in Nat
  BY ConstantsAssumption DEF ConstantsAssumption
<1> DEFINE F == {w \in Workers : u[w] = RingLen}
<1>1. \A w \in Workers : u[w] = 0 \/ u[w] = RingLen
  BY <1>r, SmallMod
<1>2. FilePairs(u) = F \X (1..RingLen)
  <2>i. \A x : x \in FilePairs(u) <=> \E w \in Workers : \E i \in 1..u[w] : x = <<w, i>>
    BY FilePairsIs
  <2>1. ASSUME NEW w \in Workers, NEW i \in 1..u[w] PROVE w \in F /\ i \in 1..RingLen
    BY <1>1, <2>1
  <2>2. ASSUME NEW w \in F, NEW i \in 1..RingLen PROVE w \in Workers /\ i \in 1..u[w]
    BY <2>2
  <2> HIDE DEF F
  <2>3. FilePairs(u) \subseteq F \X (1..RingLen)
    BY <2>i, <2>1
  <2>4. F \X (1..RingLen) \subseteq FilePairs(u)
    BY <2>i, <2>2
  <2> QED
    BY <2>3, <2>4
<1>3. IsFiniteSet(Workers) /\ Cardinality(Workers) = N
  BY <1>r, FS_Interval DEF Workers
<1>4. IsFiniteSet(F) /\ Cardinality(F) <= N /\ Cardinality(F) \in Nat
  BY <1>3, FS_Subset, FS_CardinalityType
<1>5. IsFiniteSet(1..RingLen) /\ Cardinality(1..RingLen) = RingLen
  BY <1>r, FS_Interval
<1> HIDE DEF F
<1>6. Cardinality(F \X (1..RingLen)) = Cardinality(F) * RingLen
  BY <1>4, <1>5, FS_Product
<1> QED
  BY <1>2, <1>4, <1>6, <1>r

\* For every number of workers, every tree and every length of the rings: the
\* database is short of the files reported only by whole rings.
THEOREM RecordsInvariant == Spec => []RecordsAgree
<1> DEFINE Inv == Settled /\ ChanCounts /\ Tallied
<1>1. Init => Inv
  BY AccountInit
<1>2. Counts /\ Types /\ Names /\ Inv /\ [Next]_vars => Inv'
  BY SettledNext, ChanCountsNext, TalliedNext
<1>3. Types /\ Inv => RecordsAgree
  <2> SUFFICES ASSUME Types, Inv, mpc \notin InLoop \cup {"drain"}, NoneOdd
               PROVE  \E lost \in 0..N : Result.records + lost * RingLen = Emitted
    BY DEF RecordsAgree, NoneOdd
  <2>r. RingLen \in Nat \ {0}
    BY ConstantsAssumption DEF ConstantsAssumption
  <2>1. PICK u \in [Workers -> 0..RingLen] : Tally(u)
    BY DEF Tallied
  <2>2. ASSUME NEW w \in Workers PROVE u[w] % RingLen = 0
    <3>1. u[w] % RingLen = Gap(w) /\ chan[w].head = chan[w].tail
      BY <2>1 DEF Tally, Drained
    <3>2. PICK h \in 0..(RingLen - 1) : h = chan[w].head /\ h = chan[w].tail
      BY <3>1 DEF Types, ChanTypes, ChanType
    <3>3. h + RingLen - h = RingLen
      BY <2>r
    <3> QED
      BY <2>r, <3>1, <3>2, <3>3, SmallMod DEF Gap
  <2>3. PICK lost \in 0..N : Cardinality(FilePairs(u)) = lost * RingLen
    BY <2>2, LostRings
  <2> QED
    BY <2>1, <2>3 DEF Tally
<1> QED
  BY <1>1, <1>2, <1>3, CountsInvariant, NamesInvariant, PTL DEF Spec
=============================================================================
