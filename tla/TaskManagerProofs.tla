--------------------------- MODULE TaskManagerProofs ---------------------------
(***************************************************************************)
(* Theorems about TaskManager, for any number of callers and of tasks.     *)
(*                                                                         *)
(* Everything rests on the map of construction locks: whoever has work to  *)
(* do has the registered lock (Queued), so that one caller works at a time *)
(* (OneInside), and while it does, no task runs that it does not know of   *)
(* (KnownTasks).  With that nobody but the holder of the lease touches the *)
(* files, and what was observed under the lease still holds when the       *)
(* clean-up acts on it (LookIsFresh).  Without the lease, the files have   *)
(* stood for what was observed of them at some moment (LookIsSeen).        *)
(***************************************************************************)
EXTENDS TaskManager, TLAPS

Queued ==
  \A c \in Caller :
    /\ pc[c] \in Working \cup {"waiting"} => handle[c] = registered /\ registered # NoMutex
    /\ pc[c] \in {"idle", "looking", "queueing"} => handle[c] = NoMutex
    /\ pc[c] = "leaving" => handle[c] # NoMutex

OneInside ==
  \A c, d \in Caller :
    pc[c] \in Inside /\ pc[d] \in Inside /\ handle[c] = handle[d] => c = d

\* Between the second look into the cache and the new task's start.
Preparing == Constructing \ {"rechecking", "inserting"}
HasTask == {"inserting", "flagging", "shutting"}

HeldTasks ==
  \A t \in Task : Live(t) => t = cache \/ \E c \in Caller : pc[c] \in HasTask /\ task[c] = t
CallerKnows(c) ==
  /\ pc[c] \in Preparing => \A t \in Task : ~Live(t)
  /\ pc[c] \in Preparing \cup HasTask => cache = NoTask
  /\ pc[c] \in HasTask => task[c] \in Task \ Unborn
  /\ pc[c] \in {"inserting", "flagging"} => task[c] \notin stopping
CacheIsLive == cache \notin stopping /\ \A t \in Unborn : t \notin stopping /\ t # cache

KnownTasks == HeldTasks /\ (\A c \in Caller : CallerKnows(c)) /\ CacheIsLive

\* What a call has observed is forgotten when it returns.
Unlooked ==
  \A c \in Caller :
    pc[c] \in {"idle", "looking", "queueing", "waiting", "rechecking"}
      => look[c].turn = "before"

\* What a call has observed under its lease still holds.
Fresh(c) ==
  /\ pc[c] \in {"readDest", "readLock", "validating", "applying"}
       => look[c].part = (part # NoFile)
  /\ pc[c] \in {"readLock", "validating"} => look[c].dest = dest
  /\ pc[c] = "applying" =>
       /\ look[c].checked = "Invalid" => ~Validate(dest)
       /\ look[c].checked = "Valid" => Validate(dest)
LookIsFresh == \A c \in Caller : Leased(c) => Fresh(c)

\* The files have been seen as they stand; and what the last look has found,
\* they have been seen as.  A destination that passes its checks may have come
\* after the part file was looked at: then the look is not over yet.
Unfinished(c) == IF look[c].part THEN "Paused" ELSE "NotDownloaded"
SeenNow == seen # {} => InitialLifecycleState(dest, part) \in seen
Seen(c) ==
  /\ pc[c] \in {"readDest", "readLock", "validating"} => seen # {}
  /\ pc[c] = "readDest" => Validate(dest) \/ Unfinished(c) \in seen
  /\ pc[c] \in {"readLock", "validating"} =>
       /\ Validate(look[c].dest) => "Downloaded" \in seen
       /\ (Validate(dest) /\ Validate(look[c].dest)) \/ Unfinished(c) \in seen
  /\ pc[c] \in {"applying", "releasing", "spawning"} => StateSeen(c) \in seen
LookIsSeen == SeenNow /\ \A c \in Caller : Seen(c)

Common == TypeOK /\ Queued /\ OneInside /\ KnownTasks

USE ReducerAssumption DEF ReducerAssumption, callers, maps, tasks, disk, TaskOnly, OthersStep
USE ManagerAssumption DEF ManagerAssumption

-----------------------------------------------------------------------------
(* Types                                                                    *)

LEMMA GotoType ==
  ASSUME NEW c \in Caller, NEW stage \in Stage, pc \in [Caller -> Stage], Goto(c, stage)
  PROVE  pc' \in [Caller -> Stage]
  BY DEF Goto

LEMMA ReturnType ==
  ASSUME TypeOK, NEW c \in Caller, Return(c)
  PROVE  /\ pc' \in [Caller -> Stage] /\ op' \in [Caller -> {"open", "remove"}]
         /\ handle' \in [Caller -> Mutex \cup {NoMutex}] /\ look' \in [Caller -> Look]
         /\ task' \in [Caller -> Task \cup {NoTask}]
  <1>1. NoLook \in Look
    BY DEF NoLook, Look, FileOrNone
  <1> QED BY <1>1 DEF TypeOK, Return, Goto, Stage

LEMMA InitialStateType ==
  ASSUME NEW d, NEW p
  PROVE  InitialLifecycleState(d, p) \in {"NotDownloaded", "Paused", "Downloaded"}
  BY DEF InitialLifecycleState

LEMMA WitnessType ==
  ASSUME seen \subseteq {"NotDownloaded", "Paused", "Downloaded"}, Witness
  PROVE  seen' \subseteq {"NotDownloaded", "Paused", "Downloaded"}
  BY InitialStateType DEF Witness

LEMMA TypeStep ==
  ASSUME TypeOK, KnownTasks, [Next]_vars
  PROVE  TypeOK'
<1> USE DEF TypeOK
<1>1. ASSUME NEW c \in Caller, Open(c) \/ Remove(c) \/ Enter(c) PROVE TypeOK'
  BY <1>1 DEF Open, Remove, Enter, Goto, Stage, Inside, Working, Constructing, Removing
<1>2. ASSUME NEW c \in Caller, LookUp(c) PROVE TypeOK'
  BY <1>2, ReturnType DEF LookUp, Goto, Stage
<1>3. ASSUME NEW c \in Caller, Queue(c) PROVE TypeOK'
  BY <1>3 DEF Queue, Goto, Stage
<1>4. ASSUME NEW c \in Caller, Recheck(c) PROVE TypeOK'
  <2>1. "readPart" \in Stage
    BY DEF Stage, Inside, Working, Constructing, Observing
  <2> QED BY <1>4, <2>1, ReturnType DEF Recheck, Goto
<1>5. ASSUME NEW c \in Caller, ReadPart(c) PROVE TypeOK'
  <2>1. "readDest" \in Stage
    BY DEF Stage, Inside, Working, Constructing, Observing
  <2>2. PICK b \in BOOLEAN : b = (part # NoFile)
    OBVIOUS
  <2>3. look' = [look EXCEPT ![c].part = b]
    BY <1>5, <2>2, Zenon DEF ReadPart
  <2>4. look' \in [Caller -> Look]
    BY <2>3 DEF Look
  <2> QED BY <1>5, <2>1, <2>4, InitialStateType DEF ReadPart, Goto
<1>6. ASSUME NEW c \in Caller, ReadDest(c) PROVE TypeOK'
  <2>1. "readLock" \in Stage
    BY DEF Stage, Inside, Working, Constructing, Observing
  <2>2. look' \in [Caller -> Look]
    BY SMTT(20), <1>6 DEF ReadDest, Look
  <2> QED BY <1>6, <2>1, <2>2 DEF ReadDest, Goto
<1>7. ASSUME NEW c \in Caller, ReadLock(c) PROVE TypeOK'
  <2>1. "validating" \in Stage
    BY DEF Stage, Inside, Working, Constructing, Observing
  <2>2. PICK b \in BOOLEAN : b = (lock = "other")
    OBVIOUS
  <2>3. look' = [look EXCEPT ![c].conflict = b]
    BY <1>7, <2>2, Zenon DEF ReadLock
  <2>4. look' \in [Caller -> Look]
    BY <2>3 DEF Look
  <2> QED BY <1>7, <2>1, <2>4 DEF ReadLock, Goto
<1>8. ASSUME NEW c \in Caller, Decide(c) PROVE TypeOK'
  <2>1. {"acquiring", "spawning", "applying", "failing"} \subseteq Stage
    BY DEF Stage, Inside, Working, Constructing
  <2>2. Checked(c) \in {"Missing", "Invalid", "Valid"}
    BY DEF Checked
  <2>3. look' \in [Caller -> Look]
    BY <1>8, <2>2 DEF Decide, Look
  <2>4. pc' \in [Caller -> Stage]
    BY <1>8, <2>1 DEF Decide, Goto
  <2> QED BY <1>8, <2>3, <2>4 DEF Decide
<1>9. ASSUME NEW c \in Caller, Acquire(c) PROVE TypeOK'
  <2>1. {"readPart", "failing"} \subseteq Stage
    BY DEF Stage, Inside, Working, Constructing, Observing
  <2>2. look' \in [Caller -> Look]
    BY SMTT(20), <1>9 DEF Acquire, Look
  <2>3. pc' \in [Caller -> Stage]
    BY <1>9, <2>1 DEF Acquire, Goto
  <2> QED BY <1>9, <2>2, <2>3 DEF Acquire
<1>10. ASSUME NEW c \in Caller, Apply(c) PROVE TypeOK'
  <2>1. {"releasing", "aborting"} \subseteq Stage
    BY DEF Stage, Inside, Working, Constructing
  <2>2. pc' \in [Caller -> Stage]
    BY <1>10, <2>1 DEF Apply, Goto
  <2>3. part' \in FileOrNone /\ dest' \in FileOrNone
    BY <1>10 DEF Apply, FileOrNone
  <2>4. seen' \subseteq {"NotDownloaded", "Paused", "Downloaded"}
    BY <1>10, WitnessType DEF Apply
  <2> QED BY <1>10, <2>2, <2>3, <2>4 DEF Apply
<1>11. ASSUME NEW c \in Caller, Release(c) \/ Fail(c) \/ FinishRemove(c) PROVE TypeOK'
  <2>1. {"spawning", "failing", "leaving"} \subseteq Stage
    BY DEF Stage, Inside, Working, Constructing
  <2> QED BY ZenonT(40), <1>11, <2>1 DEF Release, Fail, FinishRemove, Unregister, Goto
<1>12. ASSUME NEW c \in Caller, Spawn(c) PROVE TypeOK'
  <2>1. "inserting" \in Stage
    BY DEF Stage, Inside, Working, Constructing
  <2>2. StateSeen(c) \in Phase
    BY DEF StateSeen, Phase
  <2> QED BY <1>12, <2>1, <2>2 DEF Spawn, Goto, Unborn
<1>13. ASSUME NEW c \in Caller, Insert(c) \/ Leave(c) PROVE TypeOK'
  BY <1>13, ReturnType DEF Insert, Leave
<1>14. ASSUME NEW c \in Caller, Take(c) \/ Shutdown(c) \/ AwaitStopped(c) PROVE TypeOK'
  <2>1. {"flagging", "shutting", "unregistering"} \subseteq Stage
    BY DEF Stage, Inside, Working, Removing
  <2>2. task' \in [Caller -> Task \cup {NoTask}] /\ pc' \in [Caller -> Stage]
    BY <1>14, <2>1 DEF Take, Shutdown, AwaitStopped, Goto
  <2>3. stopping' \subseteq Task
    <3>1. CASE Take(c) \/ AwaitStopped(c)
      BY <3>1 DEF Take, AwaitStopped
    <3>2. CASE Shutdown(c)
      BY <3>2 DEF Shutdown, KnownTasks, CallerKnows, HasTask
    <3> QED BY <1>14, <3>1, <3>2
  <2> QED BY <1>14, <2>2, <2>3 DEF Take, Shutdown, AwaitStopped
<1>15. ASSUME NEW t \in Task, BeginDownload(t) PROVE TypeOK'
  BY <1>15 DEF BeginDownload, Become, Phase
<1>16. ASSUME NEW t \in Task, Fetch(t) PROVE TypeOK'
  BY <1>16, WitnessType DEF Fetch, FileOrNone
<1>17. ASSUME NEW t \in Task, EndDownload(t) PROVE TypeOK'
  <2>1. phase' \in [Task -> Phase] /\ part' \in FileOrNone /\ dest' \in FileOrNone
    BY <1>17 DEF EndDownload, Become, Phase, FileOrNone
  <2> QED BY <1>17, <2>1, WitnessType DEF EndDownload
<1>18. ASSUME NEW t \in Task, StopTask(t) PROVE TypeOK'
  <2>1. phase' \in [Task -> Phase] /\ part' \in FileOrNone
    BY <1>18 DEF StopTask, Become, Phase, FileOrNone
  <2> QED BY <1>18, <2>1, WitnessType DEF StopTask
<1>19. CASE OthersAcquire \/ OthersRelease
  BY <1>19 DEF OthersAcquire, OthersRelease
<1>20. CASE OthersWrite
  <2>1. part' \in FileOrNone /\ dest' \in FileOrNone
    BY <1>20 DEF OthersWrite, FileOrNone
  <2> QED BY <1>20, <2>1, WitnessType DEF OthersWrite
<1>21. CASE UNCHANGED vars
  BY <1>21 DEF vars
<1> QED
  BY <1>1, <1>2, <1>3, <1>4, <1>5, <1>6, <1>7, <1>8, <1>9, <1>10, <1>11, <1>12, <1>13,
     <1>14, <1>15, <1>16, <1>17, <1>18, <1>19, <1>20, <1>21
  DEF Next, CallerStep

-----------------------------------------------------------------------------
(* The construction locks                                                   *)

\* What a step may do to the construction locks.
Stays == UNCHANGED <<pc, handle, registered>>
Wanders(c) ==
  /\ pc[c] \in {"idle", "looking"} /\ UNCHANGED <<handle, registered>>
  /\ \E stage \in {"looking", "queueing"} : Goto(c, stage)
Works(c) ==
  /\ pc[c] \in Working /\ UNCHANGED <<handle, registered>>
  /\ \E stage \in Working : Goto(c, stage)
Finishes(c) == pc[c] \in Working /\ Unregister(c) /\ Goto(c, "leaving") /\ UNCHANGED handle
Returns(c) == Return(c) /\ UNCHANGED registered

LEMMA StepKinds ==
  ASSUME TypeOK, [Next]_vars
  PROVE  \/ Stays
         \/ \E c \in Caller : Wanders(c) \/ Queue(c) \/ Enter(c) \/ Works(c) \/ Finishes(c)
                                \/ Returns(c)
<1> USE DEF Goto, Working, Constructing, Observing, Removing
<1>1. ASSUME NEW c \in Caller, Open(c) \/ Remove(c) \/ LookUp(c)
      PROVE  Wanders(c) \/ Returns(c)
  BY <1>1 DEF Open, Remove, LookUp, Wanders, Returns
<1>2. ASSUME NEW c \in Caller, Recheck(c) \/ Insert(c) \/ Leave(c)
      PROVE  Works(c) \/ Returns(c)
  BY <1>2 DEF Recheck, Insert, Leave, Works, Returns
<1>3. ASSUME NEW c \in Caller, ReadPart(c) \/ ReadDest(c) \/ ReadLock(c)
      PROVE  Works(c)
  BY <1>3 DEF ReadPart, ReadDest, ReadLock, Works
<1>4. ASSUME NEW c \in Caller, Decide(c) \/ Acquire(c) \/ Spawn(c)
      PROVE  Works(c)
  BY <1>4 DEF Decide, Acquire, Spawn, Works
<1>5. ASSUME NEW c \in Caller, Apply(c) \/ Release(c)
      PROVE  Works(c)
  BY <1>5 DEF Apply, Release, Works
<1>6. ASSUME NEW c \in Caller, Take(c) \/ Shutdown(c) \/ AwaitStopped(c)
      PROVE  Works(c)
  BY <1>6 DEF Take, Shutdown, AwaitStopped, Works
<1>7. ASSUME NEW c \in Caller, Fail(c) \/ FinishRemove(c)
      PROVE  Finishes(c)
  BY <1>7 DEF Fail, FinishRemove, Finishes
<1>8. ASSUME NEW t \in Task, BeginDownload(t) \/ Fetch(t) \/ EndDownload(t) \/ StopTask(t)
      PROVE  Stays
  BY <1>8 DEF BeginDownload, Fetch, EndDownload, StopTask, Stays
<1>9. CASE OthersAcquire \/ OthersRelease \/ OthersWrite
  BY <1>9 DEF OthersAcquire, OthersRelease, OthersWrite, Stays
<1>10. CASE UNCHANGED vars
  BY <1>10 DEF vars, Stays
<1> QED
  BY <1>1, <1>2, <1>3, <1>4, <1>5, <1>6, <1>7, <1>8, <1>9, <1>10 DEF Next, CallerStep

LEMMA QueuedStep ==
  ASSUME TypeOK, Queued, OneInside, [Next]_vars
  PROVE  Queued' /\ OneInside'
<1> USE DEF TypeOK, Goto, Inside, Working, Constructing, Observing, Removing
<1>1. CASE Stays
  BY <1>1 DEF Stays, Queued, OneInside
<1>2. ASSUME NEW c \in Caller, Wanders(c) PROVE Queued' /\ OneInside'
  <2>1. Queued'
    BY <1>2 DEF Wanders, Queued
  <2>2. OneInside'
    BY <1>2 DEF Wanders, OneInside
  <2> QED BY <2>1, <2>2
<1>3. ASSUME NEW c \in Caller, Queue(c) PROVE Queued' /\ OneInside'
  <2>1. registered' \in Mutex /\ (registered = NoMutex \/ registered' = registered)
    BY <1>3 DEF Queue
  <2>2. Queued'
    BY <1>3, <2>1 DEF Queue, Queued
  <2>3. OneInside'
    BY <1>3 DEF Queue, OneInside
  <2> QED BY <2>2, <2>3
<1>4. ASSUME NEW c \in Caller, Enter(c) PROVE Queued' /\ OneInside'
  <2>1. Queued'
    BY <1>4 DEF Enter, Queued
  <2>2. OneInside'
    BY <1>4 DEF Enter, OneInside
  <2> QED BY <2>1, <2>2
<1>5. ASSUME NEW c \in Caller, Works(c) PROVE Queued' /\ OneInside'
  <2>1. PICK stage \in Working : pc' = [pc EXCEPT ![c] = stage]
    BY <1>5 DEF Works
  <2>2. Queued'
    BY <1>5, <2>1 DEF Works, Queued
  <2>3. OneInside'
    BY <1>5, <2>1 DEF Works, OneInside
  <2> QED BY <2>2, <2>3
<1>6. ASSUME NEW c \in Caller, Finishes(c) PROVE Queued' /\ OneInside'
  <2>1. ASSUME NEW d \in Caller \ {c}, pc[d] \in Working \cup {"waiting"}
        PROVE  registered' = registered
    BY <1>6, <2>1 DEF Finishes, Unregister, Unshared, Queued
  <2>2. Queued'
    BY <1>6, <2>1 DEF Finishes, Queued
  <2>3. OneInside'
    BY <1>6 DEF Finishes, OneInside
  <2> QED BY <2>2, <2>3
<1>7. ASSUME NEW c \in Caller, Returns(c) PROVE Queued' /\ OneInside'
  <2>1. Queued'
    BY <1>7 DEF Returns, Return, Queued
  <2>2. OneInside'
    BY <1>7 DEF Returns, Return, OneInside
  <2> QED BY <2>1, <2>2
<1> QED
  BY <1>1, <1>2, <1>3, <1>4, <1>5, <1>6, <1>7, StepKinds

LEMMA Exclusive ==
  ASSUME Queued, OneInside, NEW c \in Caller, NEW d \in Caller,
         pc[c] \in Working, pc[d] \in Working
  PROVE  c = d
  BY DEF Queued, OneInside, Inside

-----------------------------------------------------------------------------
(* The tasks                                                                *)

\* Steps that leave the tasks and the cache alone, and move nobody to or from
\* a stage where a task is held or being prepared.
LEMMA KnownTasksQuiet ==
  ASSUME TypeOK, KnownTasks, UNCHANGED <<cache, phase, stopping>>,
         NEW c \in Caller, NEW stage, Goto(c, stage),
         \A d \in Caller \ {c} : task'[d] = task[d],
         pc[c] \notin HasTask, stage \notin HasTask,
         stage \in Preparing => pc[c] \in Preparing
  PROVE  KnownTasks'
<1>1. \A t \in Task : Live(t)' = Live(t)
  BY DEF Live
<1>2. Unborn' = Unborn
  BY DEF Unborn
<1>3. \A d \in Caller : pc'[d] = IF d = c THEN stage ELSE pc[d]
  BY DEF Goto, TypeOK
<1>4. HeldTasks'
  BY <1>1, <1>3 DEF KnownTasks, HeldTasks
<1>5. ASSUME NEW d \in Caller PROVE CallerKnows(d)'
  <2>1. CallerKnows(d) /\ CallerKnows(c)
    BY DEF KnownTasks
  <2>2. pc'[d] \in Preparing => pc[d] \in Preparing
    BY <1>3
  <2>3. pc'[d] \in HasTask => pc'[d] = pc[d]
    BY <1>3
  <2> QED BY <1>1, <1>2, <2>1, <2>2, <2>3 DEF CallerKnows, HasTask
<1>6. CacheIsLive'
  BY <1>2 DEF KnownTasks, CacheIsLive
<1> QED BY <1>4, <1>5, <1>6 DEF KnownTasks

\* Steps of a task, and of another application: no task comes to life.
LEMMA KnownTasksKept ==
  ASSUME KnownTasks, UNCHANGED <<pc, task, cache, stopping>>, Unborn' = Unborn,
         \A t \in Task : Live(t)' => Live(t)
  PROVE  KnownTasks'
<1>1. HeldTasks' /\ CacheIsLive'
  BY DEF KnownTasks, HeldTasks, CacheIsLive
<1>2. ASSUME NEW d \in Caller PROVE CallerKnows(d)'
  <2>1. CallerKnows(d)
    BY DEF KnownTasks
  <2> QED BY <2>1 DEF CallerKnows
<1> QED BY <1>1, <1>2 DEF KnownTasks

\* While a caller works no other caller holds or prepares a task.
LEMMA Alone ==
  ASSUME Queued, OneInside, NEW c \in Caller, pc[c] \in Working, NEW d \in Caller \ {c}
  PROVE  pc[d] \notin Preparing \cup HasTask
<1>1. pc[d] \notin Working
  BY Exclusive
<1> QED BY <1>1 DEF Working, Preparing, HasTask, Constructing, Removing

LEMMA TaskStep ==
  ASSUME TypeOK, KnownTasks, NEW t \in Task,
         BeginDownload(t) \/ Fetch(t) \/ EndDownload(t) \/ StopTask(t)
  PROVE  KnownTasks'
<1>1. UNCHANGED <<pc, task, cache, stopping>>
  BY DEF BeginDownload, Fetch, EndDownload, StopTask
<1>2. \A u \in Task \ {t} : phase'[u] = phase[u]
  BY DEF BeginDownload, Fetch, EndDownload, StopTask, Become, TypeOK
<1>3. phase[t] # "unborn" /\ phase'[t] # "unborn"
  BY DEF BeginDownload, Fetch, EndDownload, StopTask, Become, TypeOK, Live
<1>4. Live(t)
  BY DEF BeginDownload, Fetch, EndDownload, StopTask, Live
<1>5. Unborn' = Unborn
  BY <1>2, <1>3 DEF Unborn
<1>6. \A u \in Task : Live(u)' => Live(u)
  BY <1>2, <1>4 DEF Live
<1> QED BY <1>1, <1>5, <1>6, KnownTasksKept

LEMMA QuietStep ==
  ASSUME TypeOK, KnownTasks, NEW c \in Caller,
         \/ Open(c) \/ Remove(c) \/ Enter(c) \/ LookUp(c) \/ Queue(c)
         \/ ReadPart(c) \/ ReadDest(c) \/ ReadLock(c) \/ Decide(c) \/ Acquire(c)
         \/ Apply(c) \/ Release(c) \/ Fail(c) \/ FinishRemove(c) \/ Leave(c)
  PROVE  KnownTasks'
<1> USE DEF Preparing, HasTask, Constructing, Observing
<1>1. CASE Open(c) \/ Remove(c) \/ Enter(c) \/ Queue(c)
  <2>1. UNCHANGED <<cache, phase, stopping, task>>
    BY <1>1 DEF Open, Remove, Enter, Queue
  <2>2. \E stage \in {"looking", "queueing", "rechecking", "taking", "waiting"} : Goto(c, stage)
    BY <1>1 DEF Open, Remove, Enter, Queue
  <2>3. pc[c] \notin HasTask
    BY <1>1 DEF Open, Remove, Enter, Queue
  <2> QED BY <2>1, <2>2, <2>3, KnownTasksQuiet
<1>2. CASE LookUp(c) \/ Leave(c)
  <2>1. UNCHANGED <<cache, phase, stopping>>
    BY <1>2 DEF LookUp, Leave
  <2>2. \A d \in Caller \ {c} : task'[d] = task[d]
    BY <1>2 DEF LookUp, Leave, Return, TypeOK
  <2>3. \E stage \in {"idle", "queueing"} : Goto(c, stage)
    BY <1>2 DEF LookUp, Leave, Return
  <2>4. pc[c] \notin HasTask
    BY <1>2 DEF LookUp, Leave
  <2> QED BY <2>1, <2>2, <2>3, <2>4, KnownTasksQuiet
<1>3. CASE ReadPart(c) \/ ReadDest(c) \/ ReadLock(c) \/ Decide(c) \/ Acquire(c)
             \/ Apply(c) \/ Release(c)
  <2>1. UNCHANGED <<cache, phase, stopping, task>>
    BY <1>3 DEF ReadPart, ReadDest, ReadLock, Decide, Acquire, Apply, Release
  <2>2. \E stage \in Preparing : Goto(c, stage)
    BY <1>3 DEF ReadPart, ReadDest, ReadLock, Decide, Acquire, Apply, Release
  <2>3. pc[c] \in Preparing \ HasTask
    BY <1>3 DEF ReadPart, ReadDest, ReadLock, Decide, Acquire, Apply, Release
  <2> QED BY <2>1, <2>2, <2>3, KnownTasksQuiet
<1>4. CASE Fail(c) \/ FinishRemove(c)
  <2>1. UNCHANGED <<cache, phase, stopping, task>> /\ Goto(c, "leaving")
    BY <1>4 DEF Fail, FinishRemove
  <2>2. pc[c] \notin HasTask
    BY <1>4 DEF Fail, FinishRemove
  <2> QED BY <2>1, <2>2, KnownTasksQuiet
<1> QED BY <1>1, <1>2, <1>3, <1>4

\* The second look into the cache finds nothing: then nobody runs a task.
LEMMA RecheckStep ==
  ASSUME TypeOK, Queued, OneInside, KnownTasks, NEW c \in Caller, Recheck(c)
  PROVE  KnownTasks'
<1> USE DEF Preparing, HasTask, Constructing, Observing
<1>1. CASE CachedLive /\ Return(c)
  <2>1. UNCHANGED <<cache, phase, stopping>> /\ Goto(c, "idle") /\ pc[c] = "rechecking"
    BY <1>1 DEF Recheck, Return
  <2>2. \A d \in Caller \ {c} : task'[d] = task[d]
    BY <1>1 DEF Return, TypeOK
  <2> QED BY <2>1, <2>2, KnownTasksQuiet
<1>2. CASE ~CachedLive /\ Goto(c, "readPart") /\ cache' = NoTask /\ task' = task
  <2>1. cache = NoTask /\ UNCHANGED <<phase, stopping>> /\ pc[c] = "rechecking"
    BY <1>2 DEF CachedLive, KnownTasks, CacheIsLive, Recheck
  <2>2. pc[c] \in Working
    BY <2>1 DEF Working
  <2>3. \A t \in Task : ~Live(t)
    BY <2>1, <2>2, Alone DEF KnownTasks, HeldTasks, Task, NoTask
  <2>4. \A d \in Caller : pc'[d] = IF d = c THEN "readPart" ELSE pc[d]
    BY <1>2 DEF Goto, TypeOK
  <2>5. (\A t \in Task : Live(t)' = Live(t)) /\ Unborn' = Unborn
    BY <2>1 DEF Live, Unborn
  <2>6. HeldTasks' /\ CacheIsLive'
    BY <1>2, <2>1, <2>3, <2>5 DEF HeldTasks, CacheIsLive, KnownTasks
  <2>7. ASSUME NEW d \in Caller PROVE CallerKnows(d)'
    <3>1. CASE d = c
      BY <1>2, <2>3, <2>4, <2>5, <3>1 DEF CallerKnows
    <3>2. CASE d # c
      <4>1. pc'[d] \notin Preparing \cup HasTask
        BY <2>2, <2>4, <3>2, Alone
      <4> QED BY <4>1 DEF CallerKnows
    <3> QED BY <3>1, <3>2
  <2> QED BY <2>6, <2>7 DEF KnownTasks
<1> QED BY <1>1, <1>2 DEF Recheck

LEMMA SpawnStep ==
  ASSUME TypeOK, Queued, OneInside, KnownTasks, NEW c \in Caller, Spawn(c)
  PROVE  KnownTasks'
<1>1. pc[c] = "spawning" /\ pc[c] \in Working /\ pc[c] \in Preparing
  BY DEF Spawn, Working, Constructing, Preparing
<1>2. PICK t \in Unborn : /\ phase' = [phase EXCEPT ![t] = StateSeen(c)]
                          /\ task' = [task EXCEPT ![c] = t]
  BY DEF Spawn
<1>3. UNCHANGED <<cache, stopping>> /\ cache = NoTask /\ \A u \in Task : ~Live(u)
  BY <1>1 DEF Spawn, KnownTasks, CallerKnows
<1>4. t \in Task /\ t \notin stopping /\ task'[c] = t /\ phase'[t] # "unborn"
  BY <1>2 DEF KnownTasks, CacheIsLive, Unborn, TypeOK, StateSeen
<1>5. \A u \in Task \ {t} : phase'[u] = phase[u]
  BY <1>2, <1>4 DEF TypeOK
<1>6. \A d \in Caller : pc'[d] = IF d = c THEN "inserting" ELSE pc[d]
  BY DEF Spawn, Goto, TypeOK
<1>7. HeldTasks'
  BY <1>3, <1>4, <1>5, <1>6 DEF HeldTasks, HasTask, Live
<1>8. Unborn' = Unborn \ {t}
  BY <1>4, <1>5 DEF Unborn
<1>9. CacheIsLive'
  BY <1>3, <1>8 DEF KnownTasks, CacheIsLive
<1>10. ASSUME NEW d \in Caller PROVE CallerKnows(d)'
  <2>1. CASE d = c
    BY <1>3, <1>4, <1>6, <1>8, <2>1 DEF CallerKnows, Preparing
  <2>2. CASE d # c
    <3>1. pc'[d] \notin Preparing \cup HasTask
      BY <1>1, <1>6, <2>2, Alone
    <3> QED BY <3>1 DEF CallerKnows, HasTask
  <2> QED BY <2>1, <2>2
<1> QED BY <1>7, <1>9, <1>10 DEF KnownTasks

LEMMA InsertStep ==
  ASSUME TypeOK, Queued, OneInside, KnownTasks, NEW c \in Caller, Insert(c)
  PROVE  KnownTasks'
<1>1. pc[c] = "inserting" /\ pc[c] \in Working /\ pc[c] \in HasTask
  BY DEF Insert, Working, Constructing, HasTask
<1>2. UNCHANGED <<phase, stopping>> /\ cache' = task[c] /\ cache = NoTask
  BY <1>1 DEF Insert, KnownTasks, CallerKnows
<1>3. task[c] \in Task \ Unborn /\ task[c] \notin stopping
  BY <1>1 DEF KnownTasks, CallerKnows
<1>4. \A d \in Caller : pc'[d] = IF d = c THEN "idle" ELSE pc[d]
  BY DEF Insert, Return, Goto, TypeOK
<1>5. (\A t \in Task : Live(t)' = Live(t)) /\ Unborn' = Unborn
  BY <1>2 DEF Live, Unborn
<1>6. HeldTasks'
  <2>1. ASSUME NEW t \in Task, Live(t) PROVE t = task[c]
    <3>1. t # NoTask
      BY DEF Task, NoTask
    <3>2. PICK d \in Caller : pc[d] \in HasTask /\ task[d] = t
      BY <1>2, <2>1, <3>1 DEF KnownTasks, HeldTasks
    <3> QED BY <1>1, <3>2, Alone
  <2> QED BY <1>2, <1>5, <2>1 DEF HeldTasks
<1>7. CacheIsLive'
  BY <1>2, <1>3, <1>5 DEF KnownTasks, CacheIsLive
<1>8. ASSUME NEW d \in Caller PROVE CallerKnows(d)'
  <2>1. pc'[d] \notin Preparing \cup HasTask
    <3>1. "idle" \notin Preparing \cup HasTask
      BY DEF Preparing, HasTask, Constructing, Observing
    <3> QED BY <1>1, <1>4, <3>1, Alone
  <2> QED BY <2>1 DEF CallerKnows, HasTask
<1> QED BY <1>6, <1>7, <1>8 DEF KnownTasks

LEMMA TakeStep ==
  ASSUME TypeOK, Queued, OneInside, KnownTasks, NEW c \in Caller, Take(c)
  PROVE  KnownTasks'
<1>1. pc[c] = "taking" /\ pc[c] \in Working /\ pc[c] \notin HasTask
  BY DEF Take, Working, Removing, HasTask
<1>2. UNCHANGED <<phase, stopping>> /\ cache' = NoTask /\ task'[c] = cache
  BY DEF Take, TypeOK
<1>3. \A d \in Caller :
        pc'[d] = IF d # c THEN pc[d]
                 ELSE IF cache = NoTask THEN "unregistering" ELSE "flagging"
  BY DEF Take, Goto, TypeOK
<1>4. (\A t \in Task : Live(t)' = Live(t)) /\ Unborn' = Unborn
  BY <1>2 DEF Live, Unborn
<1>5. cache = NoTask \/ cache \in Task
  BY DEF TypeOK
<1>6. HeldTasks'
  <2>1. \A t \in Task : Live(t) => t = cache
    BY <1>1, Alone DEF KnownTasks, HeldTasks
  <2>2. \A t \in Task : t # NoTask
    BY DEF Task, NoTask
  <2> QED BY <1>2, <1>3, <1>4, <2>1, <2>2 DEF HeldTasks, HasTask
<1>7. CacheIsLive'
  <2>1. NoTask \notin stopping /\ NoTask \notin Unborn
    BY DEF TypeOK, Task, NoTask, Unborn
  <2> QED BY <1>2, <1>4, <2>1 DEF KnownTasks, CacheIsLive
<1>8. ASSUME NEW d \in Caller PROVE CallerKnows(d)'
  <2>1. CASE d = c
    <3>1. pc'[c] \notin Preparing /\ pc'[c] # "inserting"
      BY <1>3 DEF Preparing, Constructing, Observing
    <3>2. pc'[c] \in HasTask => cache # NoTask /\ task'[c] \in Task \ Unborn
      BY <1>2, <1>3, <1>5 DEF HasTask, KnownTasks, CacheIsLive
    <3>3. task'[c] \notin stopping'
      BY <1>2 DEF KnownTasks, CacheIsLive
    <3> QED BY <1>2, <1>4, <2>1, <3>1, <3>2, <3>3 DEF CallerKnows
  <2>2. CASE d # c
    <3>1. pc'[d] \notin Preparing \cup HasTask
      BY <1>1, <1>3, <2>2, Alone
    <3> QED BY <3>1 DEF CallerKnows, HasTask
  <2> QED BY <2>1, <2>2
<1> QED BY <1>6, <1>7, <1>8 DEF KnownTasks

LEMMA ShutdownStep ==
  ASSUME TypeOK, Queued, OneInside, KnownTasks, NEW c \in Caller,
         Shutdown(c) \/ AwaitStopped(c)
  PROVE  KnownTasks'
<1>1. pc[c] \in {"flagging", "shutting"} /\ pc[c] \in Working /\ pc[c] \in HasTask
  BY DEF Shutdown, AwaitStopped, Working, Removing, HasTask
<1>2. /\ UNCHANGED <<phase, cache>> /\ cache = NoTask /\ task[c] \in Task \ Unborn
      /\ stopping' \in {stopping, stopping \cup {task[c]}}
  BY <1>1 DEF Shutdown, AwaitStopped, KnownTasks, CallerKnows
<1>3. \A d \in Caller \ {c} : pc'[d] = pc[d]
  BY DEF Shutdown, AwaitStopped, Goto, TypeOK
<1>4. (\A t \in Task : Live(t)' = Live(t)) /\ Unborn' = Unborn
  BY <1>2 DEF Live, Unborn
<1>5. NoTask \notin Task
  BY DEF Task, NoTask
<1>6. CacheIsLive'
  BY <1>2, <1>4, <1>5 DEF KnownTasks, CacheIsLive
<1>7. ASSUME NEW d \in Caller \ {c} PROVE CallerKnows(d)'
  <2>1. pc'[d] \notin Preparing \cup HasTask
    BY <1>1, <1>3, Alone
  <2> QED BY <2>1 DEF CallerKnows, HasTask
<1>8. ASSUME NEW t \in Task, Live(t) PROVE t = task[c]
  <2>1. PICK d \in Caller : pc[d] \in HasTask /\ task[d] = t
    BY <1>2, <1>5, <1>8 DEF KnownTasks, HeldTasks
  <2> QED BY <1>1, <2>1, Alone
<1>9. CASE Shutdown(c)
  <2>1. pc'[c] = "shutting" /\ task' = task
    BY <1>9 DEF Shutdown, Goto, TypeOK
  <2>2. HeldTasks'
    BY <1>4, <1>8, <2>1 DEF HeldTasks, HasTask
  <2>3. CallerKnows(c)'
    BY <1>2, <1>4, <2>1 DEF CallerKnows, Preparing, Constructing, Observing
  <2> QED BY <1>6, <1>7, <2>2, <2>3 DEF KnownTasks
<1>10. CASE AwaitStopped(c)
  <2>1. pc'[c] = "unregistering" /\ ~Live(task[c])
    BY <1>10 DEF AwaitStopped, Goto, TypeOK, Live
  <2>2. HeldTasks'
    BY <1>4, <1>8, <2>1 DEF HeldTasks
  <2>3. CallerKnows(c)'
    BY <2>1 DEF CallerKnows, Preparing, Constructing, Observing, HasTask
  <2> QED BY <1>6, <1>7, <2>2, <2>3 DEF KnownTasks
<1> QED BY <1>9, <1>10

LEMMA KnownTasksStep ==
  ASSUME TypeOK, Queued, OneInside, KnownTasks, [Next]_vars
  PROVE  KnownTasks'
<1>1. CASE OthersAcquire \/ OthersRelease \/ OthersWrite \/ UNCHANGED vars
  <2>1. UNCHANGED <<pc, task, cache, stopping, phase>>
    BY <1>1 DEF OthersAcquire, OthersRelease, OthersWrite, vars
  <2>2. Unborn' = Unborn /\ \A t \in Task : Live(t)' = Live(t)
    BY <2>1 DEF Unborn, Live
  <2> QED BY <2>1, <2>2, KnownTasksKept
<1> QED
  BY <1>1, TaskStep, QuietStep, RecheckStep, SpawnStep, InsertStep, TakeStep, ShutdownStep
  DEF Next, CallerStep

-----------------------------------------------------------------------------
(* The lease and the files                                                  *)

CallerAction(c) == Open(c) \/ Remove(c) \/ Enter(c) \/ CallerStep(c)
TaskAction(t) == BeginDownload(t) \/ Fetch(t) \/ EndDownload(t) \/ StopTask(t)
OthersAction == OthersAcquire \/ OthersRelease \/ OthersWrite

LEMMA StepCases ==
  ASSUME [Next]_vars
  PROVE  \/ \E c \in Caller : CallerAction(c)
         \/ \E t \in Task : TaskAction(t)
         \/ OthersAction \/ UNCHANGED vars
  BY DEF Next, CallerAction, TaskAction, OthersAction

\* A step of one caller moves and shows something to nobody else.
LEMMA OneMoves ==
  ASSUME TypeOK, NEW c \in Caller, CallerAction(c), NEW d \in Caller \ {c}
  PROVE  pc'[d] = pc[d] /\ look'[d] = look[d]
<1> USE DEF TypeOK, Goto
<1>1. CASE Open(c) \/ Remove(c) \/ Enter(c) \/ LookUp(c) \/ Queue(c) \/ Recheck(c)
  BY <1>1 DEF Open, Remove, Enter, LookUp, Queue, Recheck, Return
<1>2. CASE ReadPart(c) \/ ReadDest(c) \/ ReadLock(c)
  <2>1. pc'[d] = pc[d]
    BY <1>2 DEF ReadPart, ReadDest, ReadLock
  <2>2. \E r : look' = [look EXCEPT ![c] = r]
    BY <1>2, Zenon DEF ReadPart, ReadDest, ReadLock
  <2> QED BY <2>1, <2>2
<1>3. CASE Decide(c) \/ Acquire(c) \/ Apply(c) \/ Release(c)
  BY <1>3 DEF Decide, Acquire, Apply, Release
<1>4. CASE Spawn(c) \/ Insert(c) \/ Fail(c) \/ Leave(c) \/ FinishRemove(c)
  BY <1>4 DEF Spawn, Insert, Fail, Leave, FinishRemove, Return
<1>5. CASE Take(c) \/ Shutdown(c) \/ AwaitStopped(c)
  BY <1>5 DEF Take, Shutdown, AwaitStopped
<1> QED BY <1>1, <1>2, <1>3, <1>4, <1>5 DEF CallerAction, CallerStep

\* What the stages before and after a caller's own step say of its lease.
Steady(c) == (Leased(c)' <=> Leased(c)) /\ lock' = lock
Taken(c) ==
  /\ pc[c] = "acquiring" /\ lock \in {"free", "dead", "ours"} /\ lock' = "ours"
  /\ pc'[c] = "readPart" /\ look'[c].turn = "leased" /\ phase' = phase
Given(c) == Leased(c) /\ ~Leased(c)' /\ lock' = "free" /\ phase' = phase

LEMMA LeaseOfStep ==
  ASSUME TypeOK, Unlooked, NEW c \in Caller, CallerAction(c)
  PROVE  (Steady(c) \/ Taken(c) \/ Given(c)) /\ Unlooked'
<1> USE DEF TypeOK, Goto, Leased, Observing
<1>1. \A d \in Caller \ {c} : pc'[d] = pc[d] /\ look'[d] = look[d]
  BY OneMoves
<1>2. ASSUME pc'[c] \in {"idle", "looking", "queueing", "waiting", "rechecking"}
               => look'[c].turn = "before"
      PROVE  Unlooked'
  BY <1>1, <1>2 DEF Unlooked
<1>3. NoLook.turn = "before"
  BY DEF NoLook
<1>4. CASE Open(c) \/ Remove(c) \/ Enter(c) \/ Queue(c)
  BY <1>2, <1>4 DEF Open, Remove, Enter, Queue, Steady, Unlooked
<1>5. CASE LookUp(c) \/ Recheck(c) \/ Insert(c) \/ Leave(c)
  BY <1>2, <1>3, <1>5 DEF LookUp, Recheck, Insert, Leave, Return, Steady, Unlooked
<1>6. CASE ReadPart(c) \/ ReadDest(c) \/ ReadLock(c) \/ Decide(c)
  <2>1. look'[c].turn = look[c].turn
    <3>1. CASE ReadPart(c)
      BY <3>1 DEF ReadPart, Look
    <3>2. CASE ReadDest(c)
      BY <3>2 DEF ReadDest, Look
    <3>3. CASE ReadLock(c)
      BY <3>3 DEF ReadLock, Look
    <3>4. CASE Decide(c)
      BY <3>4 DEF Decide, Look
    <3> QED BY <1>6, <3>1, <3>2, <3>3, <3>4
  <2>2. Steady(c)
    <3>1. CASE ReadPart(c) \/ ReadDest(c) \/ ReadLock(c)
      BY <2>1, <3>1 DEF ReadPart, ReadDest, ReadLock, Steady
    <3>2. CASE Decide(c)
      BY <2>1, <3>2 DEF Decide, Steady
    <3> QED BY <1>6, <3>1, <3>2
  <2>3. pc'[c] \notin {"idle", "looking", "queueing", "waiting", "rechecking"}
    BY <1>6 DEF ReadPart, ReadDest, ReadLock, Decide
  <2> QED BY <1>2, <2>2, <2>3
<1>7. CASE Acquire(c)
  <2>1. Steady(c) \/ Taken(c)
    <3>1. CASE MayLease /\ lock' = "ours" /\ Goto(c, "readPart")
                 /\ look' = [look EXCEPT ![c].turn = "leased"]
      BY <1>7, <3>1 DEF Acquire, Taken, MayLease, Look
    <3>2. CASE lock' = lock /\ Goto(c, "readPart") /\ look' = [look EXCEPT ![c].turn = "refused"]
      <4>1. look'[c].turn = "refused"
        BY <3>2 DEF Look
      <4> QED BY <1>7, <3>2, <4>1 DEF Acquire, Steady
    <3>3. CASE lock' = lock /\ Goto(c, "failing")
      BY <1>7, <3>3 DEF Acquire, Steady
    <3> QED BY <1>7, <3>1, <3>2, <3>3 DEF Acquire
  <2>2. pc'[c] \in {"readPart", "failing"}
    BY <1>7 DEF Acquire
  <2> QED BY <1>2, <2>1, <2>2
<1>8. CASE Apply(c) \/ Spawn(c) \/ Fail(c) \/ FinishRemove(c)
  BY <1>2, <1>8 DEF Apply, Spawn, Fail, FinishRemove, Steady
<1>9. CASE Release(c)
  BY <1>2, <1>9 DEF Release, Given
<1>10. CASE Take(c) \/ Shutdown(c) \/ AwaitStopped(c)
  BY <1>2, <1>10 DEF Take, Shutdown, AwaitStopped, Steady
<1> QED
  BY <1>4, <1>5, <1>6, <1>7, <1>8, <1>9, <1>10 DEF CallerAction, CallerStep

LEMMA UnlookedStep ==
  ASSUME TypeOK, Unlooked, [Next]_vars
  PROVE  Unlooked'
<1>1. CASE UNCHANGED <<pc, look>>
  BY <1>1 DEF Unlooked
<1>2. ASSUME NEW t \in Task, TaskAction(t) PROVE UNCHANGED <<pc, look>>
  BY <1>2 DEF TaskAction, BeginDownload, Fetch, EndDownload, StopTask
<1>3. OthersAction \/ UNCHANGED vars => UNCHANGED <<pc, look>>
  BY DEF OthersAction, OthersAcquire, OthersRelease, OthersWrite, vars
<1> QED BY <1>1, <1>2, <1>3, StepCases, LeaseOfStep

LEMMA OneLive ==
  ASSUME Queued, OneInside, KnownTasks
  PROVE  OneLiveTask
<1>1. SUFFICES ASSUME NEW t \in Task, NEW u \in Task, Live(t), Live(u) PROVE t = u
  BY DEF OneLiveTask
<1>2. t # NoTask /\ u # NoTask
  BY DEF Task, NoTask
<1>3. ASSUME NEW c \in Caller, pc[c] \in HasTask
      PROVE  cache = NoTask /\ \A d \in Caller : pc[d] \in HasTask => d = c
  <2>1. pc[c] \in Working
    BY <1>3 DEF HasTask, Working, Constructing, Removing
  <2> QED BY <1>3, <2>1, Alone DEF KnownTasks, CallerKnows
<1> QED BY <1>1, <1>2, <1>3 DEF KnownTasks, HeldTasks

LEMMA LeasedPrepares ==
  ASSUME KnownTasks, NEW c \in Caller, Leased(c) \/ pc[c] = "acquiring"
  PROVE  pc[c] \in Preparing /\ pc[c] \in Working /\ \A t \in Task : ~Live(t)
<1>1. pc[c] \in Preparing /\ pc[c] \in Working
  BY DEF Leased, Preparing, Constructing, Observing, Working
<1> QED BY <1>1 DEF KnownTasks, CallerKnows

LEMMA SameDownloads ==
  ASSUME TypeOK, NEW c \in Caller, CallerAction(c), NEW t \in Task
  PROVE  phase'[t] = "Downloading" <=> phase[t] = "Downloading"
<1>1. CASE Spawn(c)
  <2>1. PICK u \in Unborn : phase' = [phase EXCEPT ![u] = StateSeen(c)]
    BY <1>1 DEF Spawn
  <2> QED BY <2>1 DEF Unborn, StateSeen, TypeOK
<1>2. CASE ~Spawn(c)
  <2>1. phase' = phase
    BY <1>2 DEF CallerAction, CallerStep, Open, Remove, Enter, LookUp, Queue, Recheck,
      ReadPart, ReadDest, ReadLock, Decide, Acquire, Apply, Release, Insert, Fail,
      Take, Shutdown, AwaitStopped, FinishRemove, Leave
  <2> QED BY <2>1
<1> QED BY <1>1, <1>2

LEMMA LeaseStep ==
  ASSUME Common, Unlooked, LeaseIsUsed, [Next]_vars
  PROVE  LeaseIsUsed'
<1> USE DEF Common
<1>1. ASSUME NEW c \in Caller, CallerAction(c) PROVE LeaseIsUsed'
  <2>1. \A d \in Caller \ {c} : Leased(d)' <=> Leased(d)
    BY <1>1, OneMoves DEF Leased
  <2>2. \A t \in Task : phase'[t] = "Downloading" <=> phase[t] = "Downloading"
    BY <1>1, SameDownloads
  <2>3. CASE Steady(c)
    BY <2>1, <2>2, <2>3 DEF Steady, LeaseIsUsed
  <2>4. CASE Taken(c)
    <3>1. Leased(c)'
      BY <2>4 DEF Taken, Leased, Observing
    <3>2. \A t \in Task : ~Live(t)
      BY <2>4, LeasedPrepares DEF Taken
    <3>3. \A t \in Task : phase'[t] # "Downloading"
      BY <2>2, <3>2 DEF Live
    <3> QED BY <2>4, <3>1, <3>3 DEF Taken, LeaseIsUsed
  <2>5. CASE Given(c)
    <3>1. ASSUME NEW d \in Caller \ {c} PROVE ~Leased(d)'
      <4>1. pc[c] \in Working /\ (Leased(d) => pc[d] \in Working)
        BY <2>5, LeasedPrepares DEF Given
      <4> QED BY <2>1, <4>1, Exclusive
    <3>2. \A t \in Task : phase'[t] # "Downloading"
      BY <2>2, <2>5 DEF Given, LeaseIsUsed
    <3> QED BY <2>5, <3>1, <3>2 DEF Given, LeaseIsUsed
  <2> QED BY <1>1, <2>3, <2>4, <2>5, LeaseOfStep
<1>2. ASSUME NEW t \in Task, TaskAction(t) PROVE LeaseIsUsed'
  <2>1. Live(t)
    BY <1>2 DEF TaskAction, BeginDownload, Fetch, EndDownload, StopTask, Live
  <2>2. \A c \in Caller : ~Leased(c)'
    <3>1. \A c \in Caller : ~Leased(c)
      BY <2>1, LeasedPrepares
    <3>2. UNCHANGED <<pc, look>>
      BY <1>2 DEF TaskAction, BeginDownload, Fetch, EndDownload, StopTask
    <3> QED BY <3>1, <3>2 DEF Leased
  <2>3. \A u \in Task \ {t} : phase[u] # "Downloading" /\ phase'[u] = phase[u]
    <3>1. \A u \in Task \ {t} : ~Live(u)
      BY <2>1, OneLive DEF OneLiveTask
    <3>2. \A u \in Task \ {t} : phase'[u] = phase[u]
      BY <1>2 DEF TaskAction, BeginDownload, Fetch, EndDownload, StopTask, Become, TypeOK
    <3> QED BY <3>1, <3>2 DEF Live
  <2>4. lock = "ours" <=> phase[t] = "Downloading"
    BY <2>1, <2>3, LeasedPrepares DEF LeaseIsUsed
  <2>5. lock' = "ours" <=> phase'[t] = "Downloading"
    BY <1>2, <2>4 DEF TaskAction, BeginDownload, Fetch, EndDownload, StopTask, Become, TypeOK
  <2> QED BY <2>2, <2>3, <2>5 DEF LeaseIsUsed
<1>3. CASE OthersAction \/ UNCHANGED vars
  <2>1. UNCHANGED <<pc, look, phase>>
    BY <1>3 DEF OthersAction, OthersAcquire, OthersRelease, OthersWrite, vars
  <2>2. lock' = "ours" <=> lock = "ours"
    BY <1>3 DEF OthersAction, OthersAcquire, OthersRelease, OthersWrite, vars
  <2>3. \A c \in Caller : Leased(c)' <=> Leased(c)
    BY <2>1 DEF Leased
  <2> QED BY <2>1, <2>2, <2>3 DEF LeaseIsUsed
<1> QED BY <1>1, <1>2, <1>3, StepCases

\* Nobody but the holder of the lease touches the files.
LEMMA FilesHeld ==
  ASSUME Common, LeaseIsUsed, NEW c \in Caller, Leased(c), [Next]_vars, ~Apply(c)
  PROVE  UNCHANGED <<part, dest>>
<1> USE DEF Common
<1>1. lock = "ours" /\ pc[c] \in Working /\ \A t \in Task : ~Live(t)
  BY LeasedPrepares DEF LeaseIsUsed
<1>2. ASSUME NEW d \in Caller, CallerAction(d), ~Apply(d) PROVE UNCHANGED <<part, dest>>
  BY <1>2 DEF CallerAction, CallerStep, Open, Remove, Enter, LookUp, Queue, Recheck,
    ReadPart, ReadDest, ReadLock, Decide, Acquire, Release, Spawn, Insert, Fail,
    Take, Shutdown, AwaitStopped, FinishRemove, Leave
<1>3. ASSUME NEW d \in Caller PROVE ~Apply(d)
  <2>1. ASSUME Apply(d) PROVE d = c
    <3>1. pc[d] \in Working
      BY <2>1 DEF Apply, Working, Constructing
    <3> QED BY <1>1, <3>1, Exclusive
  <2> QED BY <2>1
<1>4. ASSUME NEW t \in Task PROVE ~TaskAction(t)
  BY <1>1 DEF TaskAction, BeginDownload, Fetch, EndDownload, StopTask, Live
<1>5. CASE OthersAction \/ UNCHANGED vars
  BY <1>1, <1>5 DEF OthersAction, OthersAcquire, OthersRelease, OthersWrite, vars
<1> QED BY <1>2, <1>3, <1>4, <1>5, StepCases

\* The verdict on an observation is the verdict on the file.
LEMMA CheckedIsValid ==
  ASSUME NEW c \in Caller, look[c].dest = dest
  PROVE  /\ Checked(c) = "Invalid" => ~Validate(dest)
         /\ Checked(c) = "Valid" => Validate(dest)
  BY DEF Checked, Validate

LEMMA FreshOwnStep ==
  ASSUME TypeOK, LookIsFresh, NEW c \in Caller, CallerAction(c), Leased(c)',
         ~Apply(c) => UNCHANGED <<part, dest>> \/ ~Leased(c)
  PROVE  Fresh(c)'
<1> USE DEF TypeOK, Goto
<1>1. CASE ReadPart(c)
  <2>1. part' = part /\ pc'[c] = "readDest" /\ look'[c].part = (part # NoFile)
    BY <1>1 DEF ReadPart, Look
  <2> QED BY <2>1 DEF Fresh
<1>2. CASE ReadDest(c)
  <2>1. UNCHANGED <<part, dest>> /\ pc[c] = "readDest" /\ pc'[c] = "readLock"
    BY <1>2 DEF ReadDest
  <2>2. look'[c] = [look[c] EXCEPT !.dest = dest]
    BY <1>2, Zenon DEF ReadDest
  <2>3. look'[c].dest = dest /\ look'[c].part = look[c].part /\ look'[c].turn = look[c].turn
    BY <2>2 DEF Look
  <2>4. Leased(c)
    BY <2>1, <2>3 DEF Leased, Observing
  <2> QED BY <2>1, <2>3, <2>4 DEF Fresh, LookIsFresh
<1>3. CASE ReadLock(c)
  <2>1. UNCHANGED <<part, dest>> /\ pc[c] = "readLock" /\ pc'[c] = "validating"
    BY <1>3 DEF ReadLock
  <2>2. PICK b \in BOOLEAN : look' = [look EXCEPT ![c].conflict = b]
    BY <1>3, Zenon DEF ReadLock
  <2>3. look'[c].dest = look[c].dest /\ look'[c].part = look[c].part /\ look'[c].turn = look[c].turn
    BY <2>2 DEF Look
  <2>4. Leased(c)
    BY <2>1, <2>3 DEF Leased, Observing
  <2> QED BY <2>1, <2>3, <2>4 DEF Fresh, LookIsFresh
<1>4. CASE Decide(c)
  <2>1. UNCHANGED <<part, dest>> /\ pc[c] = "validating" /\ pc'[c] \notin Observing
    BY <1>4 DEF Decide, Observing
  <2>2. /\ look'[c].checked = Checked(c) /\ look'[c].part = look[c].part
        /\ look'[c].turn = look[c].turn
    BY <1>4 DEF Decide, Look
  <2>3. pc'[c] = "applying" /\ look[c].turn = "leased"
    BY <1>4, <2>1 DEF Decide, Leased
  <2>4. Leased(c)
    BY <2>1, <2>3 DEF Leased, Observing
  <2>5. look[c].dest = dest /\ look[c].part = (part # NoFile)
    BY <2>1, <2>4 DEF LookIsFresh, Fresh
  <2>6. Validate(dest)' <=> Validate(dest)
    BY <2>1 DEF Validate
  <2> QED BY <2>1, <2>2, <2>3, <2>5, <2>6, CheckedIsValid DEF Fresh
<1>5. CASE Acquire(c) \/ Apply(c)
  BY <1>5 DEF Acquire, Apply, Fresh
<1>6. CASE Open(c) \/ Remove(c) \/ Enter(c) \/ LookUp(c) \/ Queue(c) \/ Recheck(c)
  BY <1>6 DEF Open, Remove, Enter, LookUp, Queue, Recheck, Return, Fresh
<1>7. CASE Release(c) \/ Spawn(c) \/ Insert(c) \/ Fail(c) \/ Leave(c)
  BY <1>7 DEF Release, Spawn, Insert, Fail, Leave, Return, Fresh
<1>8. CASE Take(c) \/ Shutdown(c) \/ AwaitStopped(c) \/ FinishRemove(c)
  BY <1>8 DEF Take, Shutdown, AwaitStopped, FinishRemove, Fresh
<1> QED
  BY <1>1, <1>2, <1>3, <1>4, <1>5, <1>6, <1>7, <1>8 DEF CallerAction, CallerStep

LEMMA FreshStep ==
  ASSUME Common, LeaseIsUsed, LookIsFresh, [Next]_vars
  PROVE  LookIsFresh'
<1> USE DEF Common
<1>1. SUFFICES ASSUME NEW c \in Caller, Leased(c)' PROVE Fresh(c)'
  BY DEF LookIsFresh
<1>2. CASE CallerAction(c)
  BY <1>1, <1>2, FilesHeld, FreshOwnStep
<1>3. CASE ~CallerAction(c)
  <2>1. pc'[c] = pc[c] /\ look'[c] = look[c]
    <3>1. ASSUME NEW d \in Caller, CallerAction(d) PROVE pc'[c] = pc[c] /\ look'[c] = look[c]
      BY <1>3, <3>1, OneMoves
    <3>2. ASSUME NEW t \in Task, TaskAction(t) PROVE UNCHANGED <<pc, look>>
      BY <3>2 DEF TaskAction, BeginDownload, Fetch, EndDownload, StopTask
    <3>3. OthersAction \/ UNCHANGED vars => UNCHANGED <<pc, look>>
      BY DEF OthersAction, OthersAcquire, OthersRelease, OthersWrite, vars
    <3> QED BY <3>1, <3>2, <3>3, StepCases
  <2>2. Leased(c)
    BY <1>1, <2>1 DEF Leased
  <2>3. UNCHANGED <<part, dest>>
    BY <1>3, <2>2, FilesHeld DEF CallerAction, CallerStep
  <2>4. Validate(dest)' <=> Validate(dest)
    BY <2>3 DEF Validate
  <2> QED BY <2>1, <2>2, <2>3, <2>4 DEF LookIsFresh, Fresh
<1> QED BY <1>2, <1>3

LEMMA CleanUpIsLawfulStep ==
  ASSUME Common, LeaseIsUsed, LookIsFresh, [Next]_vars
  PROVE  CleanUpStep
<1> USE DEF Common
<1>1. SUFFICES ASSUME NEW c \in Caller, pc[c] = "applying"
               PROVE  /\ dest' # dest => lock = "ours" /\ ~Validate(dest)
                      /\ part' # part => lock = "ours" /\ Validate(dest)
  BY DEF CleanUpStep
<1>2. Leased(c) /\ lock = "ours"
  BY <1>1 DEF Leased, LeaseIsUsed
<1>3. Fresh(c)
  BY <1>2 DEF LookIsFresh
<1>4. CASE Apply(c)
  BY <1>1, <1>2, <1>3, <1>4 DEF Apply, Fresh
<1>5. CASE ~Apply(c)
  BY <1>2, <1>5, FilesHeld
<1> QED BY <1>4, <1>5

-----------------------------------------------------------------------------
(* What a look has seen                                                     *)

LEMMA SeenNowStep ==
  ASSUME SeenNow, [Next]_vars
  PROVE  SeenNow'
<1>1. CASE UNCHANGED <<part, dest, seen>>
  <2>1. InitialLifecycleState(dest, part)' = InitialLifecycleState(dest, part)
    BY <1>1 DEF InitialLifecycleState, Validate
  <2> QED BY <1>1, <2>1 DEF SeenNow
<1>2. CASE Witness \/ seen' = {}
  BY <1>2 DEF Witness, SeenNow, InitialLifecycleState, Validate
<1>3. ASSUME NEW c \in Caller, CallerAction(c) PROVE SeenNow'
  <2>1. CASE ReadPart(c)
    BY <2>1 DEF ReadPart, SeenNow, InitialLifecycleState, Validate
  <2>2. CASE Apply(c) \/ Spawn(c) \/ Fail(c)
    BY <1>2, <2>2 DEF Apply, Spawn, Fail
  <2>3. CASE ~(ReadPart(c) \/ Apply(c) \/ Spawn(c) \/ Fail(c))
    BY <1>1, <1>3, <2>3 DEF CallerAction, CallerStep, Open, Remove, Enter, LookUp, Queue,
      Recheck, ReadDest, ReadLock, Decide, Acquire, Release, Insert, Take, Shutdown,
      AwaitStopped, FinishRemove, Leave
  <2> QED BY <2>1, <2>2, <2>3
<1>4. ASSUME NEW t \in Task, TaskAction(t) PROVE SeenNow'
  BY <1>1, <1>2, <1>4 DEF TaskAction, BeginDownload, Fetch, EndDownload, StopTask
<1>5. CASE OthersAction \/ UNCHANGED vars
  BY <1>1, <1>2, <1>5 DEF OthersAction, OthersAcquire, OthersRelease, OthersWrite, vars
<1> QED BY <1>3, <1>4, <1>5, StepCases

\* While a caller looks, nobody forgets what the files have been, and nobody
\* takes a destination away that passes its checks.
LEMMA FilesWatched ==
  ASSUME Common, NEW c \in Caller, pc[c] \in Preparing, [Next]_vars, ~CallerAction(c)
  PROVE  /\ pc'[c] = pc[c] /\ look'[c] = look[c]
         /\ seen \subseteq seen'
         /\ Validate(dest) => Validate(dest)'
<1> USE DEF Common
<1>1. pc[c] \in Working
  BY DEF Preparing, Working
<1>2. CASE UNCHANGED <<pc, look, dest>> /\ seen \subseteq seen'
  BY <1>2 DEF Validate
<1>3. ASSUME NEW d \in Caller \ {c}, CallerAction(d)
      PROVE  /\ pc'[c] = pc[c] /\ look'[c] = look[c]
             /\ seen \subseteq seen' /\ (Validate(dest) => Validate(dest)')
  <2>1. pc[d] \notin Working
    BY <1>1, Exclusive
  <2>2. UNCHANGED <<dest, seen>>
    BY <1>3, <2>1 DEF CallerAction, CallerStep, Open, Remove, Enter, LookUp, Queue,
      Recheck, ReadPart, ReadDest, ReadLock, Decide, Acquire, Apply, Release, Spawn,
      Insert, Fail, Take, Shutdown, AwaitStopped, FinishRemove, Leave,
      Working, Constructing, Observing
  <2>3. Validate(dest)' <=> Validate(dest)
    BY <2>2 DEF Validate
  <2> QED BY <1>3, <2>2, <2>3, OneMoves
<1>4. ASSUME NEW t \in Task PROVE ~TaskAction(t)
  <2>1. ~Live(t)
    BY DEF KnownTasks, CallerKnows
  <2> QED BY <2>1 DEF TaskAction, BeginDownload, Fetch, EndDownload, StopTask, Live
<1>5. CASE OthersWrite
  <2>1. UNCHANGED <<pc, look>> /\ Witness
    BY <1>5 DEF OthersWrite, OthersStep
  <2>2. seen \subseteq seen'
    BY <2>1 DEF Witness
  <2>3. Validate(dest) => dest' = dest
    BY <1>5 DEF OthersWrite
  <2>4. Validate(dest) => Validate(dest)'
    BY <2>3 DEF Validate
  <2> QED BY <2>1, <2>2, <2>4
<1>6. CASE OthersAcquire \/ OthersRelease \/ UNCHANGED vars
  BY <1>2, <1>6 DEF OthersAcquire, OthersRelease, vars
<1> QED BY <1>3, <1>4, <1>5, <1>6, StepCases DEF OthersAction

LEMMA SeenOwnStep ==
  ASSUME TypeOK, SeenNow, NEW c \in Caller, Seen(c), CallerAction(c)
  PROVE  Seen(c)'
<1> USE DEF TypeOK, Goto
<1>1. CASE ReadPart(c)
  <2>1. /\ UNCHANGED dest /\ pc'[c] = "readDest"
        /\ look'[c].part = (part # NoFile) /\ seen' = {InitialLifecycleState(dest, part)}
    BY <1>1 DEF ReadPart, Look
  <2>2. Validate(dest)' <=> Validate(dest)
    BY <2>1 DEF Validate
  <2> QED BY <2>1, <2>2 DEF Seen, Unfinished, InitialLifecycleState
<1>2. CASE ReadDest(c)
  <2>1. UNCHANGED <<part, dest, seen>> /\ pc[c] = "readDest" /\ pc'[c] = "readLock"
    BY <1>2 DEF ReadDest
  <2>2. look'[c] = [look[c] EXCEPT !.dest = dest]
    BY <1>2, Zenon DEF ReadDest
  <2>3. look'[c].dest = dest /\ look'[c].part = look[c].part
    BY <2>2 DEF Look
  <2>4. /\ Validate(dest)' <=> Validate(dest)
        /\ Validate(look[c].dest)' <=> Validate(dest)
    BY <2>1, <2>3 DEF Validate
  <2>5. Validate(dest) => "Downloaded" \in seen
    BY <2>1 DEF Seen, SeenNow, InitialLifecycleState
  <2>6. Unfinished(c)' = Unfinished(c)
    BY <2>3 DEF Unfinished
  <2> QED BY <2>1, <2>4, <2>5, <2>6 DEF Seen
<1>3. CASE ReadLock(c)
  <2>1. UNCHANGED <<part, dest, seen>> /\ pc[c] = "readLock" /\ pc'[c] = "validating"
    BY <1>3 DEF ReadLock
  <2>2. PICK b \in BOOLEAN : look' = [look EXCEPT ![c].conflict = b]
    BY <1>3, Zenon DEF ReadLock
  <2>3. look'[c].dest = look[c].dest /\ look'[c].part = look[c].part
    BY <2>2 DEF Look
  <2>4. /\ Validate(dest)' <=> Validate(dest)
        /\ Validate(look[c].dest)' <=> Validate(look[c].dest)
        /\ Unfinished(c)' = Unfinished(c)
    BY <2>1, <2>3 DEF Validate, Unfinished
  <2> QED BY <2>1, <2>4 DEF Seen
<1>4. CASE Decide(c)
  <2>1. UNCHANGED <<part, dest, seen>> /\ pc[c] = "validating"
    BY <1>4 DEF Decide
  <2>2. pc'[c] \in {"acquiring", "spawning", "applying", "failing"}
    BY <1>4 DEF Decide
  <2>3. look'[c].checked = Checked(c) /\ look'[c].part = look[c].part
    BY <1>4 DEF Decide, Look
  <2>4. seen # {} /\ (Validate(look[c].dest) => "Downloaded" \in seen)
    BY <2>1 DEF Seen
  <2>5. (Validate(dest) /\ Validate(look[c].dest)) \/ Unfinished(c) \in seen
    BY <2>1 DEF Seen
  <2>6. Validate(dest) => "Downloaded" \in seen
    BY <2>4 DEF SeenNow, InitialLifecycleState
  <2>7. Checked(c) = "Valid" => Validate(look[c].dest) \/ Validate(dest)
    BY DEF Checked, Validate
  <2>8. Validate(dest) /\ Validate(look[c].dest) => Checked(c) = "Valid"
    BY DEF Checked, Validate
  <2>9. StateSeen(c)' \in seen
    <3>1. CASE Checked(c) = "Valid"
      BY <2>3, <2>4, <2>6, <2>7, <3>1 DEF StateSeen
    <3>2. CASE Checked(c) # "Valid"
      BY <2>3, <2>5, <2>8, <3>2 DEF StateSeen, Unfinished
    <3> QED BY <3>1, <3>2
  <2> QED BY <2>1, <2>2, <2>9 DEF Seen
<1>5. CASE Apply(c) \/ Release(c)
  <2>1. look' = look /\ seen \subseteq seen'
    BY <1>5 DEF Apply, Release, Witness
  <2>2. StateSeen(c)' = StateSeen(c)
    BY <2>1 DEF StateSeen
  <2>3. /\ pc[c] \in {"applying", "releasing", "aborting"}
        /\ pc'[c] \in {"releasing", "aborting", "spawning", "failing"}
        /\ pc'[c] \in {"releasing", "spawning"} => pc[c] \in {"applying", "releasing"}
    BY <1>5 DEF Apply, Release
  <2> QED BY <2>1, <2>2, <2>3 DEF Seen
<1>6. pc'[c] \notin {"readDest", "readLock", "validating", "applying", "releasing", "spawning"}
        => Seen(c)'
  BY DEF Seen
<1>7. CASE Open(c) \/ Remove(c) \/ Enter(c) \/ LookUp(c) \/ Queue(c) \/ Recheck(c)
  BY <1>6, <1>7 DEF Open, Remove, Enter, LookUp, Queue, Recheck, Return
<1>8. CASE Acquire(c) \/ Spawn(c) \/ Insert(c) \/ Fail(c) \/ Leave(c)
  BY <1>6, <1>8 DEF Acquire, Spawn, Insert, Fail, Leave, Return
<1>9. CASE Take(c) \/ Shutdown(c) \/ AwaitStopped(c) \/ FinishRemove(c)
  BY <1>6, <1>9 DEF Take, Shutdown, AwaitStopped, FinishRemove
<1> QED
  BY <1>1, <1>2, <1>3, <1>4, <1>5, <1>7, <1>8, <1>9 DEF CallerAction, CallerStep

LEMMA SeenStep ==
  ASSUME Common, LookIsSeen, [Next]_vars
  PROVE  LookIsSeen'
<1>1. SeenNow'
  BY SeenNowStep DEF LookIsSeen
<1>2. ASSUME NEW c \in Caller PROVE Seen(c)'
  <2>1. CASE CallerAction(c)
    BY <2>1, SeenOwnStep DEF LookIsSeen, Common
  <2>2. CASE ~CallerAction(c) /\ pc[c] \in Preparing
    <3>1. /\ pc'[c] = pc[c] /\ look'[c] = look[c] /\ seen \subseteq seen'
          /\ Validate(dest) => Validate(dest)'
      BY <2>2, FilesWatched
    <3>2. /\ Unfinished(c)' = Unfinished(c) /\ StateSeen(c)' = StateSeen(c)
          /\ Validate(look[c].dest)' <=> Validate(look[c].dest)
      BY <3>1 DEF Unfinished, StateSeen, Validate
    <3> QED BY <3>1, <3>2 DEF LookIsSeen, Seen
  <2>3. CASE ~CallerAction(c) /\ pc[c] \notin Preparing
    <3>1. pc'[c] = pc[c]
      <4>1. ASSUME NEW d \in Caller \ {c}, CallerAction(d) PROVE pc'[c] = pc[c]
        BY <4>1, OneMoves DEF Common
      <4>2. ASSUME NEW t \in Task, TaskAction(t) PROVE pc' = pc
        BY <4>2 DEF TaskAction, BeginDownload, Fetch, EndDownload, StopTask
      <4>3. OthersAction \/ UNCHANGED vars => pc' = pc
        BY DEF OthersAction, OthersAcquire, OthersRelease, OthersWrite, vars
      <4> QED BY <2>3, <4>1, <4>2, <4>3, StepCases
    <3> QED BY <2>3, <3>1 DEF Seen, Preparing, Constructing, Observing
  <2> QED BY <2>1, <2>2, <2>3
<1> QED BY <1>1, <1>2 DEF LookIsSeen

-----------------------------------------------------------------------------
(* The theorems                                                             *)

Invariants == Common /\ Unlooked /\ LeaseIsUsed /\ LookIsFresh /\ LookIsSeen

LEMMA InitInvariants == Init => Invariants
<1>1. SUFFICES ASSUME Init PROVE Invariants
  OBVIOUS
<1>2. /\ \A c \in Caller : pc[c] = "idle" /\ handle[c] = NoMutex /\ look[c] = NoLook
      /\ \A t \in Task : phase[t] = "unborn"
      /\ registered = NoMutex /\ cache = NoTask /\ stopping = {}
      /\ lock \in {"free", "dead", "other"}
  BY <1>1 DEF Init
<1>3. TypeOK
  <2>1. NoLook \in Look
    BY DEF NoLook, Look, FileOrNone
  <2>2. Contents \subseteq FileOrNone /\ NoFile \in FileOrNone
    BY DEF FileOrNone
  <2> QED BY <1>1, <2>1, <2>2 DEF Init, TypeOK, Stage, Phase
<1>4. Queued /\ OneInside
  BY <1>2 DEF Queued, OneInside, Inside, Working, Constructing, Observing, Removing
<1>5. KnownTasks
  <2>1. NoTask \notin Task
    BY DEF Task, NoTask
  <2>2. HeldTasks /\ CacheIsLive
    BY <1>2, <2>1 DEF HeldTasks, CacheIsLive, Live, Unborn
  <2>3. \A c \in Caller : CallerKnows(c)
    BY <1>2 DEF CallerKnows, Preparing, HasTask, Constructing, Observing
  <2> QED BY <2>2, <2>3 DEF KnownTasks
<1>6. \A c \in Caller : ~Leased(c)
  BY <1>2 DEF Leased, Observing
<1>7. Unlooked
  BY <1>2 DEF Unlooked, NoLook
<1>8. LeaseIsUsed /\ LookIsFresh
  BY <1>2, <1>6 DEF LeaseIsUsed, LookIsFresh
<1>9. LookIsSeen
  <2>1. SeenNow
    BY <1>1 DEF Init, SeenNow
  <2> QED BY <1>2, <2>1 DEF LookIsSeen, Seen
<1> QED BY <1>3, <1>4, <1>5, <1>7, <1>8, <1>9 DEF Invariants, Common

LEMMA InvariantsStep ==
  ASSUME Invariants, [Next]_vars
  PROVE  Invariants'
<1>1. TypeOK' /\ Queued' /\ OneInside' /\ KnownTasks'
  BY TypeStep, QueuedStep, KnownTasksStep DEF Invariants, Common
<1>2. Unlooked' /\ LeaseIsUsed' /\ LookIsFresh'
  BY UnlookedStep, LeaseStep, FreshStep DEF Invariants, Common
<1>3. LookIsSeen'
  BY SeenStep DEF Invariants
<1> QED BY <1>1, <1>2, <1>3 DEF Invariants, Common

\* The inductive invariant holds throughout.
THEOREM Invariance == Spec => []Invariants
<1>1. Invariants /\ [Next]_vars => Invariants'
  BY InvariantsStep
<1> QED BY InitInvariants, <1>1, PTL DEF Spec

\* Every variable keeps to its type: a call that shuts a task down has one.
THEOREM TypeCorrect == Spec => []TypeOK
<1>1. Invariants => TypeOK
  BY DEF Invariants, Common
<1> QED BY <1>1, Invariance, PTL

\* Whatever opens and removals overlap, those that have work left in the
\* construction lock share one, which is what the comment in
\* remove_construction_lock_if_unshared asks for.
THEOREM OneConstructionQueue == Spec => []OneQueue
<1>1. Invariants => OneQueue
  BY DEF Invariants, Common, Queued, OneQueue
<1> QED BY <1>1, Invariance, PTL

\* Two actors never run for one destination, although the manager would give
\* both of them the lease.
THEOREM OneLiveTaskAlways == Spec => []OneLiveTask
<1>1. Invariants => OneLiveTask
  BY OneLive DEF Invariants, Common
<1> QED BY <1>1, Invariance, PTL

\* The lock file carries this manager's name exactly while a download or a
\* clean-up of its own is under way: neither a failure of prepare_startup nor
\* the end of a task leaves it behind.
THEOREM LeaseHasUser == Spec => []LeaseIsUsed
<1>1. Invariants => LeaseIsUsed
  BY DEF Invariants
<1> QED BY <1>1, Invariance, PTL

\* The clean-up deletes only a destination that fails its checks or a part
\* file beside one that passes them, although it was decided on an earlier
\* look and applied to what is there now.
THEOREM CleanUpAlwaysLawful == Spec => CleanUpIsLawful
<1>1. Invariants /\ [Next]_vars => [CleanUpStep]_vars
  BY CleanUpIsLawfulStep DEF Invariants
<1> QED BY <1>1, Invariance, PTL DEF Spec, CleanUpIsLawful

\* A new task starts in a state its files stood for at some moment while it was
\* prepared, although they are read one by one and another application writes
\* to them between the reads.
THEOREM OpensAlwaysAsItWas == Spec => []OpensAsItWas
<1>1. Invariants => OpensAsItWas
  BY DEF Invariants, LookIsSeen, Seen, OpensAsItWas
<1> QED BY <1>1, Invariance, PTL

-----------------------------------------------------------------------------
(* A removal that waits is heard.                                           *)

\* A removal has told the task it waits for to stop.
Told == \A c \in Caller : pc[c] = "shutting" => task[c] \in stopping

LEMMA ToldStep == ASSUME TypeOK, Told, [Next]_vars PROVE Told'
<1> USE DEF TypeOK, Told
<1>1. ASSUME UNCHANGED <<pc, task, stopping>> PROVE Told'
  BY <1>1
<1>2. ASSUME NEW c \in Caller, CallerAction(c) PROVE Told'
  <2>1. stopping \subseteq stopping' /\ \A d \in Caller \ {c} : task'[d] = task[d]
    <3>1. CASE Shutdown(c)
      BY <3>1 DEF Shutdown
    <3>2. CASE LookUp(c) \/ Recheck(c) \/ Insert(c) \/ Leave(c)
      BY <3>2 DEF LookUp, Recheck, Insert, Leave, Return
    <3>3. CASE Spawn(c) \/ Take(c) \/ AwaitStopped(c)
      BY <3>3 DEF Spawn, Take, AwaitStopped
    <3>4. CASE Open(c) \/ Remove(c) \/ Enter(c) \/ Queue(c) \/ FinishRemove(c) \/ Fail(c)
      BY <3>4 DEF Open, Remove, Enter, Queue, FinishRemove, Fail
    <3>5. CASE ReadPart(c) \/ ReadDest(c) \/ ReadLock(c) \/ Decide(c) \/ Acquire(c)
                 \/ Apply(c) \/ Release(c)
      BY <3>5 DEF ReadPart, ReadDest, ReadLock, Decide, Acquire, Apply, Release
    <3> QED BY <1>2, <3>1, <3>2, <3>3, <3>4, <3>5 DEF CallerAction, CallerStep
  <2>2. pc'[c] = "shutting" => task'[c] \in stopping'
    <3>1. CASE Shutdown(c)
      BY <3>1 DEF Shutdown
    <3>2. CASE LookUp(c) \/ Recheck(c) \/ Insert(c) \/ Leave(c)
      BY <3>2 DEF LookUp, Recheck, Insert, Leave, Return, Goto
    <3>3. CASE Spawn(c) \/ Take(c) \/ AwaitStopped(c)
      BY <3>3 DEF Spawn, Take, AwaitStopped, Goto
    <3>4. CASE Open(c) \/ Remove(c) \/ Enter(c) \/ Queue(c) \/ FinishRemove(c) \/ Fail(c)
      BY <3>4 DEF Open, Remove, Enter, Queue, FinishRemove, Fail, Goto
    <3>5. CASE ReadPart(c) \/ ReadDest(c) \/ ReadLock(c)
      BY <3>5 DEF ReadPart, ReadDest, ReadLock, Goto
    <3>6. CASE Decide(c) \/ Acquire(c) \/ Apply(c) \/ Release(c)
      BY <3>6 DEF Decide, Acquire, Apply, Release, Goto
    <3> QED BY <1>2, <3>1, <3>2, <3>3, <3>4, <3>5, <3>6 DEF CallerAction, CallerStep
  <2>3. \A d \in Caller \ {c} : pc'[d] = pc[d]
    BY <1>2, OneMoves
  <2> QED BY <2>1, <2>2, <2>3
<1>3. ASSUME NEW t \in Task, TaskAction(t) PROVE Told'
  BY <1>1, <1>3 DEF TaskAction, BeginDownload, Fetch, EndDownload, StopTask
<1>4. CASE OthersAction \/ UNCHANGED vars
  BY <1>1, <1>4 DEF OthersAction, OthersAcquire, OthersRelease, OthersWrite, vars
<1> QED BY <1>2, <1>3, <1>4, StepCases

\* Whoever waits for a task to stop waits for one that has been told to and has begun; and
\* a task that has been told to stop, and has not yet, has a removal that waits for it.
RemovalIsHeard ==
  /\ \A c \in Caller :
       pc[c] = "shutting" =>
         task[c] \in stopping /\ (Live(task[c]) \/ phase[task[c]] = "stopped")
  /\ \A t \in stopping : Live(t) => \E c \in Caller : pc[c] = "shutting" /\ task[c] = t

\* The safety half of CallsReturn: remove_file_task waits for the actor inside the
\* construction lock, with every other call queued behind it.  It never waits for a task
\* that has not been told, or for one that no actor will end; and no task that a removal
\* has told to stop is handed out from the cache or left running without it.
THEOREM RemovalsAreHeard == Spec => []RemovalIsHeard
<1>1. Init => Told
  BY DEF Init, Told
<1>2. Invariants => TypeOK
  BY DEF Invariants, Common
<1>3. Spec => []Told
  BY <1>1, <1>2, ToldStep, Invariance, PTL DEF Spec
<1>4. ASSUME Invariants, Told PROVE RemovalIsHeard
  <2>1. KnownTasks /\ TypeOK
    BY <1>4 DEF Invariants, Common
  <2>2. ASSUME NEW c \in Caller, pc[c] = "shutting"
        PROVE  task[c] \in stopping /\ (Live(task[c]) \/ phase[task[c]] = "stopped")
    <3>1. task[c] \in Task \ Unborn
      BY <2>1, <2>2 DEF KnownTasks, CallerKnows, HasTask
    <3> QED BY <1>4, <2>2, <3>1 DEF Told, Unborn, Live
  <2>3. ASSUME NEW t \in stopping, Live(t)
        PROVE  \E c \in Caller : pc[c] = "shutting" /\ task[c] = t
    <3>1. t \in Task /\ t # cache
      BY <2>1 DEF TypeOK, KnownTasks, CacheIsLive
    <3>2. PICK c \in Caller : pc[c] \in HasTask /\ task[c] = t
      BY <2>1, <2>3, <3>1 DEF KnownTasks, HeldTasks
    <3>3. pc[c] \notin {"inserting", "flagging"}
      BY <2>1, <3>2 DEF KnownTasks, CallerKnows
    <3> QED BY <3>2, <3>3 DEF HasTask
  <2> QED BY <2>2, <2>3 DEF RemovalIsHeard
<1> QED BY <1>3, <1>4, Invariance, PTL
===============================================================================
