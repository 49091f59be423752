----------------------------- MODULE TaskManager -----------------------------
(***************************************************************************)
(* A download manager and one destination                                  *)
(* (crates/download-manager/src/backends/common): callers of               *)
(* file_download_task and remove_file_task, the cache of tasks, the map of *)
(* construction locks, and the observation of the files that a new task    *)
(* starts from.                                                            *)
(*                                                                         *)
(* A step is one await of a caller.  The destination lock names a manager, *)
(* not a task: a second task of the same manager would be given the lease  *)
(* the first one holds, so only the construction lock keeps tasks apart.   *)
(* Tasks are abstracted to the phases of DownloadLifecycle.  Another       *)
(* application opens and downloads the same file under the lock; like this *)
(* one, it never removes a file that is valid.                             *)
(***************************************************************************)
EXTENDS StartupReducer, FiniteSets

CONSTANTS
  Caller,       \* users of the manager
  Mutex,        \* identities of construction locks
  NoMutex,      \* no entry in the map
  MaxTasks,     \* bound: tasks made for the destination
  Contents,     \* what a part file may hold
  OthersShare   \* do other applications use the same destination?

ASSUME ManagerAssumption ==
  /\ NoMutex \notin Mutex /\ MaxTasks \in Nat
  /\ Contents \subseteq File /\ OthersShare \in BOOLEAN

VARIABLES
  pc,          \* the await each caller is in
  op,          \* what each caller asked for
  handle,      \* the construction lock each caller has a reference to
  look,        \* what each caller has observed
  task,        \* the task each caller has made or taken
  registered,  \* the entry of construction_locks
  cache,       \* the entry of task_cache, 0 for none
  phase,       \* the state of every task's actor
  stopping,    \* tasks whose is_stopped is set
  lock,        \* who holds the destination
  part, dest,  \* the files
  seen         \* history: the states the files stood for since the look under way began

callers == <<pc, op, handle, look, task>>
maps == <<registered, cache>>
tasks == <<phase, stopping>>
disk == <<lock, part, dest, seen>>
vars == <<callers, maps, tasks, disk>>

Task == 1 .. MaxTasks
NoTask == 0

\* `turn` says which observation of prepare_startup this is: before the lease,
\* under it, or after it was refused.
Look == [turn : {"before", "leased", "refused"}, part : BOOLEAN, dest : FileOrNone,
         conflict : BOOLEAN, checked : {"Missing", "Invalid", "Valid"}]
NoLook == [turn |-> "before", part |-> FALSE, dest |-> NoFile,
           conflict |-> FALSE, checked |-> "Missing"]

Observing == {"readPart", "readDest", "readLock", "validating"}
Constructing == Observing \cup {"rechecking", "acquiring", "applying", "releasing",
                                "aborting", "spawning", "inserting", "failing"}
Removing == {"taking", "flagging", "shutting"}

\* Inside the construction lock; the last two have nothing left to do there.
Working == Constructing \cup Removing \cup {"unregistering"}
Inside == Working \cup {"leaving"}

Init ==
  /\ pc = [c \in Caller |-> "idle"] /\ op = [c \in Caller |-> "open"]
  /\ handle = [c \in Caller |-> NoMutex] /\ look = [c \in Caller |-> NoLook]
  /\ task = [c \in Caller |-> NoTask]
  /\ registered = NoMutex /\ cache = NoTask
  /\ phase = [t \in Task |-> "unborn"] /\ stopping = {}
  /\ lock \in {"free", "dead"} \cup (IF OthersShare THEN {"other"} ELSE {})
  /\ part \in Contents \cup {NoFile} /\ dest \in Contents \cup {NoFile}
  /\ seen = {}

Goto(c, stage) == pc' = [pc EXCEPT ![c] = stage]
Live(t) == phase[t] \notin {"unborn", "stopped"}
CachedLive == cache # NoTask /\ cache \notin stopping

\* The files change: an observation under way may have seen either state.
Witness ==
  seen' = IF seen = {} THEN {} ELSE seen \cup {InitialLifecycleState(dest', part')}

\* A call returns: the guard, the reference and everything it has observed go.
Return(c) ==
  /\ Goto(c, "idle") /\ op' = [op EXCEPT ![c] = "open"]
  /\ handle' = [handle EXCEPT ![c] = NoMutex] /\ look' = [look EXCEPT ![c] = NoLook]
  /\ task' = [task EXCEPT ![c] = NoTask]

-----------------------------------------------------------------------------
(* Getting in and out of the construction lock                              *)

Opening == {c \in Caller : pc[c] # "idle" /\ op[c] = "open"}
Unborn == {t \in Task : phase[t] = "unborn"}

Open(c) ==
  /\ pc[c] = "idle" /\ Cardinality(Opening) < Cardinality(Unborn)
  /\ Goto(c, "looking") /\ op' = [op EXCEPT ![c] = "open"]
  /\ UNCHANGED <<handle, look, task, maps, tasks, disk>>

\* The first look into the cache, without the construction lock.
LookUp(c) ==
  /\ pc[c] = "looking"
  /\ \/ CachedLive /\ Return(c)
     \/ ~CachedLive /\ Goto(c, "queueing") /\ UNCHANGED <<op, handle, look, task>>
  /\ UNCHANGED <<maps, tasks, disk>>

Remove(c) ==
  /\ pc[c] = "idle"
  /\ Goto(c, "queueing") /\ op' = [op EXCEPT ![c] = "remove"]
  /\ UNCHANGED <<handle, look, task, maps, tasks, disk>>

\* construction_lock: the registered lock, or a new one.
Queue(c) ==
  /\ pc[c] = "queueing"
  /\ \/ registered # NoMutex /\ registered' = registered
     \/ registered = NoMutex /\ registered' \in Mutex \ {handle[d] : d \in Caller}
  /\ handle' = [handle EXCEPT ![c] = registered']
  /\ Goto(c, "waiting")
  /\ UNCHANGED <<op, look, task, cache, tasks, disk>>

Enter(c) ==
  /\ pc[c] = "waiting"
  /\ \A d \in Caller : handle[d] = handle[c] => pc[d] \notin Inside
  /\ Goto(c, IF op[c] = "open" THEN "rechecking" ELSE "taking")
  /\ UNCHANGED <<op, handle, look, task, maps, tasks, disk>>

Unshared(c) == \A d \in Caller \ {c} : handle[d] # handle[c]

\* Mutant of Unregister: the entry goes whoever else is waiting for it.
UnregisterShared(c) ==
  registered' = IF registered = handle[c] THEN NoMutex ELSE registered

\* remove_construction_lock_if_unshared: only the map and this caller refer to it.
Unregister(c) ==
  registered' = IF registered = handle[c] /\ Unshared(c) THEN NoMutex ELSE registered

FinishRemove(c) ==
  /\ pc[c] = "unregistering"
  /\ Unregister(c) /\ Goto(c, "leaving")
  /\ UNCHANGED <<op, handle, look, task, cache, tasks, disk>>

Leave(c) == pc[c] = "leaving" /\ Return(c) /\ UNCHANGED <<maps, tasks, disk>>

-----------------------------------------------------------------------------
(* file_download_task: the cache is looked at again, then the files are.    *)

\* Mutant of Recheck: what the first look into the cache found is relied on.
RecheckNothing(c) ==
  /\ pc[c] = "rechecking"
  /\ Goto(c, "readPart")
  /\ UNCHANGED <<op, handle, look, task, maps, tasks, disk>>

Recheck(c) ==
  /\ pc[c] = "rechecking"
  /\ \/ CachedLive /\ Return(c) /\ UNCHANGED cache
     \/ /\ ~CachedLive /\ Goto(c, "readPart") /\ cache' = NoTask
        /\ UNCHANGED <<op, handle, look, task>>
  /\ UNCHANGED <<registered, tasks, disk>>

\* Startup::observe reads the part file, then the destination, then the lock
\* file; validate reads the destination's bytes.
ReadPart(c) ==
  /\ pc[c] = "readPart" /\ Goto(c, "readDest")
  /\ look' = [look EXCEPT ![c].part = part # NoFile]
  /\ seen' = {InitialLifecycleState(dest, part)}
  /\ UNCHANGED <<op, handle, task, maps, tasks, lock, part, dest>>

ReadDest(c) ==
  /\ pc[c] = "readDest" /\ Goto(c, "readLock")
  /\ look' = [look EXCEPT ![c].dest = dest]
  /\ UNCHANGED <<op, handle, task, maps, tasks, disk>>

\* Mutant of ReadLock: the part file is looked at last.
ReadLockAndPart(c) ==
  /\ pc[c] = "readLock" /\ Goto(c, "validating")
  /\ look' = [look EXCEPT ![c].conflict = lock = "other", ![c].part = part # NoFile]
  /\ UNCHANGED <<op, handle, task, maps, tasks, disk>>

ReadLock(c) ==
  /\ pc[c] = "readLock" /\ Goto(c, "validating")
  /\ look' = [look EXCEPT ![c].conflict = lock = "other"]
  /\ UNCHANGED <<op, handle, task, maps, tasks, disk>>

\* validate: the length is the one observed, the checksum is of what is there now.
Checked(c) ==
  LET file == look[c].dest IN
  IF file = NoFile THEN "Missing"
  ELSE IF /\ ChecksLength => file.length = Size
          /\ ChecksCrc => dest # NoFile /\ dest.sound /\ dest.length = Size
       THEN "Valid" ELSE "Invalid"

\* decide: the state a task is to start in, and whether there is a file to delete.
StateSeen(c) ==
  IF look[c].checked = "Valid" THEN "Downloaded"
  ELSE IF look[c].part THEN "Paused" ELSE "NotDownloaded"
HasPlan(c) == Checked(c) = "Invalid" \/ (Checked(c) = "Valid" /\ look[c].part)

\* prepare_startup: what an observation leads to.  Without a lease, a plan asks
\* for one, and so may a receipt that has to be written or deleted.
Decide(c) ==
  /\ pc[c] = "validating"
  /\ look' = [look EXCEPT ![c].checked = Checked(c)]
  /\ \/ look[c].turn = "before" /\ ~look[c].conflict /\ Goto(c, "acquiring")
     \/ look[c].turn = "before" /\ (look[c].conflict \/ ~HasPlan(c)) /\ Goto(c, "spawning")
     \/ look[c].turn = "leased" /\ Goto(c, "applying")
     \/ look[c].turn = "refused" /\ look[c].conflict /\ Goto(c, "spawning")
     \/ look[c].turn = "refused" /\ ~look[c].conflict /\ Goto(c, "failing")
  /\ UNCHANGED <<op, handle, task, maps, tasks, disk>>

\* A lock of this manager is as good as none.
MayLease == lock \in {"free", "dead", "ours"}

\* Mutant of Acquire: the plan made before the lease is applied under it.
AcquireAndApply(c) ==
  /\ pc[c] = "acquiring"
  /\ \/ /\ MayLease /\ lock' = "ours" /\ Goto(c, "applying")
        /\ look' = [look EXCEPT ![c].turn = "leased"]
     \/ /\ lock = "other" /\ lock' = lock /\ Goto(c, "readPart")
        /\ look' = [look EXCEPT ![c].turn = "refused"]
     \/ lock' = lock /\ Goto(c, "failing") /\ UNCHANGED look
  /\ UNCHANGED <<op, handle, task, maps, tasks, part, dest, seen>>

\* The lease is taken, or another application has it, or the lock file cannot be
\* written; in the first two cases the files are observed again.
Acquire(c) ==
  /\ pc[c] = "acquiring"
  /\ \/ /\ MayLease /\ lock' = "ours" /\ Goto(c, "readPart")
        /\ look' = [look EXCEPT ![c].turn = "leased"]
     \/ /\ lock = "other" /\ lock' = lock /\ Goto(c, "readPart")
        /\ look' = [look EXCEPT ![c].turn = "refused"]
     \/ lock' = lock /\ Goto(c, "failing") /\ UNCHANGED look
  /\ UNCHANGED <<op, handle, task, maps, tasks, part, dest, seen>>

\* apply_actions deletes what the plan names, whatever is there now; it may fail
\* before or after.
Apply(c) ==
  /\ pc[c] = "applying"
  /\ \/ /\ dest' = IF look[c].checked = "Invalid" THEN NoFile ELSE dest
        /\ part' = IF look[c].checked = "Valid" /\ look[c].part THEN NoFile ELSE part
        /\ Goto(c, "releasing") \/ Goto(c, "aborting")
     \/ UNCHANGED <<part, dest>> /\ Goto(c, "aborting")
  /\ Witness
  /\ UNCHANGED <<op, handle, look, task, maps, tasks, lock>>

\* Mutant of Release: a failure keeps the lease.
ReleaseAfterSuccess(c) ==
  /\ \/ pc[c] = "releasing" /\ Goto(c, "spawning") /\ lock' = "free"
     \/ pc[c] = "aborting" /\ Goto(c, "failing") /\ lock' = lock
  /\ UNCHANGED <<op, handle, look, task, maps, tasks, part, dest, seen>>

Release(c) ==
  /\ \/ pc[c] = "releasing" /\ Goto(c, "spawning")
     \/ pc[c] = "aborting" /\ Goto(c, "failing")
  /\ lock' = "free"
  /\ UNCHANGED <<op, handle, look, task, maps, tasks, part, dest, seen>>

Spawn(c) ==
  /\ pc[c] = "spawning" /\ Goto(c, "inserting")
  /\ \E t \in Unborn :
       /\ \A u \in Unborn : t <= u
       /\ phase' = [phase EXCEPT ![t] = StateSeen(c)]
       /\ task' = [task EXCEPT ![c] = t]
  /\ seen' = {}
  /\ UNCHANGED <<op, handle, look, maps, stopping, lock, part, dest>>

\* insert_task; the guard and the reference are dropped, the entry stays.
Insert(c) ==
  /\ pc[c] = "inserting" /\ Return(c) /\ cache' = task[c]
  /\ UNCHANGED <<registered, tasks, disk>>

Fail(c) ==
  /\ pc[c] = "failing"
  /\ Unregister(c) /\ Goto(c, "leaving") /\ seen' = {}
  /\ UNCHANGED <<op, handle, look, task, cache, tasks, lock, part, dest>>

-----------------------------------------------------------------------------
(* remove_file_task                                                         *)

Take(c) ==
  /\ pc[c] = "taking"
  /\ task' = [task EXCEPT ![c] = cache] /\ cache' = NoTask
  /\ Goto(c, IF cache = NoTask THEN "unregistering" ELSE "flagging")
  /\ UNCHANGED <<op, handle, look, registered, tasks, disk>>

\* Mutant of Shutdown: the actor is waited for and not told.
ShutdownUntold(c) ==
  /\ pc[c] = "flagging" /\ Goto(c, "shutting")
  /\ UNCHANGED <<op, handle, look, task, maps, tasks, disk>>

\* Mutant of Shutdown: the task is looked for in the cache it was taken from.
ShutdownCached(c) ==
  /\ pc[c] = "flagging" /\ Goto(c, "shutting")
  /\ stopping' = stopping \cup {cache}
  /\ UNCHANGED <<op, handle, look, task, maps, phase, disk>>

\* shutdown_for_removal sets is_stopped and sends Remove.
Shutdown(c) ==
  /\ pc[c] = "flagging" /\ Goto(c, "shutting")
  /\ stopping' = stopping \cup {task[c]}
  /\ UNCHANGED <<op, handle, look, task, maps, phase, disk>>

AwaitStopped(c) ==
  /\ pc[c] = "shutting" /\ phase[task[c]] = "stopped" /\ Goto(c, "unregistering")
  /\ task' = [task EXCEPT ![c] = NoTask]
  /\ UNCHANGED <<op, handle, look, maps, tasks, disk>>

-----------------------------------------------------------------------------
(* The tasks.  Any handle may command one until it is stopped.              *)

TaskOnly == UNCHANGED <<callers, maps, stopping>>
Become(t, state) == phase' = [phase EXCEPT ![t] = state]

BeginDownload(t) ==
  /\ phase[t] \in {"NotDownloaded", "Paused"} /\ Become(t, "Downloading")
  /\ MayLease /\ lock' = "ours"
  /\ UNCHANGED <<part, dest, seen>> /\ TaskOnly

Fetch(t) ==
  /\ phase[t] = "Downloading" /\ part' \in Contents
  /\ UNCHANGED <<phase, lock, dest>> /\ Witness /\ TaskOnly

\* A pause; a completion, of a file that passes its checks or is deleted; a
\* failure or a cancel.
EndDownload(t) ==
  /\ phase[t] = "Downloading" /\ lock' = "free"
  /\ \/ Become(t, "Paused") /\ UNCHANGED <<part, dest>>
     \/ /\ part # NoFile /\ part' = NoFile
        /\ \/ Validate(part) /\ dest' = part /\ Become(t, "Downloaded")
           \/ ~Validate(part) /\ dest' = NoFile /\ Become(t, "NotDownloaded")
     \/ Become(t, "NotDownloaded") /\ part' = NoFile /\ dest' = dest
  /\ Witness /\ TaskOnly

\* The actor serves Remove and ends.
StopTask(t) ==
  /\ t \in stopping /\ Live(t) /\ Become(t, "stopped")
  /\ part' = IF phase[t] \in {"Downloading", "Paused"} THEN NoFile ELSE part
  /\ lock' = IF phase[t] = "Downloading" THEN "free" ELSE lock
  /\ UNCHANGED dest /\ Witness /\ TaskOnly

-----------------------------------------------------------------------------
(* Another application, under the lock                                      *)

OthersStep == UNCHANGED <<callers, maps, tasks>>
OthersAcquire ==
  /\ OthersShare /\ lock \in {"free", "dead"} /\ lock' = "other"
  /\ UNCHANGED <<part, dest, seen>> /\ OthersStep
OthersRelease ==
  /\ lock = "other" /\ lock' \in {"free", "dead"}
  /\ UNCHANGED <<part, dest, seen>> /\ OthersStep
OthersWrite ==
  /\ lock = "other" /\ UNCHANGED lock
  /\ \/ ~Validate(dest) /\ part' \in Contents /\ UNCHANGED dest
     \/ ~Validate(dest) /\ part # NoFile /\ dest' = part /\ part' = NoFile
     \/ ~Validate(dest) /\ dest' = NoFile /\ UNCHANGED part
     \/ part' = NoFile /\ UNCHANGED dest
  /\ Witness /\ OthersStep

CallerStep(c) ==
  \/ LookUp(c) \/ Queue(c) \/ Recheck(c)
  \/ ReadPart(c) \/ ReadDest(c) \/ ReadLock(c) \/ Decide(c)
  \/ Acquire(c) \/ Apply(c) \/ Release(c) \/ Spawn(c) \/ Insert(c) \/ Fail(c)
  \/ Take(c) \/ Shutdown(c) \/ AwaitStopped(c) \/ FinishRemove(c) \/ Leave(c)

Next ==
  \/ \E c \in Caller : Open(c) \/ Remove(c) \/ Enter(c) \/ CallerStep(c)
  \/ \E t \in Task : BeginDownload(t) \/ Fetch(t) \/ EndDownload(t) \/ StopTask(t)
  \/ OthersAcquire \/ OthersRelease \/ OthersWrite

Spec == Init /\ [][Next]_vars

\* The runtime drives every call and every actor; a tokio mutex serves its
\* waiters in the order they came.
FairSpec ==
  /\ Spec
  /\ \A c \in Caller : WF_vars(CallerStep(c)) /\ SF_vars(Enter(c))
  /\ \A t \in Task : WF_vars(StopTask(t))

-----------------------------------------------------------------------------
Stage == Inside \cup {"idle", "looking", "queueing", "waiting"}
Phase == {"unborn", "NotDownloaded", "Paused", "Downloading", "Downloaded", "stopped"}

TypeOK ==
  /\ pc \in [Caller -> Stage] /\ op \in [Caller -> {"open", "remove"}]
  /\ handle \in [Caller -> Mutex \cup {NoMutex}] /\ look \in [Caller -> Look]
  /\ task \in [Caller -> Task \cup {NoTask}]
  /\ registered \in Mutex \cup {NoMutex} /\ cache \in Task \cup {NoTask}
  /\ phase \in [Task -> Phase] /\ stopping \subseteq Task
  /\ lock \in {"free", "dead", "ours", "other"}
  /\ part \in FileOrNone /\ dest \in FileOrNone
  /\ seen \subseteq {"NotDownloaded", "Paused", "Downloaded"}

\* The comment in remove_construction_lock_if_unshared: nobody who still has
\* something to do is left "on a different mutex" than those who come later.
OneQueue ==
  \A c, d \in Caller :
    pc[c] \in Working \cup {"waiting"} /\ pc[d] \in Working \cup {"waiting"}
      => handle[c] = handle[d]

\* A destination has at most one task whose actor runs, whatever calls and
\* removals race: the destination lock would not keep a second one out.
OneLiveTask == \A t, u \in Task : Live(t) /\ Live(u) => t = u

\* The lease is held by a download or by a call that will give it back, and
\* never by both: no path of either keeps it.
Leased(c) ==
  \/ pc[c] \in {"applying", "releasing", "aborting"}
  \/ pc[c] \in Observing /\ look[c].turn = "leased"
LeaseIsUsed ==
  /\ lock = "ours" <=> \/ \E c \in Caller : Leased(c)
                       \/ \E t \in Task : phase[t] = "Downloading"
  /\ \A c \in Caller, t \in Task : ~(Leased(c) /\ phase[t] = "Downloading")

\* The state a task starts in is one the files stood for at some moment of the
\* last observation, whatever another application did between its reads.
OpensAsItWas == \A c \in Caller : pc[c] = "spawning" => StateSeen(c) \in seen

\* What the clean-up deletes is what it was meant to delete: a destination that
\* fails its checks, a part file beside one that passes them, under the lease.
CleanUpStep ==
  \A c \in Caller :
    pc[c] = "applying" /\ pc'[c] # "applying" =>
      /\ dest' # dest => lock = "ours" /\ ~Validate(dest)
      /\ part' # part => lock = "ours" /\ Validate(dest)
CleanUpIsLawful == [][CleanUpStep]_vars

\* Every call of the manager returns.
CallsReturn == \A c \in Caller : pc[c] # "idle" ~> pc[c] = "idle"
===============================================================================
