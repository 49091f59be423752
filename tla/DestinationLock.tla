--------------------------- MODULE DestinationLock ---------------------------
(***************************************************************************)
(* The destination lock of the download manager                            *)
(* (crates/download-manager/src/lock_manager.rs): a file "<dest>.lock"     *)
(* that names the manager instance allowed to write one destination.       *)
(*                                                                         *)
(* Every manager instance works on the same lock path.  A step is one file *)
(* system call of the code; between two of them any other manager may run, *)
(* any process may crash and be started again, and time may pass.  A lock  *)
(* file is published whole (a temporary file is written, then hard-linked) *)
(* so it is a value here; renaming it to a name that only one caller knows *)
(* (a quarantine) moves that value to the caller's entry of `quarantine`.  *)
(***************************************************************************)
EXTENDS Naturals

CONSTANTS
  Manager,            \* manager instances: the callers of this file
  ProcessOf,          \* the process each of them runs in
  AppOf,              \* the manager_id string each of them uses
  NoFile,             \* no file at a path
  Garbled,            \* a lock file that is not a LockFileInfo
  LockTimeout,        \* LOCK_TIMEOUT_MINUTES
  MaxNow,             \* bound: clock ticks
  MaxIncarnation,     \* bound: starts of one process
  CrashInQuarantine   \* may a process die while it has a lock in quarantine?

Process == {ProcessOf[m] : m \in Manager}

\* LockFileInfo.  The incarnation stands for process_id and instance_id: both
\* are new after a restart.
LockInfo == [manager : Manager, incarnation : Nat, acquiredAt : Nat]
LockFile == LockInfo \cup {Garbled, NoFile}

Stage == {"idle", "linking", "reading", "classifying", "reclaiming",
          "confirmReclaim", "holding", "unlinking", "confirmRelease", "restoring"}

ASSUME ConstantsAssumption ==
  /\ LockTimeout \in Nat /\ MaxNow \in Nat /\ MaxIncarnation \in Nat
  /\ CrashInQuarantine \in BOOLEAN
  /\ NoFile \notin LockInfo /\ Garbled \notin LockInfo /\ NoFile # Garbled

VARIABLES
  lock,         \* the file at the lock path
  quarantine,   \* the file each manager has renamed away
  observed,     \* the content each manager last read
  pc,           \* where each manager is in acquire_lock or release_lock
  incarnation,  \* how often each process was started
  now           \* the clock

vars == <<lock, quarantine, observed, pc, incarnation, now>>

-----------------------------------------------------------------------------
(* What a manager makes of a lock file: check_lock_file.                    *)

Alive(info) == info.incarnation = incarnation[ProcessOf[info.manager]]

\* Mutant of Mine: the lock is dated one tick back.
MineEarlier(m) == [manager |-> m,
                   incarnation |-> incarnation[ProcessOf[m]],
                   acquiredAt |-> now - 1]

Mine(m) == [manager |-> m,
            incarnation |-> incarnation[ProcessOf[m]],
            acquiredAt |-> now]

IsOurs(m, file) == file \in LockInfo /\ file.manager = m /\ Alive(file)

\* Mutants of IsReclaimable: whether the owner runs is not asked once the lock is
\* old; another application's lock need not be old; an own lock must be.
IsReclaimableByAge(m, file) ==
  \/ file = Garbled /\ now >= LockTimeout
  \/ /\ file \in LockInfo
     /\ \/ AppOf[file.manager] = AppOf[m] /\ ~Alive(file)
        \/ now > file.acquiredAt + LockTimeout
IsReclaimableDead(m, file) ==
  \/ file = Garbled /\ now >= LockTimeout
  \/ file \in LockInfo /\ ~Alive(file)
IsReclaimableLate(m, file) ==
  \/ file = Garbled /\ now >= LockTimeout
  \/ file \in LockInfo /\ ~Alive(file) /\ now > file.acquiredAt + LockTimeout

IsReclaimable(m, file) ==
  \/ file = Garbled /\ now >= LockTimeout
  \/ /\ file \in LockInfo
     /\ ~Alive(file)
     /\ \/ AppOf[file.manager] = AppOf[m]
        \/ now > file.acquiredAt + LockTimeout

IsConflict(m, file) ==
  file # NoFile /\ ~IsOurs(m, file) /\ ~IsReclaimable(m, file)

\* A lock left behind before any of these processes started.
Leftover == {[manager |-> m, incarnation |-> 0, acquiredAt |-> 0] : m \in Manager}

Init ==
  /\ lock \in {NoFile, Garbled} \cup Leftover
  /\ quarantine = [m \in Manager |-> NoFile]
  /\ observed = [m \in Manager |-> NoFile]
  /\ pc = [m \in Manager |-> "idle"]
  /\ incarnation = [p \in Process |-> 1]
  /\ now = 0

Goto(m, stage) == pc' = [pc EXCEPT ![m] = stage]
Observe(m, file) == observed' = [observed EXCEPT ![m] = file]
Quarantine(m, file) == quarantine' = [quarantine EXCEPT ![m] = file]

-----------------------------------------------------------------------------
(* acquire_lock                                                             *)

Acquire(m) ==
  /\ pc[m] = "idle"
  /\ Goto(m, "linking")
  /\ UNCHANGED <<lock, quarantine, observed, incarnation, now>>

\* write_new_lock_file: hard_link either publishes the lock or finds one.
InstallLock(m) ==
  /\ pc[m] = "linking"
  /\ \/ lock = NoFile /\ lock' = Mine(m) /\ Goto(m, "holding")
     \/ lock # NoFile /\ lock' = lock /\ Goto(m, "reading")
  /\ UNCHANGED <<quarantine, observed, incarnation, now>>

ReadLock(m) ==
  /\ pc[m] = "reading"
  /\ \/ lock = NoFile /\ Goto(m, "linking") /\ observed' = observed
     \/ lock # NoFile /\ Goto(m, "classifying") /\ Observe(m, lock)
  /\ UNCHANGED <<lock, quarantine, incarnation, now>>

\* The owner's process is probed after the file was read.
ClassifyLock(m) ==
  /\ pc[m] = "classifying"
  /\ \/ IsOurs(m, observed[m]) /\ Goto(m, "holding") /\ Observe(m, NoFile)
     \/ IsReclaimable(m, observed[m]) /\ Goto(m, "reclaiming") /\ UNCHANGED observed
     \/ IsConflict(m, observed[m]) /\ Goto(m, "idle") /\ Observe(m, NoFile)
  /\ UNCHANGED <<lock, quarantine, incarnation, now>>

\* The rename of reclaim_stale_lock and release_lock_if_owned: it takes whatever
\* is at the path now.  `nothing` and `confirm` are where they go on.
RenameAway(m, nothing, confirm) ==
  /\ \/ lock = NoFile /\ Goto(m, nothing) /\ Observe(m, NoFile) /\ UNCHANGED quarantine
     \/ lock # NoFile /\ Goto(m, confirm) /\ Quarantine(m, lock) /\ UNCHANGED observed
  /\ lock' = NoFile
  /\ UNCHANGED <<incarnation, now>>

\* Mutant of Confirm: the renamed file is removed unread.
ConfirmBlindly(m, done, restore) ==
  /\ Goto(m, done) /\ Quarantine(m, NoFile)
  /\ Observe(m, NoFile)
  /\ UNCHANGED <<lock, incarnation, now>>

\* The renamed file is read again: removed if it is the one that was observed,
\* else it has to be put back.
Confirm(m, done, restore) ==
  /\ \/ quarantine[m] = observed[m] /\ Goto(m, done) /\ Quarantine(m, NoFile)
     \/ quarantine[m] # observed[m] /\ Goto(m, restore) /\ UNCHANGED quarantine
  /\ Observe(m, NoFile)
  /\ UNCHANGED <<lock, incarnation, now>>

\* A reclaim that removed the file, or found none, runs acquire_lock again.
RenameStale(m) == pc[m] = "reclaiming" /\ RenameAway(m, "linking", "confirmReclaim")
ConfirmReclaim(m) == pc[m] = "confirmReclaim" /\ Confirm(m, "linking", "restoring")

-----------------------------------------------------------------------------
(* release_lock_if_owned                                                    *)

Release(m) ==
  /\ pc[m] = "holding"
  /\ \/ IsOurs(m, lock) /\ Goto(m, "unlinking") /\ Observe(m, lock)
     \/ ~IsOurs(m, lock) /\ Goto(m, "idle") /\ UNCHANGED observed
  /\ UNCHANGED <<lock, quarantine, incarnation, now>>

RenameOwn(m) == pc[m] = "unlinking" /\ RenameAway(m, "idle", "confirmRelease")
ConfirmRelease(m) == pc[m] = "confirmRelease" /\ Confirm(m, "idle", "restoring")

-----------------------------------------------------------------------------
\* try_restore_quarantine: hard_link puts the file back unless the path is
\* taken; the quarantined file is removed either way.  Both callers then give
\* up (Changed, or Ok(false)).
Restore(m) ==
  /\ pc[m] = "restoring"
  /\ lock' = IF lock = NoFile THEN quarantine[m] ELSE lock
  /\ Quarantine(m, NoFile)
  /\ Goto(m, "idle")
  /\ UNCHANGED <<observed, incarnation, now>>

ManagerStep(m) ==
  \/ InstallLock(m) \/ ReadLock(m) \/ ClassifyLock(m) \/ RenameStale(m)
  \/ ConfirmReclaim(m) \/ RenameOwn(m) \/ ConfirmRelease(m) \/ Restore(m)

\* A process dies and is started again: its managers forget everything, and a
\* file they had in quarantine is never looked at again.
Restart(p) ==
  LET dead == {m \in Manager : ProcessOf[m] = p} IN
  /\ incarnation[p] < MaxIncarnation
  /\ CrashInQuarantine \/ \A m \in dead : quarantine[m] = NoFile
  /\ incarnation' = [incarnation EXCEPT ![p] = @ + 1]
  /\ pc' = [m \in Manager |-> IF m \in dead THEN "idle" ELSE pc[m]]
  /\ observed' = [m \in Manager |-> IF m \in dead THEN NoFile ELSE observed[m]]
  /\ quarantine' = [m \in Manager |-> IF m \in dead THEN NoFile ELSE quarantine[m]]
  /\ UNCHANGED <<lock, now>>

Tick ==
  /\ now < MaxNow
  /\ now' = now + 1
  /\ UNCHANGED <<lock, quarantine, observed, pc, incarnation>>

Next ==
  \/ \E m \in Manager : Acquire(m) \/ Release(m) \/ ManagerStep(m)
  \/ \E p \in Process : Restart(p)
  \/ Tick

Spec == Init /\ [][Next]_vars

\* A call that has begun is driven to its end by the runtime; when a manager
\* acquires or releases is its user's choice.
FairSpec == Spec /\ \A m \in Manager : WF_vars(ManagerStep(m))

-----------------------------------------------------------------------------
TypeOK ==
  /\ lock \in LockFile
  /\ quarantine \in [Manager -> LockFile]
  /\ observed \in [Manager -> LockFile]
  /\ pc \in [Manager -> Stage]
  /\ incarnation \in [Process -> Nat]
  /\ now \in Nat

\* Two managers never hold the destination at once: DestinationLockLease is the
\* licence to write the part file and the destination.
AtMostOneLease ==
  \A m, n \in Manager : pc[m] = "holding" /\ pc[n] = "holding" => m = n

\* The lock file of a manager that still runs is at the path, or the path is
\* free and a caller that has the file in quarantine may put it back.
OnDisk(m) ==
  \/ IsOurs(m, lock)
  \/ lock = NoFile /\ \E n \in Manager \ {m} : IsOurs(m, quarantine[n])

\* While a manager holds the lease its lock file is never destroyed, whatever
\* reclaim and restore of others do to it (lock_manager.rs, the comment in
\* try_restore_quarantine).
HolderKeepsItsLock == \A m \in Manager : pc[m] = "holding" => OnDisk(m)

LawfulTarget(m, file) ==
  \/ file = Garbled /\ now >= LockTimeout
  \/ /\ file \in LockInfo /\ ~Alive(file)
     /\ AppOf[file.manager] # AppOf[m] => now - file.acquiredAt > LockTimeout

ReclaimStepIsLawful ==
  \A m \in Manager :
    pc[m] = "confirmReclaim" /\ pc'[m] = "linking" => LawfulTarget(m, quarantine[m])

\* A reclaim destroys only the lock of a process that is gone: at once if it
\* was of the same application, after the timeout otherwise.
ReclaimIsLawful == [][ReclaimStepIsLawful]_vars

\* A lock left by a dead process of the same application does not survive an
\* acquire that meets it, once the acquirer's process crashes no more.
DeadLockIsCleared ==
  \A m \in Manager :
    LET Blocked == /\ lock \in LockInfo /\ ~Alive(lock) /\ AppOf[lock.manager] = AppOf[m]
    IN  (/\ Blocked
         /\ pc[m] = "linking"
         /\ incarnation[ProcessOf[m]] = MaxIncarnation) ~> ~Blocked
=============================================================================
