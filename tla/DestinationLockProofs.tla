------------------------ MODULE DestinationLockProofs ------------------------
(***************************************************************************)
(* Theorems about DestinationLock.                                         *)
(*                                                                         *)
(* Two managers cannot hold the lock together as long as no process dies   *)
(* with a lock in quarantine (TwoManagersExclude).  Any number of managers *)
(* exclude each other, wherever processes die, in a behaviour where no     *)
(* reclaim renames a file other than the one it had observed               *)
(* (ManyManagersExclude): that window is the one thing the code leaves     *)
(* open.                                                                   *)
(***************************************************************************)
EXTENDS DestinationLock, TLAPS

\* No file names an incarnation that has not begun, so a dead owner stays dead.
FromThePast(file) ==
  file \in LockInfo => file.incarnation <= incarnation[ProcessOf[file.manager]]

NothingFromTheFuture ==
  /\ FromThePast(lock)
  /\ \A m \in Manager : FromThePast(quarantine[m]) /\ FromThePast(observed[m])

\* What a manager is about to destroy: never a running manager's file when it
\* reclaims, its own file when it releases.
ReclaimsTheDead ==
  \A m, n \in Manager :
    pc[m] \in {"reclaiming", "confirmReclaim"} => ~IsOurs(n, observed[m])

ReleasesItsOwn ==
  \A m \in Manager :
    pc[m] \in {"unlinking", "confirmRelease"} => IsOurs(m, observed[m])

QuarantineIsInUse ==
  \A m \in Manager :
    quarantine[m] # NoFile => pc[m] \in {"confirmReclaim", "confirmRelease", "restoring"}

Common == TypeOK /\ NothingFromTheFuture /\ ReclaimsTheDead /\ ReleasesItsOwn
          /\ QuarantineIsInUse

\* A manager that holds the lease, or has read its own lock file and will hold it.
Claims(m) ==
  \/ pc[m] = "holding"
  \/ pc[m] = "classifying" /\ IsOurs(m, observed[m])

ClaimIsOnDisk == \A m \in Manager : Claims(m) => OnDisk(m)

PairInv == Common /\ ClaimIsOnDisk

\* Stronger, and true when no reclaim comes late.
ClaimIsAtThePath ==
  \A m \in Manager : Claims(m) \/ pc[m] = "unlinking" => IsOurs(m, lock)

ManyInv == Common /\ ClaimIsAtThePath

\* A reclaim renames the file it observed, or finds none.
NoLateReclaim ==
  \A m \in Manager :
    pc[m] = "reclaiming" /\ pc'[m] = "confirmReclaim" => lock = observed[m]

AtMostTwoManagers ==
  \A x, y, z \in Manager : x = y \/ y = z \/ x = z

-----------------------------------------------------------------------------
\* The initial states satisfy what both arguments share.
LEMMA InitCommon == Init => Common
  <1>1. ASSUME Init PROVE TypeOK
    BY <1>1 DEF Init, TypeOK, LockFile, LockInfo, Leftover, Stage
  <1>2. ASSUME Init PROVE NothingFromTheFuture
    <2>1. FromThePast(lock)
      BY <1>2, ConstantsAssumption DEF Init, FromThePast, Leftover, LockInfo, Process
    <2>2. FromThePast(NoFile)
      BY ConstantsAssumption DEF FromThePast
    <2> QED BY <1>2, <2>1, <2>2 DEF Init, NothingFromTheFuture, FromThePast
  <1>3. ASSUME Init PROVE ReclaimsTheDead /\ ReleasesItsOwn /\ QuarantineIsInUse
    BY <1>3 DEF Init, ReclaimsTheDead, ReleasesItsOwn, QuarantineIsInUse
  <1> QED BY <1>1, <1>2, <1>3 DEF Common

\* Every step keeps every variable in its type.
LEMMA TypeStep == TypeOK /\ [Next]_vars => TypeOK'
  <1> SUFFICES ASSUME TypeOK, [Next]_vars PROVE TypeOK'
    OBVIOUS
  <1> USE DEF TypeOK
  <1>1. ASSUME NEW m \in Manager, Acquire(m) PROVE TypeOK'
    BY <1>1 DEF Acquire, Goto, Stage
  <1>2. ASSUME NEW m \in Manager, Release(m) PROVE TypeOK'
    BY <1>2 DEF Release, Goto, Observe, Stage
  <1>3. ASSUME NEW m \in Manager, InstallLock(m) PROVE TypeOK'
    BY <1>3 DEF InstallLock, Goto, Stage, Mine, LockFile, LockInfo, Process
  <1>4. ASSUME NEW m \in Manager, ReadLock(m) PROVE TypeOK'
    BY <1>4 DEF ReadLock, Goto, Observe, Stage
  <1>5. ASSUME NEW m \in Manager, ClassifyLock(m) PROVE TypeOK'
    BY <1>5 DEF ClassifyLock, Goto, Observe, Stage, LockFile
  <1>6. ASSUME NEW m \in Manager, RenameStale(m) \/ RenameOwn(m) PROVE TypeOK'
    BY <1>6 DEF RenameStale, RenameOwn, RenameAway, Goto, Observe, Quarantine, Stage, LockFile
  <1>7. ASSUME NEW m \in Manager, ConfirmReclaim(m) \/ ConfirmRelease(m) PROVE TypeOK'
    BY <1>7 DEF ConfirmReclaim, ConfirmRelease, Confirm, Goto, Observe, Quarantine, Stage, LockFile
  <1>8. ASSUME NEW m \in Manager, Restore(m) PROVE TypeOK'
    BY <1>8 DEF Restore, Goto, Quarantine, Stage, LockFile
  <1>9. ASSUME NEW p \in Process, Restart(p) PROVE TypeOK'
    BY <1>9 DEF Restart, Stage, LockFile
  <1>10. CASE Tick
    BY <1>10 DEF Tick
  <1>11. CASE UNCHANGED vars
    BY <1>11 DEF vars
  <1> QED
    BY <1>1, <1>2, <1>3, <1>4, <1>5, <1>6, <1>7, <1>8, <1>9, <1>10, <1>11
    DEF Next, ManagerStep

\* No file outruns the clock of its process.
LEMMA PastStep == TypeOK /\ NothingFromTheFuture /\ [Next]_vars => NothingFromTheFuture'
  <1> SUFFICES ASSUME TypeOK, NothingFromTheFuture, [Next]_vars
               PROVE  NothingFromTheFuture'
    OBVIOUS
  <1> USE DEF TypeOK, NothingFromTheFuture
  <1>1. ASSUME UNCHANGED incarnation,
               FromThePast(lock'),
               \A m \in Manager : FromThePast(quarantine'[m]) /\ FromThePast(observed'[m])
        PROVE  NothingFromTheFuture'
    BY <1>1 DEF FromThePast
  <1>2. FromThePast(NoFile)
    BY ConstantsAssumption DEF FromThePast
  <1>3. ASSUME NEW m \in Manager, Acquire(m) PROVE NothingFromTheFuture'
    BY <1>1, <1>3 DEF Acquire
  <1>4. ASSUME NEW m \in Manager, Release(m) PROVE NothingFromTheFuture'
    BY <1>1, <1>4 DEF Release, Observe
  <1>5. ASSUME NEW m \in Manager, InstallLock(m) PROVE NothingFromTheFuture'
    <2>1. FromThePast(Mine(m))
      BY DEF FromThePast, Mine, Process
    <2> QED BY <1>1, <1>5, <2>1 DEF InstallLock
  <1>6. ASSUME NEW m \in Manager, ReadLock(m) PROVE NothingFromTheFuture'
    BY <1>1, <1>6 DEF ReadLock, Observe
  <1>7. ASSUME NEW m \in Manager, ClassifyLock(m) PROVE NothingFromTheFuture'
    BY <1>1, <1>2, <1>7 DEF ClassifyLock, Observe
  <1>8. ASSUME NEW m \in Manager, RenameStale(m) \/ RenameOwn(m) PROVE NothingFromTheFuture'
    BY <1>1, <1>2, <1>8 DEF RenameStale, RenameOwn, RenameAway, Observe, Quarantine
  <1>9. ASSUME NEW m \in Manager, ConfirmReclaim(m) \/ ConfirmRelease(m)
        PROVE  NothingFromTheFuture'
    BY <1>1, <1>2, <1>9 DEF ConfirmReclaim, ConfirmRelease, Confirm, Observe, Quarantine
  <1>10. ASSUME NEW m \in Manager, Restore(m) PROVE NothingFromTheFuture'
    BY <1>1, <1>2, <1>10 DEF Restore, Quarantine
  <1>11. ASSUME NEW p \in Process, Restart(p) PROVE NothingFromTheFuture'
    <2>1. \A file : FromThePast(file) => FromThePast(file)'
      BY <1>11 DEF Restart, FromThePast, LockInfo, Process
    <2>2. FromThePast(NoFile)'
      BY <1>2, <2>1
    <2>3. FromThePast(lock)'
      BY <1>11, <2>1 DEF Restart
    <2>4. ASSUME NEW m \in Manager PROVE FromThePast(quarantine[m])' /\ FromThePast(observed[m])'
      <3>1. quarantine'[m] \in {quarantine[m], NoFile} /\ observed'[m] \in {observed[m], NoFile}
        BY <1>11 DEF Restart
      <3> QED BY <2>1, <2>2, <3>1, <1>11 DEF Restart, FromThePast
    <2> QED BY <2>3, <2>4
  <1>12. CASE Tick
    BY <1>1, <1>12 DEF Tick
  <1>13. CASE UNCHANGED vars
    BY <1>1, <1>13 DEF vars
  <1> QED
    BY <1>3, <1>4, <1>5, <1>6, <1>7, <1>8, <1>9, <1>10, <1>11, <1>12, <1>13
    DEF Next, ManagerStep

\* A restart turns nobody's file into a running manager's, and leaves the files
\* of the managers of other processes theirs.
LEMMA RestartOwnership ==
  ASSUME TypeOK, NEW p \in Process, Restart(p), NEW n \in Manager, NEW file, FromThePast(file)
  PROVE  /\ IsOurs(n, file)' => IsOurs(n, file)
         /\ ProcessOf[n] # p /\ IsOurs(n, file) => IsOurs(n, file)'
  BY DEF TypeOK, Restart, IsOurs, Alive, FromThePast, LockInfo, Process

\* The dead stay dead: what a reclaim has observed is nobody's lock.
LEMMA DeadStep == Common /\ [Next]_vars => ReclaimsTheDead'
  <1> SUFFICES ASSUME Common, [Next]_vars, NEW x \in Manager, NEW n \in Manager,
                      pc'[x] \in {"reclaiming", "confirmReclaim"}
               PROVE  ~IsOurs(n, observed[x])'
    BY DEF ReclaimsTheDead
  <1> USE DEF Common, TypeOK, ReclaimsTheDead
  <1>1. ASSUME UNCHANGED incarnation, observed'[x] = observed[x],
               pc[x] \in {"reclaiming", "confirmReclaim"}
        PROVE  ~IsOurs(n, observed[x])'
    BY <1>1 DEF IsOurs, Alive
  <1>2. ASSUME NEW m \in Manager, Acquire(m) PROVE ~IsOurs(n, observed[x])'
    BY <1>1, <1>2 DEF Acquire, Goto
  <1>3. ASSUME NEW m \in Manager, Release(m) PROVE ~IsOurs(n, observed[x])'
    BY <1>1, <1>3 DEF Release, Goto, Observe
  <1>4. ASSUME NEW m \in Manager, InstallLock(m) PROVE ~IsOurs(n, observed[x])'
    BY <1>1, <1>4 DEF InstallLock, Goto
  <1>5. ASSUME NEW m \in Manager, ReadLock(m) PROVE ~IsOurs(n, observed[x])'
    BY <1>1, <1>5 DEF ReadLock, Goto, Observe
  <1>6. ASSUME NEW m \in Manager, ClassifyLock(m) PROVE ~IsOurs(n, observed[x])'
    <2>1. CASE x # m
      BY <1>1, <1>6, <2>1 DEF ClassifyLock, Goto, Observe
    <2>2. CASE x = m
      <3>1. IsReclaimable(m, observed[m]) /\ UNCHANGED <<observed, incarnation>>
        BY <1>6, <2>2 DEF ClassifyLock, Goto
      <3>2. ~IsOurs(n, observed[m])
        BY <3>1, ConstantsAssumption DEF IsReclaimable, IsOurs
      <3> QED BY <2>2, <3>1, <3>2 DEF IsOurs, Alive
    <2> QED BY <2>1, <2>2
  <1>7. ASSUME NEW m \in Manager, RenameStale(m) \/ RenameOwn(m)
        PROVE ~IsOurs(n, observed[x])'
    BY <1>1, <1>7 DEF RenameStale, RenameOwn, RenameAway, Goto, Observe
  <1>8. ASSUME NEW m \in Manager, ConfirmReclaim(m) \/ ConfirmRelease(m)
        PROVE  ~IsOurs(n, observed[x])'
    BY <1>1, <1>8 DEF ConfirmReclaim, ConfirmRelease, Confirm, Goto, Observe
  <1>9. ASSUME NEW m \in Manager, Restore(m) PROVE ~IsOurs(n, observed[x])'
    BY <1>1, <1>9 DEF Restore, Goto
  <1>10. ASSUME NEW p \in Process, Restart(p) PROVE ~IsOurs(n, observed[x])'
    <2>1. pc[x] = pc'[x] /\ observed'[x] = observed[x]
      BY <1>10 DEF Restart
    <2>2. FromThePast(observed[x])
      BY DEF NothingFromTheFuture
    <2>3. IsOurs(n, observed[x])' => IsOurs(n, observed[x])
      BY <1>10, <2>1, <2>2, RestartOwnership DEF IsOurs, Alive
    <2> QED BY <2>1, <2>3
  <1>11. CASE Tick
    BY <1>1, <1>11 DEF Tick
  <1>12. CASE UNCHANGED vars
    BY <1>1, <1>12 DEF vars
  <1> QED
    BY <1>2, <1>3, <1>4, <1>5, <1>6, <1>7, <1>8, <1>9, <1>10, <1>11, <1>12
    DEF Next, ManagerStep

\* A release destroys only the file its manager has just read as its own, and a
\* quarantine is in use exactly while its owner is about to confirm or restore.
LEMMA OwnStep == Common /\ [Next]_vars => ReleasesItsOwn' /\ QuarantineIsInUse'
  <1> SUFFICES ASSUME Common, [Next]_vars, NEW x \in Manager
               PROVE  /\ (pc[x] \in {"unlinking", "confirmRelease"} => IsOurs(x, observed[x]))'
                      /\ (quarantine[x] # NoFile
                            => pc[x] \in {"confirmReclaim", "confirmRelease", "restoring"})'
    BY DEF ReleasesItsOwn, QuarantineIsInUse
  <1> USE DEF Common, TypeOK, ReleasesItsOwn, QuarantineIsInUse
  <1> DEFINE Kept == /\ (pc[x] \in {"unlinking", "confirmRelease"} => IsOurs(x, observed[x]))
                     /\ (quarantine[x] # NoFile
                           => pc[x] \in {"confirmReclaim", "confirmRelease", "restoring"})
  <1>1. ASSUME UNCHANGED <<pc[x], observed[x], quarantine[x], incarnation>> PROVE Kept'
    BY <1>1 DEF IsOurs, Alive
  <1>2. ASSUME NEW m \in Manager, Acquire(m) PROVE Kept'
    BY <1>1, <1>2 DEF Acquire, Goto
  <1>3. ASSUME NEW m \in Manager, Release(m) PROVE Kept'
    BY <1>1, <1>3 DEF Release, Goto, Observe, IsOurs, Alive
  <1>4. ASSUME NEW m \in Manager, InstallLock(m) PROVE Kept'
    BY <1>1, <1>4 DEF InstallLock, Goto
  <1>5. ASSUME NEW m \in Manager, ReadLock(m) PROVE Kept'
    BY <1>1, <1>5 DEF ReadLock, Goto, Observe
  <1>6. ASSUME NEW m \in Manager, ClassifyLock(m) PROVE Kept'
    BY <1>1, <1>6 DEF ClassifyLock, Goto, Observe
  <1>7. ASSUME NEW m \in Manager, RenameStale(m) \/ RenameOwn(m) PROVE Kept'
    <2>1. CASE x # m
      BY <1>1, <1>7, <2>1 DEF RenameStale, RenameOwn, RenameAway, Goto, Observe, Quarantine
    <2>2. CASE x = m /\ lock = NoFile
      BY <1>7, <2>2 DEF RenameStale, RenameOwn, RenameAway, Goto, Observe
    <2>3. CASE x = m /\ lock # NoFile
      BY <1>7, <2>3 DEF RenameStale, RenameOwn, RenameAway, Goto, Quarantine, IsOurs, Alive
    <2> QED BY <2>1, <2>2, <2>3
  <1>8. ASSUME NEW m \in Manager, ConfirmReclaim(m) \/ ConfirmRelease(m) PROVE Kept'
    BY <1>1, <1>8 DEF ConfirmReclaim, ConfirmRelease, Confirm, Goto, Observe, Quarantine
  <1>9. ASSUME NEW m \in Manager, Restore(m) PROVE Kept'
    BY <1>1, <1>9 DEF Restore, Goto, Quarantine
  <1>10. ASSUME NEW p \in Process, Restart(p) PROVE Kept'
    <2>1. CASE ProcessOf[x] = p
      BY <1>10, <2>1 DEF Restart
    <2>2. CASE ProcessOf[x] # p
      <3>1. UNCHANGED <<pc[x], observed[x], quarantine[x]>>
        BY <1>10, <2>2 DEF Restart
      <3>2. incarnation'[ProcessOf[x]] = incarnation[ProcessOf[x]]
        BY <1>10, <2>2 DEF Restart, Process
      <3> QED BY <3>1, <3>2 DEF IsOurs, Alive
    <2> QED BY <2>1, <2>2
  <1>11. CASE Tick
    BY <1>1, <1>11 DEF Tick
  <1>12. CASE UNCHANGED vars
    BY <1>1, <1>12 DEF vars
  <1> QED
    BY <1>2, <1>3, <1>4, <1>5, <1>6, <1>7, <1>8, <1>9, <1>10, <1>11, <1>12
    DEF Next, ManagerStep

LEMMA CommonStep == Common /\ [Next]_vars => Common'
  BY TypeStep, PastStep, DeadStep, OwnStep DEF Common

\* Every variable stays in its type, for every set of managers and processes.
THEOREM TypeCorrect == Spec => []TypeOK
  <1>1. Init => TypeOK
    BY InitCommon DEF Common
  <1> QED BY <1>1, TypeStep, PTL DEF Spec

-----------------------------------------------------------------------------
(* Two managers                                                             *)

\* A file is no two managers' lock, and no file is nobody's.
LEMMA OneOwner ==
  /\ \A m, n, file : IsOurs(m, file) /\ IsOurs(n, file) => m = n
  /\ \A m : ~IsOurs(m, NoFile)
  BY ConstantsAssumption DEF IsOurs

LEMMA PairStep ==
  ASSUME AtMostTwoManagers, CrashInQuarantine = FALSE
  PROVE  PairInv /\ [Next]_vars => ClaimIsOnDisk'
  <1> SUFFICES ASSUME PairInv, [Next]_vars, NEW x \in Manager, Claims(x)'
               PROVE  OnDisk(x)'
    BY DEF ClaimIsOnDisk
  <1> USE DEF PairInv, Common, TypeOK, ClaimIsOnDisk
  <1>1. ASSUME UNCHANGED <<lock, quarantine, incarnation>>, Claims(x) PROVE OnDisk(x)'
    BY <1>1 DEF OnDisk, IsOurs, Alive
  <1>2. ASSUME NEW m \in Manager, Acquire(m) PROVE OnDisk(x)'
    BY <1>1, <1>2 DEF Acquire, Goto, Claims, IsOurs, Alive
  <1>3. ASSUME NEW m \in Manager, Release(m) PROVE OnDisk(x)'
    BY <1>1, <1>3 DEF Release, Goto, Observe, Claims, IsOurs, Alive
  <1>4. ASSUME NEW m \in Manager, InstallLock(m) PROVE OnDisk(x)'
    <2>1. CASE lock # NoFile
      BY <1>1, <1>4, <2>1 DEF InstallLock, Goto, Claims, IsOurs, Alive
    <2>2. CASE lock = NoFile /\ x = m
      BY <1>4, <2>2 DEF InstallLock, OnDisk, IsOurs, Alive, Mine, LockInfo, Process
    <2>3. CASE lock = NoFile /\ x # m
      <3>1. Claims(x)
        BY <1>4, <2>3 DEF InstallLock, Goto, Claims, IsOurs, Alive
      <3>2. PICK n \in Manager \ {x} : IsOurs(x, quarantine[n])
        BY <3>1, <2>3, OneOwner DEF OnDisk
      <3>3. n = m
        BY <2>3 DEF AtMostTwoManagers
      <3>4. quarantine[m] = NoFile
        BY <1>4 DEF InstallLock, QuarantineIsInUse
      <3> QED BY <3>2, <3>3, <3>4, OneOwner
    <2> QED BY <2>1, <2>2, <2>3
  <1>5. ASSUME NEW m \in Manager, ReadLock(m) PROVE OnDisk(x)'
    <2>1. CASE x = m
      BY <1>5, <2>1 DEF ReadLock, Goto, Observe, Claims, OnDisk, IsOurs, Alive
    <2>2. CASE x # m
      BY <1>1, <1>5, <2>2 DEF ReadLock, Goto, Observe, Claims, IsOurs, Alive
    <2> QED BY <2>1, <2>2
  <1>6. ASSUME NEW m \in Manager, ClassifyLock(m) PROVE OnDisk(x)'
    BY <1>1, <1>6, OneOwner DEF ClassifyLock, Goto, Observe, Claims, IsOurs, Alive, IsReclaimable
  <1>7. ASSUME NEW m \in Manager, RenameStale(m) \/ RenameOwn(m) PROVE OnDisk(x)'
    <2>1. x # m /\ Claims(x) /\ UNCHANGED incarnation
      BY <1>7 DEF RenameStale, RenameOwn, RenameAway, Goto, Observe, Claims, IsOurs, Alive
    <2>2. CASE lock = NoFile
      BY <1>1, <1>7, <2>1, <2>2 DEF RenameStale, RenameOwn, RenameAway
    <2>3. CASE lock # NoFile
      <3>1. lock' = NoFile /\ quarantine'[m] = lock
        BY <1>7, <2>3 DEF RenameStale, RenameOwn, RenameAway, Quarantine
      <3>2. IsOurs(x, lock)
        BY <2>1, <2>3 DEF OnDisk
      <3> QED BY <2>1, <3>1, <3>2 DEF OnDisk, IsOurs, Alive
    <2> QED BY <2>2, <2>3
  <1>8. ASSUME NEW m \in Manager, ConfirmReclaim(m) \/ ConfirmRelease(m) PROVE OnDisk(x)'
    <2>1. x # m /\ Claims(x) /\ UNCHANGED <<lock, incarnation>>
      BY <1>8 DEF ConfirmReclaim, ConfirmRelease, Confirm, Goto, Observe, Claims, IsOurs, Alive
    <2>2. CASE quarantine[m] # observed[m]
      BY <1>1, <1>8, <2>1, <2>2 DEF ConfirmReclaim, ConfirmRelease, Confirm
    <2>3. CASE quarantine[m] = observed[m]
      <3>1. ~IsOurs(x, quarantine[m])
        BY <1>8, <2>1, <2>3, OneOwner
        DEF ConfirmReclaim, ConfirmRelease, ReclaimsTheDead, ReleasesItsOwn
      <3>2. \A n \in Manager \ {m} : quarantine'[n] = quarantine[n]
        BY <1>8 DEF ConfirmReclaim, ConfirmRelease, Confirm, Quarantine
      <3> QED BY <2>1, <3>1, <3>2 DEF OnDisk, IsOurs, Alive
    <2> QED BY <2>2, <2>3
  <1>9. ASSUME NEW m \in Manager, Restore(m) PROVE OnDisk(x)'
    <2>1. x # m /\ Claims(x) /\ UNCHANGED incarnation
      BY <1>9 DEF Restore, Goto, Claims, IsOurs, Alive
    <2>2. CASE lock # NoFile
      BY <1>9, <2>1, <2>2 DEF Restore, OnDisk, IsOurs, Alive
    <2>3. CASE lock = NoFile
      <3>1. PICK n \in Manager \ {x} : IsOurs(x, quarantine[n])
        BY <2>1, <2>3, OneOwner DEF OnDisk
      <3>2. n = m
        BY <2>1 DEF AtMostTwoManagers
      <3> QED BY <1>9, <2>1, <2>3, <3>1, <3>2 DEF Restore, OnDisk, IsOurs, Alive
    <2> QED BY <2>2, <2>3
  <1>10. ASSUME NEW p \in Process, Restart(p) PROVE OnDisk(x)'
    <2>1. ProcessOf[x] # p /\ pc[x] = pc'[x] /\ observed[x] = observed'[x]
      BY <1>10 DEF Restart, Claims
    <2>2. incarnation'[ProcessOf[x]] = incarnation[ProcessOf[x]] /\ lock' = lock
      BY <1>10, <2>1 DEF Restart, Process
    <2>3. Claims(x)
      BY <2>1, <2>2 DEF Claims, IsOurs, Alive
    <2>4. \A n \in Manager : quarantine'[n] = quarantine[n]
      BY <1>10 DEF Restart
    <2> QED BY <2>2, <2>3, <2>4 DEF OnDisk, IsOurs, Alive
  <1>11. CASE Tick
    BY <1>1, <1>11 DEF Tick, Claims, IsOurs, Alive
  <1>12. CASE UNCHANGED vars
    BY <1>1, <1>12 DEF vars, Claims, IsOurs, Alive
  <1> QED
    BY <1>2, <1>3, <1>4, <1>5, <1>6, <1>7, <1>8, <1>9, <1>10, <1>11, <1>12
    DEF Next, ManagerStep

LEMMA PairInvariant ==
  ASSUME AtMostTwoManagers, CrashInQuarantine = FALSE
  PROVE  Spec => []PairInv
  <1>1. Init => PairInv
    BY InitCommon DEF Init, PairInv, ClaimIsOnDisk, Claims
  <1>2. PairInv /\ [Next]_vars => PairInv'
    BY CommonStep, PairStep DEF PairInv
  <1> QED BY <1>1, <1>2, PTL DEF Spec

\* Two managers of one destination never hold its lease together, whatever
\* calls they make and however often their processes die, if none dies while a
\* lock is in its quarantine.
THEOREM TwoManagersExclude ==
  ASSUME AtMostTwoManagers, CrashInQuarantine = FALSE
  PROVE  Spec => []AtMostOneLease
  <1>1. PairInv => AtMostOneLease
    <2> SUFFICES ASSUME PairInv, NEW m \in Manager, NEW n \in Manager,
                        pc[m] = "holding", pc[n] = "holding", m # n
                 PROVE  FALSE
      BY DEF AtMostOneLease
    <2>1. quarantine[m] = NoFile /\ quarantine[n] = NoFile
      BY DEF PairInv, Common, QuarantineIsInUse
    <2>2. OnDisk(m) /\ OnDisk(n)
      BY DEF PairInv, ClaimIsOnDisk, Claims
    <2>3. IsOurs(m, lock) /\ IsOurs(n, lock)
      BY <2>1, <2>2, OneOwner DEF OnDisk, AtMostTwoManagers
    <2> QED BY <2>3, OneOwner
  <1> QED BY <1>1, PairInvariant, PTL

\* Nor does either lose its lock file while it holds the lease.
THEOREM TwoManagersKeepTheirLocks ==
  ASSUME AtMostTwoManagers, CrashInQuarantine = FALSE
  PROVE  Spec => []HolderKeepsItsLock
  <1>1. PairInv => HolderKeepsItsLock
    BY DEF PairInv, ClaimIsOnDisk, Claims, HolderKeepsItsLock
  <1> QED BY <1>1, PairInvariant, PTL

-----------------------------------------------------------------------------
(* Any number of managers, no late reclaim                                  *)

LEMMA ManyStep == ManyInv /\ [Next]_vars /\ [NoLateReclaim]_vars => ClaimIsAtThePath'
  <1> SUFFICES ASSUME ManyInv, [Next]_vars, [NoLateReclaim]_vars, NEW x \in Manager,
                      Claims(x)' \/ pc'[x] = "unlinking"
               PROVE  IsOurs(x, lock)'
    BY DEF ClaimIsAtThePath
  <1> USE DEF ManyInv, Common, TypeOK, ClaimIsAtThePath
  <1>1. ASSUME UNCHANGED <<lock, incarnation>>, Claims(x) \/ pc[x] = "unlinking"
        PROVE IsOurs(x, lock)'
    BY <1>1 DEF IsOurs, Alive
  <1>2. ASSUME NEW m \in Manager, Acquire(m) PROVE IsOurs(x, lock)'
    BY <1>1, <1>2 DEF Acquire, Goto, Claims, IsOurs, Alive
  <1>3. ASSUME NEW m \in Manager, Release(m) PROVE IsOurs(x, lock)'
    BY <1>1, <1>3 DEF Release, Goto, Observe, Claims, IsOurs, Alive
  <1>4. ASSUME NEW m \in Manager, InstallLock(m) PROVE IsOurs(x, lock)'
    <2>1. CASE lock # NoFile
      BY <1>1, <1>4, <2>1 DEF InstallLock, Goto, Claims, IsOurs, Alive
    <2>2. CASE lock = NoFile /\ x = m
      BY <1>4, <2>2 DEF InstallLock, IsOurs, Alive, Mine, LockInfo, Process
    <2>3. CASE lock = NoFile /\ x # m
      BY <1>4, <2>3, OneOwner DEF InstallLock, Goto, Claims, IsOurs, Alive
    <2> QED BY <2>1, <2>2, <2>3
  <1>5. ASSUME NEW m \in Manager, ReadLock(m) PROVE IsOurs(x, lock)'
    BY <1>1, <1>5 DEF ReadLock, Goto, Observe, Claims, IsOurs, Alive
  <1>6. ASSUME NEW m \in Manager, ClassifyLock(m) PROVE IsOurs(x, lock)'
    BY <1>1, <1>6, OneOwner DEF ClassifyLock, Goto, Observe, Claims, IsOurs, Alive
  <1>7. ASSUME NEW m \in Manager, RenameStale(m) PROVE IsOurs(x, lock)'
    <2>1. x # m /\ UNCHANGED incarnation /\ (Claims(x) \/ pc[x] = "unlinking")
      BY <1>7 DEF RenameStale, RenameAway, Goto, Observe, Claims, IsOurs, Alive
    <2>2. CASE lock = NoFile
      BY <2>1, <2>2, OneOwner
    <2>3. CASE lock # NoFile
      <3>1. pc'[m] = "confirmReclaim"
        BY <1>7, <2>3 DEF RenameStale, RenameAway, Goto
      <3>2. lock = observed[m]
        BY <1>7, <3>1 DEF NoLateReclaim, RenameStale, vars
      <3> QED BY <1>7, <2>1, <3>2 DEF RenameStale, ReclaimsTheDead
    <2> QED BY <2>2, <2>3
  <1>8. ASSUME NEW m \in Manager, RenameOwn(m) PROVE IsOurs(x, lock)'
    <2>1. x # m /\ (Claims(x) \/ pc[x] = "unlinking")
      BY <1>8 DEF RenameOwn, RenameAway, Goto, Observe, Claims, IsOurs, Alive
    <2> QED BY <1>8, <2>1, OneOwner DEF RenameOwn
  <1>9. ASSUME NEW m \in Manager, ConfirmReclaim(m) \/ ConfirmRelease(m) PROVE IsOurs(x, lock)'
    BY <1>1, <1>9
    DEF ConfirmReclaim, ConfirmRelease, Confirm, Goto, Observe, Claims, IsOurs, Alive
  <1>10. ASSUME NEW m \in Manager, Restore(m) PROVE IsOurs(x, lock)'
    <2>1. IsOurs(x, lock)
      BY <1>10 DEF Restore, Goto, Claims, IsOurs, Alive
    <2> QED BY <1>1, <1>10, <2>1, OneOwner DEF Restore, IsOurs, Alive
  <1>11. ASSUME NEW p \in Process, Restart(p) PROVE IsOurs(x, lock)'
    <2>1. ProcessOf[x] # p /\ pc[x] = pc'[x] /\ observed[x] = observed'[x]
      BY <1>11 DEF Restart, Claims
    <2>2. incarnation'[ProcessOf[x]] = incarnation[ProcessOf[x]] /\ lock' = lock
      BY <1>11, <2>1 DEF Restart, Process
    <2>3. Claims(x) \/ pc[x] = "unlinking"
      BY <2>1, <2>2 DEF Claims, IsOurs, Alive
    <2> QED BY <2>2, <2>3 DEF IsOurs, Alive
  <1>12. CASE Tick
    BY <1>1, <1>12 DEF Tick, Claims, IsOurs, Alive
  <1>13. CASE UNCHANGED vars
    BY <1>1, <1>13 DEF vars, Claims, IsOurs, Alive
  <1> QED
    BY <1>2, <1>3, <1>4, <1>5, <1>6, <1>7, <1>8, <1>9, <1>10, <1>11, <1>12, <1>13
    DEF Next, ManagerStep

\* Any number of managers exclude each other, wherever their processes die, as
\* long as every reclaim renames the very file it had found stale.
THEOREM ManyManagersExclude == Spec /\ [][NoLateReclaim]_vars => []AtMostOneLease
  <1>1. Init => ManyInv
    BY InitCommon DEF Init, ManyInv, ClaimIsAtThePath, Claims
  <1>2. ManyInv /\ [Next]_vars /\ [NoLateReclaim]_vars => ManyInv'
    BY CommonStep, ManyStep DEF ManyInv
  <1>3. ManyInv => AtMostOneLease
    BY OneOwner DEF ManyInv, ClaimIsAtThePath, Claims, AtMostOneLease
  <1> QED BY <1>1, <1>2, <1>3, PTL DEF Spec

-----------------------------------------------------------------------------
(* What a reclaim destroys                                                  *)

ObservedIsLawful ==
  \A m \in Manager :
    pc[m] \in {"reclaiming", "confirmReclaim"} => LawfulTarget(m, observed[m])

\* A file that may be reclaimed may be reclaimed for ever: time does not run
\* back and the dead do not return.
LEMMA LawfulStep == Common /\ ObservedIsLawful /\ [Next]_vars => ObservedIsLawful'
  <1> SUFFICES ASSUME Common, ObservedIsLawful, [Next]_vars, NEW x \in Manager,
                      pc'[x] \in {"reclaiming", "confirmReclaim"}
               PROVE  LawfulTarget(x, observed[x])'
    BY DEF ObservedIsLawful
  <1> USE DEF Common, TypeOK, ObservedIsLawful
  <1>1. ASSUME UNCHANGED <<incarnation, now>>, observed'[x] = observed[x],
               pc[x] \in {"reclaiming", "confirmReclaim"}
        PROVE  LawfulTarget(x, observed[x])'
    BY <1>1 DEF LawfulTarget, Alive
  <1>2. ASSUME NEW m \in Manager, Acquire(m) PROVE LawfulTarget(x, observed[x])'
    BY <1>1, <1>2 DEF Acquire, Goto
  <1>3. ASSUME NEW m \in Manager, Release(m) PROVE LawfulTarget(x, observed[x])'
    BY <1>1, <1>3 DEF Release, Goto, Observe
  <1>4. ASSUME NEW m \in Manager, InstallLock(m) PROVE LawfulTarget(x, observed[x])'
    BY <1>1, <1>4 DEF InstallLock, Goto
  <1>5. ASSUME NEW m \in Manager, ReadLock(m) PROVE LawfulTarget(x, observed[x])'
    BY <1>1, <1>5 DEF ReadLock, Goto, Observe
  <1>6. ASSUME NEW m \in Manager, ClassifyLock(m) PROVE LawfulTarget(x, observed[x])'
    <2>1. CASE x # m
      BY <1>1, <1>6, <2>1 DEF ClassifyLock, Goto, Observe
    <2>2. CASE x = m
      <3>1. IsReclaimable(m, observed[m]) /\ UNCHANGED <<observed, incarnation, now>>
        BY <1>6, <2>2 DEF ClassifyLock, Goto
      <3>2. \A i \in LockInfo : now > i.acquiredAt + LockTimeout => now - i.acquiredAt > LockTimeout
        BY ConstantsAssumption DEF LockInfo
      <3> QED BY <2>2, <3>1, <3>2 DEF IsReclaimable, LawfulTarget, Alive
    <2> QED BY <2>1, <2>2
  <1>7. ASSUME NEW m \in Manager, RenameStale(m) \/ RenameOwn(m)
        PROVE LawfulTarget(x, observed[x])'
    BY <1>1, <1>7 DEF RenameStale, RenameOwn, RenameAway, Goto, Observe
  <1>8. ASSUME NEW m \in Manager, ConfirmReclaim(m) \/ ConfirmRelease(m)
        PROVE  LawfulTarget(x, observed[x])'
    BY <1>1, <1>8 DEF ConfirmReclaim, ConfirmRelease, Confirm, Goto, Observe
  <1>9. ASSUME NEW m \in Manager, Restore(m) PROVE LawfulTarget(x, observed[x])'
    BY <1>1, <1>9 DEF Restore, Goto
  <1>10. ASSUME NEW p \in Process, Restart(p) PROVE LawfulTarget(x, observed[x])'
    <2>1. pc[x] = pc'[x] /\ observed'[x] = observed[x] /\ now' = now
      BY <1>10 DEF Restart
    <2>2. LawfulTarget(x, observed[x]) /\ FromThePast(observed[x])
      BY <2>1 DEF NothingFromTheFuture
    <2>3. ASSUME observed[x] \in LockInfo, ~Alive(observed[x]) PROVE ~Alive(observed[x])'
      <3> DEFINE q == ProcessOf[observed[x].manager]
      <3>1. q \in Process
        BY <2>3 DEF LockInfo, Process
      <3>2. observed[x].incarnation < incarnation[q]
        BY <2>2, <2>3, <3>1 DEF FromThePast, Alive, LockInfo
      <3>3. incarnation'[q] >= incarnation[q]
        BY <1>10, <3>1 DEF Restart
      <3> HIDE DEF q
      <3>4. observed[x].incarnation \in Nat /\ incarnation[q] \in Nat /\ incarnation'[q] \in Nat
        BY <1>10, <2>3, <3>1, TypeStep DEF LockInfo
      <3> QED BY <2>1, <3>2, <3>3, <3>4 DEF Alive, q
    <2> QED BY <2>1, <2>2, <2>3 DEF LawfulTarget
  <1>11. CASE Tick
    <2>1. now' > now /\ UNCHANGED <<pc, observed, incarnation>>
      BY <1>11 DEF Tick
    <2>2. LawfulTarget(x, observed[x])
      BY <2>1
    <2>3. ASSUME observed[x] \in LockInfo, now - observed[x].acquiredAt > LockTimeout
          PROVE  now' - observed[x].acquiredAt > LockTimeout
      BY <1>11, <2>3, ConstantsAssumption DEF Tick, LockInfo
    <2>4. now >= LockTimeout => now' >= LockTimeout
      BY <1>11, ConstantsAssumption DEF Tick
    <2> QED BY <2>1, <2>2, <2>3, <2>4 DEF LawfulTarget, Alive
  <1>12. CASE UNCHANGED vars
    BY <1>1, <1>12 DEF vars
  <1> QED
    BY <1>2, <1>3, <1>4, <1>5, <1>6, <1>7, <1>8, <1>9, <1>10, <1>11, <1>12
    DEF Next, ManagerStep

\* A reclaim destroys only the lock of a process that is gone, of its own
\* application or past the timeout: for any number of managers, restarts and
\* interleavings, the late reclaims included.
THEOREM ReclaimsAreLawful == Spec => ReclaimIsLawful
  <1>1. Init => Common /\ ObservedIsLawful
    BY InitCommon DEF Init, ObservedIsLawful
  <1>2. Common /\ ObservedIsLawful /\ [Next]_vars => (Common /\ ObservedIsLawful)'
    BY CommonStep, LawfulStep
  <1>3. Common /\ ObservedIsLawful /\ [Next]_vars => [ReclaimStepIsLawful]_vars
    <2> SUFFICES ASSUME Common, ObservedIsLawful, [Next]_vars, NEW m \in Manager,
                        pc[m] = "confirmReclaim", pc'[m] = "linking"
                 PROVE  LawfulTarget(m, quarantine[m])
      BY DEF ReclaimStepIsLawful
    <2>1. ASSUME NEW n \in Manager, ConfirmReclaim(n) PROVE LawfulTarget(m, quarantine[m])
      BY <2>1 DEF ConfirmReclaim, Confirm, Goto, ObservedIsLawful, Common, TypeOK
    <2>2. ASSUME NEW n \in Manager, ~ConfirmReclaim(n),
                 Acquire(n) \/ Release(n) \/ ManagerStep(n)
          PROVE  FALSE
      BY <2>2
      DEF ManagerStep, Acquire, Release, InstallLock, ReadLock, ClassifyLock, RenameStale,
          RenameOwn, RenameAway, ConfirmRelease, Confirm, Restore, Goto, Common, TypeOK
    <2>3. \A p \in Process : ~Restart(p)
      BY DEF Restart
    <2>4. ~Tick /\ ~UNCHANGED vars
      BY DEF Tick, vars
    <2> QED BY <2>1, <2>2, <2>3, <2>4 DEF Next
  <1> QED BY <1>1, <1>2, <1>3, PTL DEF Spec, ReclaimIsLawful
=============================================================================
