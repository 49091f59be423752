CONSTANTS
  a = a
  b = b
  c = c
  NoFile = NoFile
  Garbled = Garbled
  Manager <- Pair
  ProcessOf <- MCProcessOf
  AppOf <- MixedPair
  LockTimeout = 1
  MaxNow = 3
  MaxIncarnation = 3
  CrashInQuarantine = FALSE
SPECIFICATION FairSpec
INVARIANTS TypeOK AtMostOneLease HolderKeepsItsLock
PROPERTIES ReclaimIsLawful DeadLockIsCleared
