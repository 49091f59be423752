CONSTANTS
  a = a
  b = b
  c = c
  NoFile = NoFile
  Garbled = Garbled
  Manager <- Trio
  ProcessOf <- MCProcessOf
  AppOf <- SameApp
  LockTimeout = 1
  MaxNow = 0
  MaxIncarnation = 1
  CrashInQuarantine = FALSE
SPECIFICATION Spec
INVARIANTS AtMostOneLease
