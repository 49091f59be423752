CONSTANTS
  alice = alice
  bob = bob
  NoFile = NoFile
  Caller <- Callers
  OthersShare = FALSE
  LateOps = {"rename"}
  Size = 2
  ChecksLength = TRUE
  ChecksCrc = TRUE
  Retries = 1
  EventCapacity = 2
  MaxGeneration = 3
  MaxStarts = 2
SPECIFICATION Spec
INVARIANTS DownloadedIsComplete ProgressIsCurrent
PROPERTIES CompletionIsGenuine LifecycleSpec
SYMMETRY CallerSymmetry
CHECK_DEADLOCK FALSE
