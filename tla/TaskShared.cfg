CONSTANTS
  alice = alice
  bob = bob
  NoFile = NoFile
  Caller <- Callers
  OthersShare = TRUE
  LateOps = {"rename", "truncate", "create"}
  Size = 1
  ChecksLength = TRUE
  ChecksCrc = TRUE
  Retries = 0
  EventCapacity = 2
  MaxGeneration = 3
  MaxStarts = 2
SPECIFICATION Spec
INVARIANTS TypeOK StreamUnderLease StoppedIsQuiet ReportNeverBlocks TroubleMeansIdle
SYMMETRY CallerSymmetry
CHECK_DEADLOCK FALSE
