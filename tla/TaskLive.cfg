CONSTANTS
  alice = alice
  bob = bob
  NoFile = NoFile
  Caller <- Callers
  OthersShare = FALSE
  LateOps = {"rename"}
  Size = 1
  ChecksLength = TRUE
  ChecksCrc = TRUE
  Retries = 1
  EventCapacity = 2
  MaxGeneration = 3
  MaxStarts = 1
SPECIFICATION FairSpec
PROPERTIES CallsReturn EndIsNoticed
CHECK_DEADLOCK FALSE
