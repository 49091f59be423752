CONSTANTS
  alice = alice
  bob = bob
  m1 = m1
  m2 = m2
  NoFile = NoFile
  NoMutex = NoMutex
  Caller <- Two
  Mutex <- TwoMutexes
  MaxTasks = 2
  Contents <- TwoKinds
  OthersShare = TRUE
  Size = 1
  ChecksLength = TRUE
  ChecksCrc = TRUE
SPECIFICATION FairSpec
INVARIANTS TypeOK OneQueue OneLiveTask LeaseIsUsed OpensAsItWas
PROPERTIES CleanUpIsLawful CallsReturn
