CONSTANTS
  ada = ada
  ben = ben
  Engine = Engine
  NoOne = NoOne
  Files = 2
  User <- TwoUsers
  Capacity = 1
  Shared <- Weights
SPECIFICATION Spec
SYMMETRY Symmetry
INVARIANTS TypeOK CacheFollows DownloadsAreHeard DeletedStaysDeleted TasksAnswer ResumeIsAnswered
