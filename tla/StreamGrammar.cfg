CONSTANTS
  Token <- Bits
  NoToken = NoToken
  Unwritten = Unwritten
  Sample <- MCSample
  Legal <- MCLegal
  Weights = {"repeat"}
  Speculators = {"lookup"}
  MaxContext = 12
  MaxInput = 2
  Options <- OnlyStructured
  LookupWithGrammar = TRUE
  TreeBudget = 3
  NGram = 3
  DraftLen = 3
  EntryWindow = 2
  WindowPasses = 2
  IdleLimit = 2
  AcceptBar = 150
SPECIFICATION Spec
INVARIANTS TrieMatchesGrammar
CHECK_DEADLOCK FALSE
