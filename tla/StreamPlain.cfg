CONSTANTS
  Token <- Bits
  NoToken = NoToken
  Unwritten = Unwritten
  Sample <- MCSample
  Legal <- MCLegal
  Weights = {"repeat", "stir", "shy"}
  Speculators = {"none", "lookup", "dflash"}
  MaxContext = 8
  MaxInput = 2
  Options <- AnyOptions
  LookupWithGrammar = FALSE
  TreeBudget = 3
  NGram = 2
  DraftLen = 2
  EntryWindow = 2
  WindowPasses = 2
  IdleLimit = 2
  AcceptBar = 150
SPECIFICATION Spec
INVARIANTS TypeOK ContextFits CachesInStep TrieMatchesGrammar
PROPERTIES PlainSpec
CHECK_DEADLOCK FALSE
