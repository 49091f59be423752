CONSTANTS
  first = first
  second = second
  resetter = resetter
  adder = adder
  NoOne = NoOne
  Turn <- Turns
  Reset <- Resets
  Adder <- Adders
  MaxReply = 1
  ToolTurnLimit = 1
  Templates = {"keeps", "rewrites"}
  Orderly = {TRUE, FALSE}
  Faults = {"overflow", "decode"}
SPECIFICATION FairSpec
INVARIANTS TypeOK OneTurn PromptIsWhole ToolResultsAnswer
PROPERTIES HistoryIsKept BecomesIdle
CHECK_DEADLOCK FALSE
