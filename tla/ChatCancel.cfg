CONSTANTS
  first = first
  second = second
  resetter = resetter
  adder = adder
  NoOne = NoOne
  Turn <- Turns
  Reset <- Nobody
  Adder <- Adders
  MaxReply = 1
  ToolTurnLimit = 1
  Templates = {"keeps", "rewrites"}
  Orderly = {TRUE}
  Faults = {}
SPECIFICATION Spec
INVARIANTS HistoryIsEncodable
CHECK_DEADLOCK FALSE
