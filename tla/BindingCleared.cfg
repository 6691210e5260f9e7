CONSTANTS
  Fields = {"title", "status", "priority"}
  Labelled = {"status", "priority"}
  MaxEdits = 1
  MaxTroubles = 0
SPECIFICATION BindSpec
INVARIANT NothingCleared
CHECK_DEADLOCK FALSE
