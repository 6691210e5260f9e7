CONSTANTS
  Tasks = {1, 2, 3, 4}
  Columns = {"todo", "done"}
  Movers = {r1, r2}
  NoTask = 0
  NoMover = none
  Step = 2
  MaxMoves = 2
  MaxWrites = 1
  StartRow <- MCStart
  Nodes = {1, 2, 3, 4}
  Clients = {r1, r2}
  NoNode = 0
  StartNode <- MCNodes
  MaxAsks = 3
  MaxStops = 1
  Issues = {1, 2, 3}
  Opened <- MCOpened
  PageSize = 1
  MaxPages = 2
  MaxEvents = 3
  Fields = {"title", "status"}
  Labelled = {"status"}
  MaxEdits = 2
  MaxTroubles = 1
  DevSessions = {"a", "b"}
  LastCommit = 3
  ScanDepth = 2
  RecentEvents = 2
  MaxFailures = 1
  MaxHappenings = 3
  Browsers = {w1}
  Builds = {b1, b2, b3}
  NoBuild = nobuild
  MaxChanges = 2
  MaxBreaks = 2
SPECIFICATION Spec
INVARIANTS
  PanelTypeOK
  AppendedDiffer
  NoTaskBelowItself
  CursorCovers
  ProjectionWasReal
  NoStrayTask
  SeenWasTold
  ActiveSessionHasThem
  ForcedReadIsFresh
PROPERTIES
  EverythingSettles
  MovesKeepOrder
  SweepKeepsWork
  LinksOfCompleteRun
  EditsAreKept
CHECK_DEADLOCK FALSE
