CONSTANTS
  PanelOpeners = {o1}
  OpenCommands = {k1}
  Targets = {s1}
  BridgeIds = {b1, b2, b3}
  NoTarget = none
  NoBridge = nobridge
  Services = {1, 2, 3}
  Replicas <- MCReplicas
  Graphs <- MCGraphs
  PanelActors = {a1}
  ActionCommands = {a2}
  MaxActions = 2
  MaxMeddling = 1
  Keys = {x, y}
  ConfigCommands = {k1}
  Windows = {w1}
  NoText = notext
  MaxDeeds = 2
  MaxUpsets = 1
  Requests = {r1, r2}
  Projects = {p1}
  MaxJobs = 2
  Commands = {k1}
  Ids = {i1}
  Hosts = {}
  ShareContainers = {c1}
  Tokens = {t1}
  MaxClock = 1
  MaxPassword = 1
SPECIFICATION Spec
INVARIANTS
  HostTypeOK
  OneRunningBridge
  NothingRunsWithoutItsNeeds
  RestartBringsBack
  SavedIsKept
PROPERTIES
  RunningGoesOnlyWhenForced
  BackMeansApplied
  OperationsEnd
CHECK_DEADLOCK FALSE
