CONSTANTS
  Services = {1, 2}
  Replicas <- MCScaled
  Graphs <- MCSimple
  PanelActors = {a1}
  ActionCommands = {a2}
  MaxActions = 1
  MaxMeddling = 0
SPECIFICATION ActionsSpec
INVARIANT EveryContainerActedOn
CHECK_DEADLOCK FALSE
