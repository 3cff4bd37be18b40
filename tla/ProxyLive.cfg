CONSTANTS
  isolate = isolate
  wipe = wipe
  query = query
  h1 = h1
  none = none
  Tools <- MCTools
  PrintableTools <- MCTools
  DestructiveTools = {wipe}
  Targets = {h1}
  NoTarget = none
  Frames <- MCFrames
  Sessions <- MCShortSessions
  AgentStates = {"reading", "stalled", "gone"}
  Catalog = {isolate, wipe}
  Policies <- MCOnePolicy
  None = None
  PipeCap = 1
  MaxUpdates = 0
SPECIFICATION FairSpec
CHECK_DEADLOCK FALSE
PROPERTY ShutdownTerminates
PROPERTY AgentCloseTerminates
PROPERTY ChildDeathTerminates
PROPERTY EveryCallHandled
PROPERTY EveryResponseRelayed
