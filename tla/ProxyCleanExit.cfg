CONSTANTS
  isolate = isolate
  wipe = wipe
  query = query
  h1 = h1
  none = none
  Tools <- MCTools
  PrintableTools <- MCTools
  DestructiveTools = {wipe}
  Targets = {h1}
  NoTarget = none
  Frames <- MCFrames
  Sessions <- MCSessions
  AgentStates = {"gone"}
  Catalog = {isolate, wipe}
  Policies <- MCPolicies
  None = None
  PipeCap = 2
  MaxUpdates = 1
SPECIFICATION Spec
CHECK_DEADLOCK FALSE
INVARIANT CleanExitReturnsNil
