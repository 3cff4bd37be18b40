CONSTANTS
  isolate = isolate
  wipe = wipe
  h1 = h1
  none = none
  Documents <- MCDocuments
  Removals = {"enrich_ioc", "page_oncall", "open_ticket"}
  DestructiveNames = {"wipe_cache"}
  BackendNames = {"falcon"}
  BackendConfigs <- MCBackendConfigs
  BackendCalls <- MCBackendCalls
  ErrorTexts <- MCErrorTexts
  Fields = {"message"}
  FieldValues = {"a"}
  ToolNames = {"isolate_endpoint", "enrich_ioc"}
  AgentIDs = {"alice", "bob"}
  Times = {1}
  MaxResources = 4
  MaxActors = 2
  MaxBuilt = 2
  Verdicts = {3}
  Tools = {isolate, wipe}
  PrintableTools = {isolate, wipe}
  DestructiveTools = {wipe}
  Targets = {h1}
  NoTarget = none
  Files <- MCFiles
  Invocations <- MCInvocations
SPECIFICATION Spec
INVARIANT TypeOK
INVARIANT ValidatedCallsComplete
INVARIANT ServesWhatWasConfigured
PROPERTY ImplementsBindings
PROPERTY LoadKeepsAPrefix
PROPERTY OpensOnlyByDeclaration
PROPERTY BuiltEventsAreFrozen
