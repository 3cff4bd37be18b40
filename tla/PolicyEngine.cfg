CONSTANTS
  isolate = isolate
  wipe = wipe
  upper = upper
  longer = longer
  foreign = foreign
  h1 = h1
  h2 = h2
  none = none
  c1 = c1
  v = v
  w = w
  W = W
  x = x
  dash = dash
  nbsp = nbsp
  fi = fi
  DestructiveVerbs <- MCVerbs
  Separators = {dash}
  Folded <- MCFolded
  NameOf <- MCNameOf
  Tools <- MCTools
  PrintableTools <- MCPrintableTools
  DestructiveTools <- MCDestructiveTools
  Targets <- MCTargets
  NoTarget = none
  Configs <- MCConfigs
  NoConfig = NoConfig
  Callers = {c1}
  MaxUpdates = 1
SPECIFICATION Spec
INVARIANT IInv
INVARIANT AnswersOnePolicyInForce
INVARIANT DestructiveWordsGated
