CONSTANTS
  r1 = r1
  r2 = r2
  Positions = {1, 2}
  Requests = {r1, r2, EmptyID}
  EmptyID = EmptyID
  NoSecret = NoSecret
  NoToken = NoToken
  None = None
  Configs <- MCConfigs
  SlackGetsSecret = {TRUE, FALSE}
  MaxGestures = 2
SPECIFICATION Spec
CHECK_DEADLOCK FALSE
INVARIANT IInv
INVARIANT FirstDefinitiveWins
INVARIANT PendingIsWaiting
INVARIANT SlackDecidesAsClicked
PROPERTY ImplementsGate
