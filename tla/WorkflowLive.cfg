CONSTANTS
  r1 = r1
  r2 = r2
  Positions = {1, 2}
  Requests = {r1, r2}
  EmptyID = EmptyID
  NoSecret = NoSecret
  NoToken = NoToken
  None = None
  Configs <- WorkingConfigs
  SlackGetsSecret = {TRUE, FALSE}
  MaxGestures = 1
SPECIFICATION FairSpec
CHECK_DEADLOCK FALSE
PROPERTY EveryApproveReturns
