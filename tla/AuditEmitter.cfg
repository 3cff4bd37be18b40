CONSTANTS
  e1 = e1
  c1 = c1
  c2 = c2
  nobody = nobody
  Callers = {e1}
  Closers = {c1, c2}
  SinkLists <- MCSinkLists
  Heartbeat = TRUE
  NoOne = nobody
  MaxTicks = 2
  MaxCrashes = 1
  MaxFaults = 1
SPECIFICATION FairSpec
CHECK_DEADLOCK FALSE
INVARIANT IInv
INVARIANT AcknowledgedIsDurable
INVARIANT SinksAgree
INVARIANT ClosedIsQuiet
PROPERTY HistoryIsKept
PROPERTY CloseReturns
PROPERTY EmitReturns
