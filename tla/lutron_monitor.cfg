SPECIFICATION HFairSpec
CONSTANTS
  l5 = l5
  l59 = l59
  c1 = c1
  monitor = monitor
  Lights = {l5, l59}
  Alike <- MCAlike
  Levels = {0, 33}
  Others = {3}
  Conns = {}
  Monitor = monitor
  Monitored = TRUE
  Asked <- MCAsked
  Capacity = 1
  MaxUnderWay = 1
  None = None
INVARIANTS  WatcherKnows
PROPERTY MonitorReturns
CHECK_DEADLOCK FALSE
