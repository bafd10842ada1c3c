SPECIFICATION HSpec
CONSTANTS
  l5 = l5
  l59 = l59
  c1 = c1
  monitor = monitor
  Lights = {l5, l59}
  Alike <- MCAlike
  Levels = {0, 33}
  Others = {3}
  Conns = {c1}
  Monitor = monitor
  Monitored = FALSE
  Asked <- MCAsked
  Capacity = 1
  MaxUnderWay = 0
  None = None
INVARIANT GetReadsLevelLines
CHECK_DEADLOCK FALSE
