SPECIFICATION HSpec
CONSTANTS
  ssdp = ssdp
  hue = hue
  own = own
  user = user
  Threads = {hue, own, user}
  Work <- MCWork
  N = 3
  Kind <- MCKind
  Members <- MCMembers
  Dimmable = {1, 2}
  Slow = {1}
  Faulty = {}
  Panicky = {}
  Handled = {}
  Hangs = {}
  Requests <- HandlerCalls
  MaxLevel = 100
  PollLimit = 1
  On = On
  Off = Off
  Err = Err
  Panic = Panic
  Yes = Yes
  No = No
  None = None
INVARIANTS ServerTypeOK NoCircle AnswersFitTogether LastWordWins PercentSurvives
