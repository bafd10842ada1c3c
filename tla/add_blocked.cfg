SPECIFICATION SFairSpec
CONSTANTS
  ssdp = ssdp
  hue = hue
  own = own
  user = user
  Threads = {hue, user}
  Work <- LiveWork
  N = 2
  Kind <- MCKind
  Members <- MCMembers
  Dimmable = {1, 2}
  Slow = {}
  Faulty = {}
  Panicky = {}
  Handled = {}
  Hangs = {1}
  Requests <- HandlerCalls
  MaxLevel = 100
  PollLimit = 1
  On = On
  Off = Off
  Err = Err
  Panic = Panic
  Yes = Yes
  No = No
  None = None
PROPERTY AddWhileListening
CHECK_DEADLOCK FALSE
