SPECIFICATION SFairSpec
CONSTANTS
  ssdp = ssdp
  hue = hue
  own = own
  user = user
  Threads = {ssdp, hue, own, user}
  Work <- LiveWork
  N = 2
  Kind <- LiveKind
  Members <- MCMembers
  Dimmable = {1, 2}
  Slow = {}
  Faulty = {}
  Panicky = {1}
  Handled = {}
  Hangs = {1}
  Requests <- HandlerCalls
  MaxLevel = 100
  PollLimit = 1
  On = On
  Off = Off
  Err = Err
  Panic = Panic
  Yes = Yes
  No = No
  None = None
INVARIANT ReadersLeave
PROPERTIES DevicesAreOnlyCalled RequestsAreServed
CHECK_DEADLOCK FALSE
