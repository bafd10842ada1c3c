SPECIFICATION HSpec
CONSTANTS
  t1 = t1
  t2 = t2
  Threads <- MCThreads
  N = 1
  Kind <- SingleKind
  Members <- SingleMembers
  Dimmable = {}
  Slow = {1}
  Faulty = {}
  Panicky = {}
  Handled = {1}
  Hangs = {}
  Requests <- SingleRequests
  MaxLevel = 1
  PollLimit = 1
  On = On
  Off = Off
  Err = Err
  Panic = Panic
  Yes = Yes
  No = No
  None = None
PROPERTY LieEndsWhenDeviceIsOn
