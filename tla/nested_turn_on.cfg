SPECIFICATION HSpec
CONSTANTS
  t1 = t1
  t2 = t2
  Threads <- MCThreads
  N = 6
  Kind <- HouseKind
  Members <- HouseMembers
  Dimmable = {}
  Slow = {}
  Faulty = {}
  Panicky = {}
  Handled = {}
  Hangs = {}
  Requests <- HouseRequests
  MaxLevel = 1
  PollLimit = 0
  On = On
  Off = Off
  Err = Err
  Panic = Panic
  Yes = Yes
  No = No
  None = None
INVARIANT TurnOnReachesEveryMember
