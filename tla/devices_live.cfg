SPECIFICATION FairSpec
CONSTANTS
  t1 = t1
  t2 = t2
  Threads <- MCThreads
  N = 5
  Kind <- PairKind
  Members <- PairMembers
  Dimmable = {}
  Slow = {2}
  Faulty = {4}
  Panicky = {}
  Handled = {4}
  Hangs = {1}
  Requests <- PairRequests
  MaxLevel = 1
  PollLimit = 1
  On = On
  Off = Off
  Err = Err
  Panic = Panic
  Yes = Yes
  No = No
  None = None
PROPERTIES HangsAreContained LiesComeTrue
