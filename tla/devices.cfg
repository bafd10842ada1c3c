SPECIFICATION HSpec
CONSTANTS
  t1 = t1
  t2 = t2
  Threads <- MCThreads
  N = 6
  Kind <- HouseKind
  Members <- HouseMembers
  Dimmable = {3}
  Slow = {1}
  Faulty = {1}
  Panicky = {1}
  Handled = {}
  Hangs = {}
  Requests <- HouseRequests
  MaxLevel = 1
  PollLimit = 1
  On = On
  Off = Off
  Err = Err
  Panic = Panic
  Yes = Yes
  No = No
  None = None
SYMMETRY Symmetry
INVARIANTS TypeOK LockOrder NoCircularWait NoLeakedLock AnswersAreCurrent BeliefIsWarranted SuccessIsDelivered GroupDelivers GroupAnswersTruly
