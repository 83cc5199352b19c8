SPECIFICATION Spec
CONSTANTS
  N = 3
  R = 1
  ModeVal = {1}
  LockVal = {2, 3}
  LockPriority = {3}
  MaxResets = 2
  Reacquire = TRUE
INVARIANT PriorityIsBest
INVARIANT NodeHasHolder
