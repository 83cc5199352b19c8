SPECIFICATION Spec
CONSTANTS
  N = 2
  R = 2
  ModeVal = {1}
  LockVal = {2}
  LockPriority = {3}
  MaxResets = 1
  Reacquire = FALSE
INVARIANT ModeRestored
