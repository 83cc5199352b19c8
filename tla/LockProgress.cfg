SPECIFICATION FairSpec
CONSTANTS
  N = 2
  T = 3
  Client = {c1}
  Durations = {"infinite", "short"}
  MaxHandle = 3
  MaxQueue = 2
  OnOff = FALSE
  Exit = FALSE
  Mortal = {}
INVARIANT TimersMatchLocks
PROPERTY ReleaseHonoured
PROPERTY TimedLockEnds
PROPERTY CallReturns
