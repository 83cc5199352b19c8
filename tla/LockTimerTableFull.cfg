SPECIFICATION FairSpec
CONSTANTS
  N = 2
  T = 2
  Client = {c1}
  Durations = {"short"}
  MaxHandle = 3
  MaxQueue = 2
  OnOff = FALSE
  Exit = FALSE
  Mortal = {}
PROPERTY TimedLockEnds
