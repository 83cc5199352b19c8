SPECIFICATION Spec
CONSTANTS
  N = 2
  T = 3
  Client = {c1, c2}
  Durations = {"infinite", "short"}
  MaxHandle = 2
  MaxQueue = 3
  OnOff = TRUE
  Exit = TRUE
  Mortal = {c1}
INVARIANT QueueStaysValid
