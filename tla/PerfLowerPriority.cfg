SPECIFICATION Spec
CONSTANTS
  N = 1
  Pid = {p1}
  Rsc = {"floor"}
  Comp <- MCComp
  MinVal <- MCMin
  MaxVal <- MCMax
  DefVal <- MCDef
  AskVal <- MCAsk
  AskPriority = {2, 4}
  AskOffAction = {}
  AskType = {"perf_lock"}
  AskShort = {FALSE}
  CtrlRsc = {}
  AskSweep = {"check"}
  MallocRepeats = FALSE
  NoCmd = NoCmd
INVARIANT NoBoostLeft
