SPECIFICATION Spec
CONSTANTS
  N = 3
  Pid = {p1}
  Rsc = {"floor"}
  Comp <- MCComp
  MinVal <- MCMin
  MaxVal <- MCMax
  DefVal <- MCDef
  AskVal <- MCAsk
  AskPriority = {2, 7}
  AskOffAction = {}
  AskType = {"perf_lock"}
  AskShort = {FALSE}
  CtrlRsc = {"floor"}
  AskSweep = {"check"}
  MallocRepeats = TRUE
  NoCmd = NoCmd
INVARIANT TypeOK
INVARIANT Arbitration
INVARIANT NodeFollowsTable
INVARIANT FreeSlotClean
