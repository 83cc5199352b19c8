SPECIFICATION FairSpec
CONSTANTS
  N = 2
  Pid = {p1}
  Rsc = {"ceil"}
  Comp <- MCComp
  MinVal <- MCMin
  MaxVal <- MCMax
  DefVal <- MCDef
  AskVal <- MCAsk
  AskPriority = {}
  AskOffAction = {"wait_restore", "always_valid", "enable"}
  AskType = {"perf_lock", "cus_hint"}
  AskShort = {TRUE, FALSE}
  CtrlRsc = {}
  AskSweep = {"check", "screen_off"}
  MallocRepeats = FALSE
  NoCmd = NoCmd
PROPERTY ScreenOffComplete
PROPERTY AlwaysValidKept
PROPERTY DeadOwnerReaped
PROPERTY ImplementsArbiter
