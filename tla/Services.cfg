SPECIFICATION Spec
CONSTANTS
  Timer = {t1, t2, t3, t4}
  SECOND = 4
  Duration = {1, 3, 5}
  MaxClock = 2
  MAX_TIMER_COUNT = 2
  TimerNode = {n1, n2}
  QUEUE_MAX = 3
  Activity <- MCActivity
  NamePrefix <- MCNamePrefix
  FPS = {60}
  AppMode = {"LOOM", "m"}
  AppTables <- MCAppTables
  ThreadHintCfg <- MCThreadHintCfg
  NotSet = NotSet
  MULTI_WIN_SIZE_MAX = 2
  LaunchPackage = {"a", "b"}
  DefaultOpp = 1
  MinLevelOpp = 4
  SPAN_MAX = 2
  DL_MAX = 1
  MaxOpen = 2
  LockMode = {"LAUNCH", "SUSTAINED_PERFORMANCE"}
  Hint = {"PROCESS_CREATE", "EXT_LAUNCH"}
  HeldHint = {"PROCESS_CREATE"}
  ExtHint <- MCExtHint
  NoHint = NoHint
  MaxWork = 3
  MaxAdrift = 1
INVARIANTS
  TypeOK
  TimersLinked
  WeakSigFollows
  BtSettles
  ResumedFollows
  RowsFollow
  HintsFollow
  LearnedSurvivesRestart
  LaunchPolicyReset
  HandlesHeld
CHECK_DEADLOCK FALSE
