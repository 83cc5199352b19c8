SPECIFICATION Spec
CONSTANTS
  Client = {c1, c2, c3}
  MaxRepeats = 1
  Policy = {0, 1, 50}
  PROP_NUM = 2
  ITEM_MAX = 1
  REF_MAX = 2
  Uid = {10, 11}
  UID_COUNT = 1
  Link = {l1, l2, l3}
  FILTER_COUNT = 2
  Outcome = {"done", "lost", "failed"}
  MaxLocks = 1
  NoLink = NoLink
  LOCKS = 2
  Pid = {7, 8}
  SetterVal = {0, 1}
  SetterPriority = {2, 3}
  freqMin = 1
  freqMax = 3
  nGpuFreqCount = 3
INVARIANTS
  TypeOK
  EveryRequestHeard
  RequestsReachDevice
  PolicyCounted
  RestartReadsBack
  ActiveIsApplied
  BoostEnds
  LinksListed
  NoStray
  Effective
  LimitsConsistent
  OverrideRules
CHECK_DEADLOCK FALSE
