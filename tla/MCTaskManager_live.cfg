CONSTANTS
  Task = {t1}
  Project = {p1}
  ProjectOf <- MCProjectOf
  Concurrency <- MCConcurrency
  MCLimit = 1
  Picker = {k1}
  None = None
  FaultKinds = {"err","lost"}
  MaxFaults = 2
  MaxCrash = 2
  MaxFlap = 2
SPECIFICATION FairSpec
CHECK_DEADLOCK FALSE
INVARIANT IInv
PROPERTY EveryTaskReleased
