CONSTANTS
  Client = {c1, c2, c3}
  Pre = pre
  Trier = c3
  Executor = c1
  Default = default
  LocalExe = exe
  JobUsage = {pre, exe}
  Usage = {pre, default}
  UsageLimit <- MCUsageLimit
  TotalSlots = 2
  Weight = {1, 2}
  MaxRetry = 1
  Request <- MCRequest
  None = None
SPECIFICATION FairSpec
CHECK_DEADLOCK FALSE
INVARIANT SlotsAreExact
INVARIANT NoIdleWaiter
INVARIANT RunningIsLimited
PROPERTY EveryLockReturns
