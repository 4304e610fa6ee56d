CONSTANTS
  Job = {j1, j2, j3}
  LargeJob = {j1}
  Small = h1
  Big = h2
  HostList <- MCHostList
  Jobs <- MCJobs
  MaxTry <- MCMaxTry
  Stubborn = {j1}
  NetErrorLimit = 1
  MaxEvent = 2
  None = None
SPECIFICATION FairSpec
CHECK_DEADLOCK FALSE
INVARIANT TotalIsAvailable
INVARIANT SlotsAreBalanced
INVARIANT OverbookedByOne
PROPERTY EveryJobEnds
