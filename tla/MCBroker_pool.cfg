CONSTANTS
  Spare = {s1, s2, s3}
  ConstNum = 1
  MaxFault = 2
  MaxCrash = 1
  None = None
SPECIFICATION FairSpec
CHECK_DEADLOCK FALSE
INVARIANT PoolIsExact
PROPERTY EverySpareSettles
