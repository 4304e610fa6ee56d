CONSTANTS
  Job = {j1, j2}
  Input = input
  FileRetrier = rf
  ToolRetrier = rt
  MaxVersion = 1
  MaxEvent = 1
  None = None
SPECIFICATION FairSpec
CHECK_DEADLOCK FALSE
CONSTRAINT Uncrossed
PROPERTY EveryCallReturns
