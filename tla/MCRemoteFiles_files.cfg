CONSTANTS
  Job = {j1, j2}
  Input = input
  FileRetrier = rf
  ToolRetrier = rt
  MaxVersion = 3
  MaxEvent = 3
  None = None
SPECIFICATION FairSpec
CHECK_DEADLOCK FALSE
CONSTRAINT Uncrossed
INVARIANT OneSender
PROPERTY JobHasItsFiles
PROPERTY OnlyForgottenWaits
PROPERTY FailedIsRepaired
