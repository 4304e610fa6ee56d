CONSTANTS
  Watched = {t1}
  Timeout = 8
  Grace = 3
  Wait = 8
  Reconnect = 2
  MaxTime = 15
  MaxTerm = 2
  MaxCrash = 1
  MaxWrite = 3
  None = None
SPECIFICATION KeeperFairSpec
CONSTRAINT Watching
CHECK_DEADLOCK FALSE
PROPERTY LiveClientKept
PROPERTY LostClientFailed
