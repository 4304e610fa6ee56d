CONSTANTS
  Resource = {r1, r2}
  Total = 2
  Least = 1
  Want <- MCWant
  Stays = r2
  Leaving = {r1}
  MaxFault = 2
  MaxCrash = 1
  BlockVanishes = TRUE
  None = None
SPECIFICATION FairSpec
CHECK_DEADLOCK FALSE
INVARIANT NoReadyIsExact
 
INVARIANT ServiceIsTracked
INVARIANT CapacityIsKept
CONSTRAINT OneAtATime
PROPERTY EveryServiceStops
