CONSTANTS
  Task = {t1, t2}
  Project = {p1}
  ProjectOf <- MCProjectOf
  Concurrency <- MCConcurrency
  MCLimit = 1
  Picker = {k1}
  None = None
  FaultKinds = {"err"}
  MaxFaults = 1
  MaxCrash = 1
  MaxFlap = 0
SPECIFICATION Spec
INVARIANT TypeOK
INVARIANT QueueMatchesCache
INVARIANT ConcurrencyRespected
INVARIANT ReleasedHoldsNothing
INVARIANT ResourcesAreTracked
INVARIANT NoOrphanRow
INVARIANT CacheIsDurable
INVARIANT CountedOnce
PROPERTY RowStaysTerminated
PROPERTY OnlyTerminatedFreed
SYMMETRY TaskSymmetry
