CONSTANTS
  Task = {t1, t2, t3, t4}
  MaxTaskPriority = 3
  DefaultTaskPriority = 2
  MaxInstant = 2
  Time <- MCTime
SPECIFICATION Spec
INVARIANT QueueIsConsistent
INVARIANT RankIsPosition
PROPERTY QueueImplementsPromise
