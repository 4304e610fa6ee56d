CONSTANTS
  Task = {t1, t2}
  KnownTask = {t1}
  Queue = {q1, q2}
  Known = q1
  Learned = q2
  QueueOf <- MCQueueOf
  Configured = {q1}
  Picker = {p1, p2, p3, p4, p5}
  Cap = 2
  MaxTask = 1
  MaxTerm = 2
  None = None
SPECIFICATION FairSpec
CHECK_DEADLOCK FALSE
PROPERTY QueuePicked
 
