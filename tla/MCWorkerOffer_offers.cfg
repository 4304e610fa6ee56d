CONSTANTS
  c1 = c1
  c2 = c2
  Client = {c1, c2}
  Priority <- Priorities
  PriorityHight = 2
  Available = 2
  MaxClient = 1
  MaxAsk <- Asks
  MaxConn <- Connections
  MaxEvent = 1
SPECIFICATION OfferSpec
CONSTRAINT Telling
CHECK_DEADLOCK FALSE
INVARIANT BookedIsExact
INVARIANT PromisesAreKept
