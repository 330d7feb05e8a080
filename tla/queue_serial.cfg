\* One push, one pop and one look at the queue at a time: the queue implements BoundedQueue.
SPECIFICATION LookSpec
CONSTANTS
  Threads = {t1, t2}
  Values  = {v1, v2}
  Null    = Null
  Uninit  = Uninit
  QueueMaxSize = 4
INVARIANTS
  SizeOfAMoment
  EmptyOfAMoment
  FrontOfAMoment
PROPERTIES
  ImplementsBoundedQueue
  RefusesOnlyFullOrEmpty
