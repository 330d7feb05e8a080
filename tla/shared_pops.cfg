\* Violation: main and a worker pop the same context.
SPECIFICATION NetworkSpec
CONSTANTS
  Main    = main
  Workers = {w1, w2}
  Threads = {main, w1, w2}
  Values  = {x1, x2}
  Null    = Null
  Uninit  = Uninit
  QueueMaxSize = 3
  ClientCount  = 1
  Keys    = {k1}
  Faults  = {}
  MaxOwed = 1
SYMMETRY Symmetric
\* the program may crash, end in main(), or run out of contexts
CHECK_DEADLOCK FALSE
INVARIANTS
  MovesOwnership
