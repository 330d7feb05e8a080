\* Start and Process with two clients, every failure and every interleaving.
SPECIFICATION StartupSpec
CONSTANTS
  Main    = main
  Workers = {w1, w2}
  Threads = {main, w1, w2}
  Values  = {x1, x2, x3, x4}
  Null    = Null
  Uninit  = Uninit
  QueueMaxSize = 5
  ClientCount  = 2
  Keys    = {k1, k2}
  Faults  = {"startup", "socket", "connectEx", "connect", "close", "refuse", "cut"}
  MaxOwed = 1
SYMMETRY Symmetric
\* the program may crash, end in main(), or run out of contexts
CHECK_DEADLOCK FALSE
INVARIANTS
  StartupFindsContexts
  DeafOnlyOnTrouble
