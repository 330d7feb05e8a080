\* Two clients served by one worker, every failure.
SPECIFICATION NetworkSerialSpec
CONSTANTS
  Main    = main
  Workers = {w1}
  Threads = {main, w1}
  Values  = {x1, x2}
  Null    = Null
  Uninit  = Uninit
  QueueMaxSize = 3
  ClientCount  = 2
  Keys    = {k1, k2}
  Faults  = {"startup", "socket", "connectEx", "connect", "close", "refuse", "cut"}
  MaxOwed = 1
SYMMETRY Symmetric
\* the program may crash, end in main(), or run out of contexts
CHECK_DEADLOCK FALSE
INVARIANTS
  OneWorkerNeverSends
