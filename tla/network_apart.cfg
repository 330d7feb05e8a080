\* Three workers, one client, every failure; calls of the queue of one kind kept apart.
SPECIFICATION NetworkSerialSpec
CONSTANTS
  Main    = main
  Workers = {w1, w2, w3}
  Threads = {main, w1, w2, w3}
  Values  = {x1, x2, x3}
  Null    = Null
  Uninit  = Uninit
  QueueMaxSize = 4
  ClientCount  = 1
  Keys    = {k1}
  Faults  = {"startup", "socket", "connectEx", "connect", "close", "refuse", "cut"}
  MaxOwed = 1
SYMMETRY Symmetric
\* the program may crash, end in main(), or run out of contexts
CHECK_DEADLOCK FALSE
INVARIANTS
  NetworkTypeOK
  LeaksOnlyOnTrouble
  OneReceiveForEver
PROPERTIES
  WorkerStarvesOnlyIfDrained
  DeafForGood
