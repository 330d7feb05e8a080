\* Calls of three threads interleave at will; what holds until two of a kind overlap.
SPECIFICATION Spec
CONSTANTS
  Threads = {t1, t2, t3}
  Values  = {v1, v2}
  Null    = Null
  Uninit  = Uninit
  QueueMaxSize = 3
SYMMETRY Symmetric
INVARIANTS
  TypeOK
  SerialInv
