SPECIFICATION PoolSpec
CONSTANTS
  Threads = {t1, t2, t3}
  Values  = {x1, x2}
  Null    = Null
  Uninit  = Uninit
  QueueMaxSize = 3
SYMMETRY Symmetric
INVARIANTS
  PoolTypeOK
  OneOwner
  GivingBackNeverFails
  NeverPopsUninit
