\* Two rounds of requests to two clients, three of them in progress at a time.
SPECIFICATION Spec
CONSTANTS
  ClientCount = 2
  Free        = 3
  BufferSize  = 1024
  IdLengths   = {1, 3, 978, 979}
  LastUpdate  = 1700000000
  MaxRounds   = 2
\* main stops after MaxRounds
CHECK_DEADLOCK FALSE
INVARIANTS
  TypeOK
  WireCarriesWhatMainBuilt
  NothingOldIsSent
  OverrunsOnlyOnLongIds
