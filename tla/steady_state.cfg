\* Two workers and two clients for ever, with trouble for one of them.
SPECIFICATION FairSpec
CONSTANTS
  Workers = {w1, w2}
  ThreadCount = 2
  ClientCount = 2
  MaxOwed = 1
  MaxTroubled = 1
\* a worker without a context ends the program, and a race what is claimed of it
CHECK_DEADLOCK FALSE
INVARIANTS
  TypeOK
  ContextsAddUp
PROPERTIES
  EveryRequestIsAnswered
  MainKeepsSending
  DeadClientIsNotServedForEver
