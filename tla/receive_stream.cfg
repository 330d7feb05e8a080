\* Four responses on one connection, cut at any byte.
SPECIFICATION Spec
CONSTANTS
  BufferSize   = 128
  Responses    <- FourResponses
\* the server stops after the last response, a worker may crash
CHECK_DEADLOCK FALSE
INVARIANTS
  TypeOK
  HandledAsSent
  LostButNotMistaken
  NothingHandledTwice
