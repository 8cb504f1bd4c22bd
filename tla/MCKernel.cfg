CONSTANTS
  BUFFER_SIZE = 2
  MaxDepth = 3
  MaxTimer = 2
  MaxKeys = 2
  Panics = FALSE
SPECIFICATION Spec
INVARIANTS
  NothingSpins
  KeysDelivered
  TicksCounted
  NoLostWakeup
PROPERTIES
  KeysHandled
  LinesAnswered
CHECK_DEADLOCK FALSE
