CONSTANTS
  BUFFER_SIZE = 1
  MaxDepth = 3
  MaxTimer = 1
  MaxKeys = 1
  Panics = TRUE
SPECIFICATION Spec
PROPERTIES
  ImplementsIrqMutex
  PanicShown
CHECK_DEADLOCK FALSE
