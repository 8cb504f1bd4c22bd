CONSTANTS
  UNIT_SIZE = 32
  RAW_ADDR = 64
  TOTAL_LEN = 384
  Lens = {1, 33, 96, 300}
  Slack = {0, 31}
  Chunks <- SmallChunks
SPECIFICATION MCSpec
INVARIANTS
  LayoutMatches
  Conservation
  Coalesced
  DeallocAccepts
  MergeLoopAgrees
PROPERTY
  ImplementsAllocator
CHECK_DEADLOCK FALSE
