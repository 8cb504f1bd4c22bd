CONSTANTS
  UNIT_SIZE = 32
  RAW_ADDR = 64
  TOTAL_LEN = 1088
  Lens = {80}
  Slack = {0}
  CTX_LEN = 80
SPECIFICATION ShellSpec
INVARIANTS
  InterruptsFindStack
  TaskIntact
  SeqConsistent
PROPERTY
  CommandsReturn
CHECK_DEADLOCK FALSE
