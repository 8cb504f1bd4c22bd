CONSTANTS
  UNIT_SIZE = 4096
  RAW_ADDR = 4096
  TOTAL_LEN = 12288
  Lens = {1}
  Slack = {0}
  Chunks <- PageChunks
SPECIFICATION MCSpec
INVARIANT
  MetadataLeavesRoom
CHECK_DEADLOCK FALSE
