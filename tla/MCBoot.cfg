CONSTANTS
  Line = {0, 1, 6, 14}
  BiosMask <- MCBiosMask
SPECIFICATION BootSpec
INVARIANTS
  InterruptsFindHandlers
  ExceptionsReported
CHECK_DEADLOCK FALSE
