CONSTANTS
  Mutex = {TERM, COM1, QUEUE}
  NoMutex = NoMutex
  MaxDepth = 3
SYMMETRY Symmetry
SPECIFICATION Spec
INVARIANTS
  LockNeverSpins
  HolderRunsMasked
  FlagRestored
