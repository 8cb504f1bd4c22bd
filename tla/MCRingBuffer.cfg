CONSTANTS
  CAP = 3
  T = {a, b}
SPECIFICATION RingSpec
INVARIANTS
  ShiftLoopsKeepElements
PROPERTY
  ImplementsList
