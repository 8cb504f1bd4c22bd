CONSTANTS
  Page = {p1, p2, p3}
  Null = Null
  PAGE_SIZE = 4096
  Type <- MCType
  Types <- MCTypes
  Addr = {0, 12288}
SYMMETRY Symmetry
SPECIFICATION MCSpec
INVARIANTS
  PayloadsSound
  NotPoisoned
  FreeListExact
  PartialListExact
PROPERTY
  FreedUntouched
CHECK_DEADLOCK FALSE
