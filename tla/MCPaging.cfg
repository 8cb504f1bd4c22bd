CONSTANTS
  PAGE_SIZE = 4096
  DYNMEM_START_PHYS = 81920
  BUFSIZE = 3
  ENTRIES = 5
  Residues = {0, 21}
  E820Maps <- MCE820Maps
  Maps <- MCMaps
SPECIFICATION Spec
INVARIANTS
  MapExact
  NeverFails
  WalkAgrees
  TablesReserved
  PrintPageExact
CHECK_DEADLOCK FALSE
