CONSTANTS
  VIDEO_WIDTH = 2
  SCREEN_HEIGHT = 2
  BUFFER_HEIGHT = 3
  INPUT_MAXSIZE = 4
  Char = {a, b}
SYMMETRY Symmetry
SPECIFICATION Spec
INVARIANT
  RowsInBounds
CHECK_DEADLOCK FALSE
