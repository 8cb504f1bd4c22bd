CONSTANTS
  VIDEO_WIDTH = 2
  SCREEN_HEIGHT = 2
  BUFFER_HEIGHT = 3
  INPUT_MAXSIZE = 3
  Char = {a, b}
SYMMETRY Symmetry
SPECIFICATION Spec
INVARIANTS
  CursorTracksInput
  EchoMatchesInput
  EchoShown
  DisplayFollows
PROPERTIES
  ImplementsEditor
CHECK_DEADLOCK FALSE
