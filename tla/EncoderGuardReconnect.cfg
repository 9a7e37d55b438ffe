SPECIFICATION Spec
CONSTANTS
  Modes = {"monitor"}
  Segments = 2
  Measures = {20, 22, 25}
  Attempts = 1
INVARIANT ReconnectClears
