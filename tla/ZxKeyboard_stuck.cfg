SPECIFICATION Spec
CONSTANTS
  Keys = {"cs", "a"}
  Shifts = {"cs"}
  Caps = {"cs"}
  Rows = 2
  Row <- MCRow
  Scancodes = {"A", "Shift"}
  KbMap <- MCKbMap
  MatrixKeys = {}
  FifoLen = 4
  ShiftPause = 2
  Chords = FALSE
  Users <- TypistWithErrors
INVARIANT NoStuckKey
