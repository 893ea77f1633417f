SPECIFICATION FairSpec
CONSTANTS
  Keys = {"cs", "a", "b"}
  Shifts = {"cs"}
  Caps = {"cs"}
  Rows = 2
  Row <- MCRow
  Scancodes = {"A", "Shift", "Left", "Esc"}
  KbMap <- MCKbMap
  MatrixKeys = {"cs", "a", "b"}
  FifoLen = 3
  ShiftPause = 2
  Chords = TRUE
  Users <- MCUsers
INVARIANTS TypeOK RestShown CountsHeld
PROPERTIES FrameWhole ShiftSeenFirst OncePerKey CapsLiftedLast Settles
