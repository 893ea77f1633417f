SPECIFICATION FairSpec
CONSTANTS
  Bits = 4
  Timeout = 3
  DelayEdges = 2
  Faults = TRUE
INVARIANTS TypeOK ClockHolds StagesAgree SentWhole
PROPERTIES Recovers
