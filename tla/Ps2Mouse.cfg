\* The mouse may be left silent behind an error of the line.
SPECIFICATION FairSpec
CONSTANTS
  MaxFaults = 4
INVARIANTS TypeOK PacketsInStep
PROPERTIES Ready
CHECK_DEADLOCK FALSE
