\* The mouse may be left silent behind an error of the line.
SPECIFICATION FairSpec
CONSTANTS
  MaxFaults = 1
PROPERTIES ReInit
CHECK_DEADLOCK FALSE
