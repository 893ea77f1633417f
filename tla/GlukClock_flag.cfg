SPECIFICATION Spec
CONSTANTS
  Secs = 2
  Mins = 2
  Hours = 1
  WDays = 2
  Months = 2
  Days <- MCDays
  February = 1
  Feb = 1
  Years = 8
INVARIANT UpdateTold
