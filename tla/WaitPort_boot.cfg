SPECIFICATION BootSpec
CONSTANTS
  Addrs <- MCAddrs
  Values <- MCValues
  Filler = 255
  TaskRegs <- LoopTasksAndReset
  Budget = 1
PROPERTY FreshReleaseAnswered
