SPECIFICATION FairSpec
CONSTANTS
  Addrs <- MCAddrs
  Values <- MCValues
  Filler = 255
  TaskRegs <- LoopTasks
  Budget = 1
INVARIANTS TypeOK ServesPending
PROPERTIES PortsAreMemory ReleasedOnlyAnswered FlaggedServed ExchangeServes
