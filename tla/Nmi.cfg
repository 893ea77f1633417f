SPECIFICATION FairSpec
INVARIANTS TypeOK MonitorPaged OneMonitor
PROPERTIES RequestServed
