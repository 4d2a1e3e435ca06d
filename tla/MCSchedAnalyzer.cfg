\* Three threads, the last one without a producer (as softirq and
\* sched_switch are).
CONSTANTS
  N = 3
  Producers = {1, 2}
  RingCap = 2
SPECIFICATION FairSpec
CHECK_DEADLOCK FALSE
INVARIANTS
  TypeOK
  SkelOutlivesThreads
  CleanExit
  OnlySignalEndsThreads
  StatusOnlyOfEarlyFailures
PROPERTIES
  StopsOnSignal
  RingsEmptied
