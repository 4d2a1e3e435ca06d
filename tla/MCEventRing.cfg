\* PELT, nr_running and idle programs (reserve, then read the clock) under
\* fair scheduling.
CONSTANTS
  Cpus = {c1, c2}
  Rqs = {q1, q2}
  RB_SIZE = 2
  STAMP_FIRST = FALSE
  MaxHits = 2
  MaxClock = 3
SPECIFICATION FairSpec
CHECK_DEADLOCK FALSE
INVARIANTS
  TypeOK
  PerRqOrder
  NeverTorn
  EveryHitAccounted
PROPERTIES
  Delivered
  ImplementsChannel
