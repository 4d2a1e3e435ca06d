\* Two threads, one of them with a producer: a ring of two records, four hits.
CONSTANTS
  N = 2
  Producers = {1}
  RingCap = 2
  MaxHits = 4
SPECIFICATION SessionFairSpec
CHECK_DEADLOCK FALSE
INVARIANTS
  TraceHasNoHoles
PROPERTY
  QueuedIsTraced
