\* Two CPUs, three IPIs, a ring of two records; five entries searched in halves
\* down to one pair; int holds -4..3.
CONSTANTS
  MAX_NUM_SYMBOLS = 5
  LINEAR = 1
  INT_SPAN = 8
  Addresses = {0, 2, 6, 10}
  Names = {"", "a", "b", "alias", "c", "d", "e"}
  Files <- MCFiles
  Sends <- MCSends
  Cpus = {0, 1}
  RB_SIZE = 2
  MaxSent = 3
SPECIFICATION IpiFairSpec
CHECK_DEADLOCK FALSE
INVARIANTS
  TypeOK
  ReadsInBounds
  NamesNearest
  SlicesOfSender
PROPERTIES
  FindReturns
  AllShown
