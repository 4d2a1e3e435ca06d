\* Two tasks, a short and a long name, four hits or renames, a ring of two records.
CONSTANTS
  Pids = {1, 2}
  Comms = {"sh", "long"}
  Updates <- MCUpdates
  EstVals <- MCEstVals
  UTIL_AVG_UNCHANGED = 8
  OptSets <- MCOptSets
  PidFilters = {{}, {1}}
  CommFilters = {{}, {"sh"}}
  Contains <- MCContains
  PrefixLen <- MCPrefixLen
  RB_SIZE = 2
  MaxSteps = 4
SPECIFICATION Spec
CHECK_DEADLOCK FALSE
INVARIANTS
  TaskTracksCurrent
  ZeroedUnderLastName
