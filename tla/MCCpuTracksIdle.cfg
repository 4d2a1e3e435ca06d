\* --cpu_idle with an idle miss.
CONSTANTS
  Cpus = {0, 1}
  Vals = {0, 1, 2}
  UTIL_AVG_UNCHANGED = 8
  CfsUpdates <- MCCfsUpdates
  CmdLines <- MCCmdLines
  Kernels <- MCKernels
  RB_SIZE = 2
  MaxHits = 3
SPECIFICATION Spec
CHECK_DEADLOCK FALSE
INVARIANT
  IdleStateCurrent
