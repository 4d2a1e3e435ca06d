\* Up to two options, three signals, three CPUs, with and without saving.
CONSTANTS
  Owners <- MCOwners
  Signals = {"runnable_avg", "util_est", "cpu_nr_running"}
  MaxCpu = 2
  Histories <- MCHistories
SPECIFICATION Spec
CHECK_DEADLOCK FALSE
INVARIANT
  NoneLost
  ShownAsAsked
  EveryPolicyPlotted
