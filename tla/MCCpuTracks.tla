---------------------------- MODULE MCCpuTracks ----------------------------
(* CpuTracks for TLC: command lines with single options, the options that  *)
(* set several members of sa_opts, and mixtures; updates of a cfs_rq whose *)
(* utilization lies below, inside and above its bounds, and one with       *)
(* bounds out of order; a kernel with all members of struct rq, and one    *)
(* built without uclamp, irq time and thermal pressure.                    *)
EXTENDS CpuTracks

MCCmdLines ==
  { {"load_avg"}, {"load_avg_cpu"}, {"util_avg"}, {"util_avg_rt", "runnable_avg"},
    {"util_avg_cpu"}, {"util_est", "load_avg_thermal"}, {"cpu_nr_running", "cpu_idle"} }

MCKernels == { {"uclamp", "avg_rt", "avg_dl", "avg_irq", "avg_thermal"}, {"avg_rt", "avg_dl"} }

MCCfsUpdates ==
  { [load |-> 0, runnable |-> 1, util |-> 0, lo |-> 1, hi |-> 2],
    [load |-> 1, runnable |-> 0, util |-> 1, lo |-> 0, hi |-> 2],
    [load |-> 2, runnable |-> 2, util |-> 2, lo |-> 0, hi |-> 1],
    [load |-> 1, runnable |-> 1, util |-> 1, lo |-> 2, hi |-> 0] }
=============================================================================
