--------------------------- MODULE MCLoadBalance ---------------------------
(* LoadBalance for TLC: readings with one sched_domain and with as many as *)
(* a record has room for.  The CPUs are interchangeable.                   *)
EXTENDS LoadBalance, TLC

MCReadings ==
  { [over |-> 0, util |-> 1, misfit |-> 0, busy |-> FALSE, 
     chain |-> <<[level |-> 0, interval |-> 1]>>],
    [over |-> 1, util |-> 0, misfit |-> 3, busy |-> TRUE,
     chain |-> <<[level |-> 0, interval |-> 1], [level |-> 1, interval |-> 2]>>] }

Symmetry == Permutations(Cpus)
=============================================================================
