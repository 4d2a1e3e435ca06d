--------------------------- MODULE MCEventRing ---------------------------
(* EventRing for TLC.  CPUs and runqueues are interchangeable, but symmetry *)
(* is not used because it is unsound for liveness.                         *)
EXTENDS RingRefinement
=============================================================================
