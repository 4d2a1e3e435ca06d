-------------------------- MODULE MCSchedAnalyzer --------------------------
(* SchedAnalyzer for TLC.  The threads are not interchangeable: they are   *)
(* created and joined in order.                                            *)
EXTENDS SchedAnalyzer
=============================================================================
