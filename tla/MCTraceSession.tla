--------------------------- MODULE MCTraceSession ---------------------------
(* TraceSession for TLC.                                                   *)
EXTENDS TraceSession
=============================================================================
