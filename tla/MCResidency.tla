---------------------------- MODULE MCResidency ----------------------------
(* Residency for TLC.                                                      *)
EXTENDS Residency
=============================================================================
