---------------------------- MODULE MCParseArgp ----------------------------
(* ParseArgp for TLC: which options a run gives.                           *)
EXTENDS ParseArgp

AllOptions == FlagOptions \cup ListNames
              \cup {"system", "app", "output", "output_path", "max_size", "pid", "comm", "none"}
=============================================================================
