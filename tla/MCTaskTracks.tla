---------------------------- MODULE MCTaskTracks ----------------------------
(* TaskTracks for TLC: a short name and a long one; the filter "sh"        *)
(* matches the short name only.                                            *)
EXTENDS TaskTracks, TLC

MCUpdates ==
  { [load |-> 1, runnable |-> 2, util |-> 1, lo |-> 2, hi |-> 3, reqlo |-> 0, reqhi |-> 0, actlo |-> TRUE, acthi |-> TRUE],
    [load |-> 2, runnable |-> 1, util |-> 3, lo |-> 0, hi |-> 1, reqlo |-> 1, reqhi |-> 2, actlo |-> FALSE, acthi |-> TRUE] }

MCOptSets == { {"load_avg_task", "runnable_avg_task"}, {"util_avg_task", "util_est_task"} }
MCEstVals == { <<1, 2>> }
MCContains == { <<"sh", "sh">> }
\* "sh-12345 " and a name of 15 characters
MCPrefixLen == "sh" :> 9 @@ "long" :> 22
=============================================================================
