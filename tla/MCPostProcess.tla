--------------------------- MODULE MCPostProcess ---------------------------
(* PostProcess for TLC: a CPU and a task, and tasks with difficult names.  *)
EXTENDS PostProcess

Owner(id, task, plain, states, len) ==
  [id |-> id, task |-> task, plain |-> plain, states |-> states, len |-> len]

Cpu0 == Owner(1, FALSE, TRUE, "none", 4)
Short == Owner(2, TRUE, TRUE, "ran", 12)
Blank == Owner(3, TRUE, FALSE, "ran", 16)      \* "Web Content-1234"
Long == Owner(4, TRUE, TRUE, "ran", 19)        \* "surfaceflinger-1234"
Renamed == Owner(5, TRUE, TRUE, "none", 12)
Slept == Owner(6, TRUE, TRUE, "never", 12)

MCOwners == {Cpu0, Short, Blank, Long, Renamed, Slept}
MCHistories == {<<1>>, <<1, 2>>}
=============================================================================
