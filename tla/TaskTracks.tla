----------------------------- MODULE TaskTracks -----------------------------
(***************************************************************************)
(* The per-task signals: tasks are born, renamed, updated and freed in the *)
(* kernel; the BPF programs of pelt_se_tp, sched_util_est_se_tp and        *)
(* sched_process_free write task_pelt_rb; the handler filters by pid and   *)
(* comm and puts samples on tracks named after comm, pid and signal.       *)
(*                                                                         *)
(* As in CpuTracks a program and a call of the handler are one step each.  *)
(***************************************************************************)
EXTENDS Integers, Sequences

CONSTANTS
  Pids,
  Comms,
  Updates,      \* what a hit of pelt_se_tp brings: load_avg, runnable_avg, util_avg
                \* and uclamp: effective and requested bounds, and for the lower
                \* and the upper one whether the effective one is active
  EstVals,      \* values of util_est_enqueued (pairs with util_est_ewma)
  UTIL_AVG_UNCHANGED,  \* 0x80000000 in the code: a bit above all values
  OptSets,      \* the task members of sa_opts that are true: alternatives
  PidFilters,   \* alternatives for the --pid options
  CommFilters,  \* alternatives for the --comm options
  Contains,     \* <<comm, filter>>: strstr(comm, filter)
  PrefixLen,    \* PrefixLen[comm]: length of "comm-pid "
  RB_SIZE,      \* capacity of task_pelt_rb, in records
  MaxSteps      \* bound: hits, forks and renames

ASSUME TaskAssumption ==
  /\ RB_SIZE \in Nat \ {0}
  /\ MaxSteps \in Nat
  /\ PrefixLen \in [Comms -> Nat]
  /\ UTIL_AVG_UNCHANGED \in Nat \ {0}
  /\ EstVals \subseteq (0..(UTIL_AVG_UNCHANGED - 1)) \X Nat
  /\ Updates \subseteq [load : Nat, runnable : Nat, util : Nat, lo : Nat, hi : Nat,
                        reqlo : Nat, reqhi : Nat, actlo : BOOLEAN, acthi : BOOLEAN]

VARIABLES
  opts, pidFilter, commFilter,  \* the command line
  uclampOn,  \* is the kernel built with uclamp?
  comm,      \* comm[p]: current name of task p
  alive,     \* the tasks that exist
  ring,      \* records in task_pelt_rb
  shown,     \* shown[n]: last sample on track n
  kernel,    \* kernel[p][s]: signal s of task p at its last hit
  under,     \* under[p][s]: the name of the task at that hit
  dropped,   \* <<p, s>>: the record of that hit was refused
  steps      \* hits, forks and renames so far

cmdVars == <<opts, pidFilter, commFilter, uclampOn>>
vars == <<cmdVars, comm, alive, ring, shown, kernel, under, dropped, steps>>

None == -2
Absent == -1
Signals == {"load_avg", "runnable_avg", "util_avg", "uclamped_avg",
            "util_est.enqueued", "util_est.ewma"}

-----------------------------------------------------------------------------
(* Track names: snprintf() into char[32] keeps 31 characters.  The two     *)
(* util_est names differ first in their 11th character.                    *)

NAME_MAX == 31
EST_DIFFERS_AT == 11

TrackSignal(cm, s) ==
  IF s \in {"util_est.enqueued", "util_est.ewma"} /\ PrefixLen[cm] + EST_DIFFERS_AT > NAME_MAX
  THEN "util_est.e" ELSE s

TrackName(cm, p, s) == <<cm, p, TrackSignal(cm, s)>>
Tracks == {TrackName(cm, p, s) : cm \in Comms, p \in Pids, s \in Signals}

Init ==
  /\ opts \in OptSets /\ pidFilter \in PidFilters /\ commFilter \in CommFilters
  /\ uclampOn \in BOOLEAN
  /\ comm \in [Pids -> Comms]
  /\ alive = Pids
  /\ ring = <<>>
  /\ shown = [n \in Tracks |-> None]
  /\ kernel = [p \in Pids |-> [s \in Signals |-> None]]
  /\ under = [p \in Pids |-> [s \in Signals |-> comm[p]]]
  /\ dropped = {}
  /\ steps = 0

-----------------------------------------------------------------------------
(* Mutated forms: plausible slips in this code.                            *)

\* handle_sched_process_free is not loaded.
ProcessFreeUnseen(p) ==
  /\ p \in alive
  /\ steps < MaxSteps
  /\ steps' = steps + 1
  /\ alive' = alive \ {p}
  /\ UNCHANGED <<cmdVars, comm, ring, shown, kernel, under, dropped>>

\* The requested clamp wins over the effective one.
BoundReqFirst(req, eff, active) == IF uclampOn THEN req ELSE Absent

-----------------------------------------------------------------------------
(* The BPF programs.                                                       *)

Fits == Len(ring) < RB_SIZE

Store(p, e, news) ==
  /\ kernel' = [kernel EXCEPT ![p] = [s \in Signals |->
                  IF s \in DOMAIN news THEN news[s] ELSE @[s]]]
  /\ under' = [under EXCEPT ![p] = [s \in Signals |->
                 IF s \in DOMAIN news THEN comm[p] ELSE @[s]]]
  /\ IF Fits
     THEN /\ ring' = Append(ring, e)
          /\ dropped' = dropped \ ({p} \X DOMAIN news)
     ELSE /\ dropped' = dropped \cup ({p} \X DOMAIN news)
          /\ UNCHANGED ring

Step ==
  /\ steps < MaxSteps
  /\ steps' = steps + 1

\* A bound of the task: the effective one once it is active, else the
\* requested one, if the kernel has them.
Bound(req, eff, active) ==
  IF ~uclampOn THEN Absent ELSE IF active THEN eff ELSE req

clamp(val, lo, hi) == IF val >= hi THEN hi ELSE IF val <= lo THEN lo ELSE val

\* The clamped utilization the kernel would use: the bounds in force.
InForce(u) ==
  LET lo == IF u.actlo THEN u.lo ELSE u.reqlo
      hi == IF u.acthi THEN u.hi ELSE u.reqhi
  IN  IF ~uclampOn \/ lo > hi THEN None
      ELSE IF u.util < lo THEN lo ELSE IF u.util > hi THEN hi ELSE u.util

\* handle_pelt_se(): group entities are skipped.
PeltSe(p, isTask, u) ==
  /\ {"load_avg_task", "runnable_avg_task", "util_avg_task"} \cap opts # {}
  /\ p \in alive
  /\ Step
  /\ IF isTask
     THEN Store(p, [pid |-> p, comm |-> comm[p], load |-> u.load, runnable |-> u.runnable,
                    util |-> u.util, est |-> Absent, ewma |-> Absent,
                    lo |-> Bound(u.reqlo, u.lo, u.actlo), hi |-> Bound(u.reqhi, u.hi, u.acthi)],
                [load_avg |-> u.load, runnable_avg |-> u.runnable, util_avg |-> u.util,
                 uclamped_avg |-> InForce(u)])
     ELSE UNCHANGED <<ring, kernel, under, dropped>>
  /\ UNCHANGED <<cmdVars, comm, alive, shown>>

StoredUtilEst(raw) == raw % UTIL_AVG_UNCHANGED

\* handle_util_est_se(): v is the pair of enqueued and ewma before Linux 6.8,
\* and ewma is 0 since.
UtilEstSe(p, v, flag) ==
  /\ "util_est_task" \in opts
  /\ p \in alive
  /\ Step
  /\ Store(p, [pid |-> p, comm |-> comm[p], load |-> Absent, runnable |-> Absent,
               util |-> Absent, lo |-> Absent, hi |-> Absent,
               est |-> StoredUtilEst(IF flag THEN v[1] + UTIL_AVG_UNCHANGED ELSE v[1]),
               ewma |-> v[2]],
           [x \in {"util_est.enqueued", "util_est.ewma"} |->
              IF x = "util_est.enqueued" THEN v[1] ELSE v[2]])
  /\ UNCHANGED <<cmdVars, comm, alive, shown>>

\* handle_sched_process_free(): zeroes for every signal under the name the
\* task has now.
FreeRecord(p) ==
  [pid |-> p, comm |-> comm[p], load |-> 0, runnable |-> 0, util |-> 0,
   est |-> 0, ewma |-> 0, lo |-> 0, hi |-> 0]

ProcessFree(p) ==
  /\ opts # {}
  /\ p \in alive
  /\ Step
  /\ alive' = alive \ {p}
  /\ Store(p, FreeRecord(p), [s \in Signals |-> 0])
  /\ UNCHANGED <<cmdVars, comm, shown>>

\* The kernel gives the pid to a new task, or a task changes its name.
Fork(p, cm) ==
  /\ p \notin alive
  /\ Step
  /\ alive' = alive \cup {p}
  /\ comm' = [comm EXCEPT ![p] = cm]
  /\ UNCHANGED <<cmdVars, ring, shown, kernel, under, dropped>>

Rename(p, cm) ==
  /\ p \in alive
  /\ cm # comm[p]
  /\ Step
  /\ comm' = [comm EXCEPT ![p] = cm]
  /\ UNCHANGED <<cmdVars, alive, ring, shown, kernel, under, dropped>>

-----------------------------------------------------------------------------
(* The handler.                                                            *)

ignore_pid_comm(p, cm) ==
  /\ pidFilter # {} \/ commFilter # {}
  /\ p \notin pidFilter
  /\ \A f \in commFilter : <<cm, f>> \notin Contains

If(b, s, val) == IF b THEN {<<s, val>>} ELSE {}

\* handle_task_pelt_event(): in the order of the calls; a later sample on the
\* same track hides an earlier one.
TaskSamples(e) ==
  If("load_avg_task" \in opts /\ e.load # Absent, "load_avg", e.load)
    \cup If("runnable_avg_task" \in opts /\ e.runnable # Absent, "runnable_avg", e.runnable)
    \cup If("util_avg_task" \in opts /\ e.util # Absent, "util_avg", e.util)
    \cup If("util_avg_task" \in opts /\ e.util # Absent /\ e.lo # Absent /\ e.hi # Absent,
            "uclamped_avg", clamp(e.util, e.lo, e.hi))
    \cup If("util_est_task" \in opts /\ e.est # Absent, "util_est.enqueued", e.est)
    \cup If("util_est_task" \in opts /\ e.est # Absent, "util_est.ewma", e.ewma)

Handle ==
  /\ ring # <<>>
  /\ ring' = Tail(ring)
  /\ LET e == Head(ring)
         new == IF ignore_pid_comm(e.pid, e.comm) THEN {} ELSE TaskSamples(e)
         On(n) == {x \in new : TrackName(e.comm, e.pid, x[1]) = n}
     IN  shown' = [n \in Tracks |->
           CASE On(n) = {} -> shown[n]
             [] \E x \in On(n) : x[1] = "util_est.ewma" ->
                  (CHOOSE x \in On(n) : x[1] = "util_est.ewma")[2]
             [] OTHER -> (CHOOSE x \in On(n) : TRUE)[2]]
  /\ UNCHANGED <<cmdVars, comm, alive, kernel, under, dropped, steps>>

Next ==
  \/ \E p \in Pids, isTask \in BOOLEAN, u \in Updates : PeltSe(p, isTask, u)
  \/ \E p \in Pids, v \in EstVals, flag \in BOOLEAN : UtilEstSe(p, v, flag)
  \/ \E p \in Pids : ProcessFree(p)
  \/ \E p \in Pids, cm \in Comms : Fork(p, cm) \/ Rename(p, cm)
  \/ Handle

Spec == Init /\ [][Next]_vars

-----------------------------------------------------------------------------
(* Properties.                                                             *)

FlagOf(s) ==
  CASE s = "load_avg" -> "load_avg_task" [] s = "runnable_avg" -> "runnable_avg_task"
    [] s \in {"util_avg", "uclamped_avg"} -> "util_avg_task"
    [] OTHER -> "util_est_task"

Long(cm) == PrefixLen[cm] + EST_DIFFERS_AT > NAME_MAX

\* --pid names the task, --comm a part of its name, or there is no filter.
Selected(p, cm) ==
  \/ pidFilter = {} /\ commFilter = {}
  \/ p \in pidFilter
  \/ \E f \in commFilter : <<cm, f>> \in Contains

\* Once the ring is drained, and unless the record was refused or the task
\* is not selected under the name it had at the last hit, the track of task p
\* and signal s under that name shows the value of that hit.
Current(p, s) ==
  FlagOf(s) \in opts /\ ring = <<>> /\ <<p, s>> \notin dropped /\ kernel[p][s] # None
    /\ Selected(p, under[p][s]) =>
       shown[TrackName(under[p][s], p, s)] = kernel[p][s]

\* Every task signal that is collected has its latest value on the track of
\* the task, whichever of the three programs wrote the record and whatever
\* the task was called when the record was handled.  Under a long name the
\* two util_est signals share a track, which then shows the ewma.
TaskTracksCurrent ==
  \A p \in Pids, s \in Signals :
    (s = "util_est.enqueued" => ~Long(under[p][s])) => Current(p, s)

\* Once a freed task's last record is handled, no track under the name it had
\* when it was freed shows anything but zero.
ZeroedUnderLastName ==
  \A p \in Pids \ alive, s \in Signals :
    ring = <<>> /\ <<p, s>> \notin dropped =>
      shown[TrackName(comm[p], p, s)] \in {None, 0}

\* "Make sure we zero out PELT signals for tasks when they exit"
\* (sched-analyzer.c:399).
ZeroedOnExit ==
  \A p \in Pids \ alive, cm \in Comms, s \in Signals :
    ring = <<>> /\ <<p, s>> \notin dropped =>
      shown[TrackName(cm, p, s)] \in {None, 0}
=============================================================================
