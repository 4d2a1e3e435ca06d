----------------------------- MODULE CpuTracks -----------------------------
(***************************************************************************)
(* The per-CPU signals: from the tracepoint hit in the kernel, through the *)
(* BPF program, the record and its ring, to the handler that puts samples  *)
(* on perfetto counter tracks.  The command line decides which programs    *)
(* are loaded and which samples the handlers emit.                         *)
(*                                                                         *)
(* Reserving and submitting a record is one step here, and so is a call of *)
(* a handler; EventRing shows that records of one CPU arrive complete and  *)
(* in order.  A record refused by a full ring is lost.                     *)
(***************************************************************************)
EXTENDS Integers, Sequences

CONSTANTS
  Cpus,
  Vals,        \* values of a signal
  UTIL_AVG_UNCHANGED,  \* 0x80000000 in the code: a bit above all values
  CfsUpdates,  \* what a hit of pelt_cfs_tp brings: load_avg, runnable_avg,
               \* util_avg and the bounds uclamp_min, uclamp_max
  CmdLines,    \* the command lines considered: sets of options
  Kernels,     \* the kernels considered: optional members of their struct rq
  RB_SIZE,     \* capacity of a ring, in records
  MaxHits      \* bound: tracepoint hits

ASSUME CpuAssumption ==
  /\ UTIL_AVG_UNCHANGED \in Nat \ {0}
  /\ Vals \subseteq 0..(UTIL_AVG_UNCHANGED - 1)
  /\ CfsUpdates \subseteq [load : Vals, runnable : Vals, util : Vals, lo : Vals, hi : Vals]
  /\ Kernels \subseteq SUBSET {"uclamp", "avg_rt", "avg_dl", "avg_irq", "avg_thermal"}
  /\ RB_SIZE \in Nat \ {0}
  /\ MaxHits \in Nat

VARIABLES
  opts,     \* the members of sa_opts that are true
  fields,   \* the optional members of struct rq: bpf_core_field_exists()
  rings,    \* rings[r]: the records waiting in ring r
  shown,    \* shown[c][k]: last sample on track k of CPU c
  kernel,   \* kernel[c][s]: value of signal s of CPU c at its last hit
  dropped,  \* <<c, s>>: the record of that hit was refused
  hits      \* number of hits so far

vars == <<opts, fields, rings, shown, kernel, dropped, hits>>

None == -2             \* no sample, no hit, or no claim about the value
Absent == -1           \* the -1 a program stores in a member it does not fill

Rings == {"rq_pelt", "rq_nr_running", "freq_idle"}
Signals == {"load_avg", "runnable_avg", "util_avg", "uclamped_avg", "util_est",
            "util_avg_rt", "util_avg_dl", "util_avg_irq", "load_avg_thermal",
            "nr_running", "idle_state"}
PeltTypes == {"CFS", "RT", "DL", "IRQ", "THERMAL"}

-----------------------------------------------------------------------------
(* The command line.                                                       *)

\* parse_arg(): the members of sa_opts an option sets.
ParseArg(o) ==
  CASE o = "load_avg"     -> {"load_avg_cpu", "load_avg_task", "load_avg_thermal"}
    [] o = "runnable_avg" -> {"runnable_avg_cpu", "runnable_avg_task"}
    [] o = "util_avg"     -> {"util_avg_cpu", "util_avg_task", "util_avg_rt",
                              "util_avg_dl", "util_avg_irq"}
    [] o = "util_est"     -> {"util_est_cpu", "util_est_task"}
    [] OTHER              -> {o}

\* main(): the programs that set_autoload(false) does not exclude.
Loaded(prog) ==
  CASE prog = "pelt_cfs"     -> {"load_avg_cpu", "runnable_avg_cpu", "util_avg_cpu"} \cap opts # {}
    [] prog = "pelt_rt"      -> "util_avg_rt" \in opts
    [] prog = "pelt_dl"      -> "util_avg_dl" \in opts
    [] prog = "pelt_irq"     -> "util_avg_irq" \in opts
    [] prog = "pelt_thermal" -> "load_avg_thermal" \in opts
    [] prog = "util_est_cfs" -> "util_est_cpu" \in opts
    [] prog = "nr_running"   -> "cpu_nr_running" \in opts
    [] prog = "idle"         -> "cpu_idle" \in opts

-----------------------------------------------------------------------------
(* The type of a util_est record is whatever the memory of the ring held.  *)
(* The first lap finds zeroes, which is PELT_TYPE_CFS.  A later lap finds  *)
(* the bytes of a record of the lap before, at the offset by which a ring  *)
(* of RB_BYTES shifts records of REC_BYTES per lap.                        *)

RB_BYTES == 262144             \* RB_SIZE
REC_HDR == 8                   \* libbpf's record header
TYPE_AT == 12                  \* offsetof(struct rq_pelt_event, type)

\* Mutated form: the struct has grown to a size that divides the ring.
REC_BYTES_Pow2 == REC_HDR + 120

REC_BYTES == REC_HDR + 72      \* header and sizeof(struct rq_pelt_event)

ByteUnderType == (REC_HDR + TYPE_AT - RB_BYTES) % REC_BYTES

\* The upper halves of the seven unsigned longs, which start at byte 16: zero
\* for every value a signal has, all ones for -1.
UpperHalves == {REC_HDR + 16 + 8 * i + 4 : i \in 0..6}

StaleTypes ==
  {"CFS"} \cup (IF ByteUnderType \in UpperHalves THEN {"minus1"} ELSE PeltTypes)

-----------------------------------------------------------------------------
Flags == UNION {ParseArg(o) : o \in UNION CmdLines}

Init ==
  /\ \E cmd \in CmdLines : opts = UNION {ParseArg(o) : o \in cmd}
  /\ fields \in Kernels
  /\ rings = [r \in Rings |-> <<>>]
  /\ shown = [c \in Cpus |-> [s \in Signals |-> None]]
  /\ kernel = [c \in Cpus |-> [s \in Signals |-> None]]
  /\ dropped = {}
  /\ hits = 0

-----------------------------------------------------------------------------
(* Mutated forms: plausible slips in this code.                            *)

\* The two bounds of clamp() are passed in the wrong order.
clampSwapped(val, lo, hi) == IF val >= lo THEN lo ELSE IF val <= hi THEN hi ELSE val

\* The handler trusts the autoload choice and does not look at the options.
FairSamplesUnfiltered(e) ==
  {<<x[1], x[2]>> : x \in {y \in {<<"load_avg", e.load>>, <<"runnable_avg", e.runnable>>} :
                          y[2] # Absent}}

-----------------------------------------------------------------------------
(* The BPF programs.  Only the hit of a loaded program is of interest.     *)

Fits(r) == Len(rings[r]) < RB_SIZE

\* A hit on CPU c gives signals new values; the program stores e in ring r,
\* or gets no room.
Hit(c, r, e, news) ==
  /\ hits < MaxHits
  /\ hits' = hits + 1
  /\ kernel' = [kernel EXCEPT ![c] = [s \in Signals |->
                  IF s \in DOMAIN news THEN news[s] ELSE @[s]]]
  /\ IF Fits(r)
     THEN /\ rings' = [rings EXCEPT ![r] = Append(@, e)]
          /\ dropped' = dropped \ ({c} \X DOMAIN news)
     ELSE /\ dropped' = dropped \cup ({c} \X DOMAIN news)
          /\ UNCHANGED rings
  /\ UNCHANGED <<opts, fields, shown>>

\* A hit that is no business of the program: it returns before it reserves.
PassedOver ==
  /\ hits < MaxHits
  /\ hits' = hits + 1
  /\ UNCHANGED <<opts, fields, rings, shown, kernel, dropped>>

PeltRecord(c, type, load, runnable, util, est, lo, hi) ==
  [cpu |-> c, type |-> type, load |-> load, runnable |-> runnable, util |-> util,
   est |-> est, lo |-> lo, hi |-> hi]

\* The value README promises for uclamped util_avg; bounds out of order (the
\* kernel aggregates them separately) promise nothing.
Uclamped(val, lo, hi) ==
  IF lo > hi THEN None
  ELSE CHOOSE x \in {val, lo, hi} :
         lo <= x /\ x <= hi /\ (val \in lo..hi => x = val)
           /\ (val < lo => x = lo) /\ (val > hi => x = hi)

uclampOn == "uclamp" \in fields

\* handle_pelt_cfs(): only the root cfs_rq of a CPU is recorded.
PeltCfs(c, root, u) ==
  /\ Loaded("pelt_cfs")
  /\ IF root
     THEN Hit(c, "rq_pelt",
              PeltRecord(c, "CFS", u.load, u.runnable, u.util, Absent,
                         IF uclampOn THEN u.lo ELSE Absent, IF uclampOn THEN u.hi ELSE Absent),
              [load_avg |-> u.load, runnable_avg |-> u.runnable, util_avg |-> u.util,
               uclamped_avg |-> IF uclampOn THEN Uclamped(u.util, u.lo, u.hi) ELSE None])
     ELSE PassedOver

StoredUtilEst(raw) == raw % UTIL_AVG_UNCHANGED   \* raw & ~UTIL_AVG_UNCHANGED

\* handle_util_est_cfs(): again of the root cfs_rq only; the kernel may have
\* set the flag in the value, and e->type is not assigned.
UtilEstCfs(c, root, val, flag, stale) ==
  /\ Loaded("util_est_cfs")
  /\ IF root
     THEN Hit(c, "rq_pelt",
              PeltRecord(c, stale, Absent, Absent, Absent,
                         StoredUtilEst(IF flag THEN val + UTIL_AVG_UNCHANGED ELSE val),
                         Absent, Absent),
              [util_est |-> val])
     ELSE PassedOver

\* handle_pelt_rt(), handle_pelt_dl(), handle_pelt_irq(): a kernel without
\* the member has nothing to report.
PeltRt(c, val) ==
  /\ Loaded("pelt_rt")
  /\ IF "avg_rt" \in fields
     THEN Hit(c, "rq_pelt",
              PeltRecord(c, "RT", Absent, Absent, val, Absent, Absent, Absent),
              [util_avg_rt |-> val])
     ELSE PassedOver
PeltDl(c, val) ==
  /\ Loaded("pelt_dl")
  /\ IF "avg_dl" \in fields
     THEN Hit(c, "rq_pelt",
              PeltRecord(c, "DL", Absent, Absent, val, Absent, Absent, Absent),
              [util_avg_dl |-> val])
     ELSE PassedOver
PeltIrq(c, val) ==
  /\ Loaded("pelt_irq")
  /\ IF "avg_irq" \in fields
     THEN Hit(c, "rq_pelt",
              PeltRecord(c, "IRQ", Absent, Absent, val, Absent, Absent, Absent),
              [util_avg_irq |-> val])
     ELSE PassedOver

\* handle_pelt_thermal()
PeltThermal(c, val) ==
  /\ Loaded("pelt_thermal")
  /\ IF "avg_thermal" \in fields
     THEN Hit(c, "rq_pelt",
              PeltRecord(c, "THERMAL", val, Absent, Absent, Absent, Absent, Absent),
              [load_avg_thermal |-> val])
     ELSE PassedOver

\* handle_sched_update_nr_running()
NrRunning(c, val) ==
  /\ Loaded("nr_running")
  /\ Hit(c, "rq_nr_running", [cpu |-> c, nr |-> val], [nr_running |-> val])

\* handle_cpu_idle(): state -1 is PWR_EVENT_EXIT, the CPU is not idle.
CpuIdle(c, state) ==
  /\ Loaded("idle")
  /\ Hit(c, "freq_idle", [cpu |-> c, state |-> state, miss |-> 0],
         [idle_state |-> state])

\* handle_cpu_idle_miss(): the kernel reports after the exit that the state
\* it had been in was too deep or too shallow.
CpuIdleMiss(c, state, below) ==
  /\ Loaded("idle")
  /\ kernel[c]["idle_state"] = -1
  /\ Hit(c, "freq_idle",
         [cpu |-> c, state |-> state, miss |-> IF below THEN -1 ELSE 1],
         [idle_state |-> -1])

-----------------------------------------------------------------------------
(* The handlers of the daemon.                                             *)

clamp(val, lo, hi) == IF val >= hi THEN hi ELSE IF val <= lo THEN lo ELSE val

\* The name in trace_cpu_util_avg_rt(), _dl() and _irq().
TrackOfType(type) ==
  CASE type = "RT" -> "util_avg_rt" [] type = "DL" -> "util_avg_rt"
    [] type = "IRQ" -> "util_avg_rt"

FlagOfType(type) ==
  CASE type = "RT" -> "util_avg_rt" [] type = "DL" -> "util_avg_dl"
    [] type = "IRQ" -> "util_avg_irq"

If(b, track, val) == IF b THEN {<<track, val>>} ELSE {}

FairSamples(e) ==
  If("load_avg_cpu" \in opts /\ e.load # Absent, "load_avg", e.load)
    \cup If("runnable_avg_cpu" \in opts /\ e.runnable # Absent, "runnable_avg", e.runnable)

UtilSamples(e) ==
  CASE e.type = "CFS" ->
         If("util_avg_cpu" \in opts, "util_avg", e.util)
         \cup If("util_avg_cpu" \in opts /\ e.lo # Absent /\ e.hi # Absent,
                 "uclamped_avg", clamp(e.util, e.lo, e.hi))
    [] e.type \in {"RT", "DL", "IRQ"} ->
         If(FlagOfType(e.type) \in opts, TrackOfType(e.type), e.util)
    [] OTHER -> {}

\* handle_rq_pelt_event(): the samples for one record.
RqPeltSamples(e) ==
  FairSamples(e)
    \cup If(e.type = "THERMAL" /\ "load_avg_thermal" \in opts, "load_avg_thermal", e.load)
    \cup (IF e.util # Absent THEN UtilSamples(e) ELSE {})
    \cup If("util_est_cpu" \in opts /\ e.est # Absent, "util_est", e.est)

\* handle_rq_nr_running_event(), handle_freq_idle_event(); the instant event
\* of an idle miss is not a counter.
NrRunningSamples(e) == IF "cpu_nr_running" \in opts THEN {<<"nr_running", e.nr>>} ELSE {}
FreqIdleSamples(e) == IF "cpu_idle" \in opts THEN {<<"idle_state", e.state>>} ELSE {}

Samples(r, e) ==
  CASE r = "rq_pelt" -> RqPeltSamples(e)
    [] r = "rq_nr_running" -> NrRunningSamples(e)
    [] r = "freq_idle" -> FreqIdleSamples(e)

\* The thread of ring r hands its oldest record to the handler.
Handle(r) ==
  /\ rings[r] # <<>>
  /\ rings' = [rings EXCEPT ![r] = Tail(@)]
  /\ LET e == Head(rings[r])
         new == Samples(r, e)
     IN  shown' = [shown EXCEPT ![e.cpu] = [s \in Signals |->
           IF \E x \in new : x[1] = s THEN (CHOOSE x \in new : x[1] = s)[2] ELSE @[s]]]
  /\ UNCHANGED <<opts, fields, kernel, dropped, hits>>

Next ==
  \/ \E c \in Cpus, root \in BOOLEAN, u \in CfsUpdates : PeltCfs(c, root, u)
  \/ \E c \in Cpus, v \in Vals :
       \/ \E root, flag \in BOOLEAN, stale \in StaleTypes : UtilEstCfs(c, root, v, flag, stale)
       \/ PeltRt(c, v)
       \/ PeltDl(c, v)
       \/ PeltIrq(c, v)
       \/ PeltThermal(c, v)
       \/ NrRunning(c, v)
       \/ CpuIdle(c, v)
       \/ \E below \in BOOLEAN : CpuIdleMiss(c, v, below)
  \/ \E c \in Cpus : CpuIdle(c, -1)
  \/ \E r \in Rings : Handle(r)

Spec == Init /\ [][Next]_vars

-----------------------------------------------------------------------------
(* Properties.                                                             *)

RingOf(s) ==
  CASE s = "nr_running" -> "rq_nr_running" [] s = "idle_state" -> "freq_idle"
    [] OTHER -> "rq_pelt"

FlagOf(s) ==
  CASE s = "load_avg"     -> {"load_avg_cpu"}
    [] s = "runnable_avg" -> {"runnable_avg_cpu"}
    [] s \in {"util_avg", "uclamped_avg"} -> {"util_avg_cpu"}
    [] s = "util_est"     -> {"util_est_cpu"}
    [] s = "nr_running"   -> {"cpu_nr_running"}
    [] s = "idle_state"   -> {"cpu_idle"}
    [] OTHER              -> {s}

\* The track of the signal shows the value of the last hit, once the ring is
\* drained and unless that hit was refused.
Current(c, s) ==
  FlagOf(s) \subseteq opts /\ rings[RingOf(s)] = <<>> /\ <<c, s>> \notin dropped
    /\ kernel[c][s] # None => shown[c][s] = kernel[c][s]

\* Every signal the user asked for has its latest value on the track of its
\* own name, whatever other signals share its program, its record or its
\* ring.  Left out are the pairs that the code mixes up: load_avg when
\* thermal pressure is collected too, the rt track when dl or irq are, and
\* idle_state after a miss.
TracksCurrent ==
  \A c \in Cpus :
    /\ \A s \in {"runnable_avg", "util_avg", "uclamped_avg", "util_est",
                 "load_avg_thermal", "nr_running"} : Current(c, s)
    /\ "load_avg_thermal" \notin opts => Current(c, "load_avg")
    /\ {"util_avg_dl", "util_avg_irq"} \cap opts = {} => Current(c, "util_avg_rt")

\* The -1 that stands for a member the program did not fill never becomes a
\* sample - although e->type of a util_est record is left uninitialised and
\* a stale THERMAL there would put its load_avg of -1 on the thermal track.
NoAbsentShown ==
  \A c \in Cpus, s \in Signals \ {"idle_state"} : shown[c][s] # Absent

\* A track only gets samples when an option that feeds it was given, even
\* though one program serves several options.
OnlyRequested ==
  \A c \in Cpus, s \in Signals :
    shown[c][s] # None =>
      \/ FlagOf(s) \subseteq opts
      \/ s = "util_avg_rt" /\ {"util_avg_dl", "util_avg_irq"} \cap opts # {}

\* "Collect info about cpu idle states for each CPU" (parse_argp.c:137): the
\* idle_state track shows the idle state the CPU is in.
IdleStateCurrent == \A c \in Cpus : Current(c, "idle_state")
=============================================================================
