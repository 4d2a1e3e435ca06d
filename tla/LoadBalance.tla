----------------------------- MODULE LoadBalance -----------------------------
(***************************************************************************)
(* Load balance tracing: kprobe and kretprobe programs on the six balance  *)
(* functions of the scheduler, lb_map that remembers for whom a function   *)
(* was called, lb_rb, and the handler that opens and closes slices on the  *)
(* track of each CPU and feeds the counters of the root domain, of misfit  *)
(* tasks and of the balance intervals.                                     *)
(*                                                                         *)
(* The programs are attached one by one while the kernel is running, the   *)
(* session starts later still, and a full ring refuses records: slices of  *)
(* perfetto carry no identity, an END closes whatever slice is innermost.  *)
(* A program reads the clock, reserves, reads the root domain and the      *)
(* runqueue, and submits, while programs of other CPUs do the same: the    *)
(* readings of a counter may be traced in another order than they are made.*)
(***************************************************************************)
EXTENDS Integers, Sequences

CONSTANTS
  Cpus,
  Readings,      \* what an entry program reads: overload, overutilized of the
                 \* root domain, misfit_task_load, the sched_domain chain, busy
  MAX_SD_LEVELS, \* entries of level[] and balance_interval[]
  BUSY_FACTOR,   \* sd->busy_factor
  RB_SIZE,       \* capacity of lb_rb, in records
  Called,        \* bound: the balance functions that are called
  MaxCalls       \* bound: calls of balance functions

None == -2
Absent == -1

ASSUME LbAssumption ==
  /\ None \notin Cpus
  /\ MAX_SD_LEVELS \in Nat \ {0}
  /\ BUSY_FACTOR \in Nat \ {0}
  /\ RB_SIZE \in Nat \ {0}
  /\ MaxCalls \in Nat
  /\ Readings \subseteq [over : Nat, util : Nat, misfit : Nat, busy : BOOLEAN,
                          chain : Seq([level : Nat, interval : Nat])]
  /\ \A r \in Readings : \A i, j \in DOMAIN r.chain :  \* a parent has a higher level
       i < j => r.chain[i].level < r.chain[j].level

VARIABLES
  attached,  \* how many of the programs are attached
  tracing,   \* has the perfetto session started?
  calls,     \* calls[c]: the balance functions running on CPU c, outermost first
  lb_map,    \* lb_map[<<f, c>>]: for which CPU c runs f
  prog,      \* prog[c]: the program running on CPU c
  ring,      \* the records in lb_rb
  open,      \* open[c]: the slices open on the track of CPU c, outermost first
  shown,     \* the counters of the trace: value and time of the latest sample
  kernel,    \* kernel[x]: the readings of counter x that none superseded
  unseen,    \* the calls whose BEGIN was handled before the session started
  lost,      \* CPUs of which a full ring refused a record
  unpaired,  \* CPUs where a call was seen to begin that had no return probe
  ncalls     \* number of calls so far

traceVars == <<open, shown, unseen>>
vars == <<attached, tracing, calls, lb_map, prog, ring, traceVars, kernel, lost, unpaired, ncalls>>

Idle == [stage |-> "idle"]

\* The programs in the order in which they are attached: the entry program of
\* the i-th function is number 2i - 1, its exit program number 2i.
Phases == <<"run_rebalance_domains", "rebalance_domains", "balance_fair",
            "pick_next_task_fair", "newidle_balance", "load_balance">>
PhaseSet == {Phases[i] : i \in DOMAIN Phases}
NumProgs == 2 * Len(Phases)
Index(f) == CHOOSE i \in DOMAIN Phases : Phases[i] = f
EntryOn(f) == attached >= 2 * Index(f) - 1
ExitOn(f) == attached >= 2 * Index(f)

\* A counter track: its name, the CPU and the level in it (0 where none is).
RdTrack(name) == <<name, 0, 0>>
Misfit(c) == <<"misfit_task_load", c, 0>>
Interval(c, level) == <<"balance_interval", c, level>>
Counters ==
  {RdTrack("overloaded"), RdTrack("overutilized")} \cup {Misfit(c) : c \in Cpus}
    \cup {Interval(c, l) : c \in Cpus, l \in 0..MAX_SD_LEVELS}

Init ==
  /\ attached = 0
  /\ tracing = FALSE
  /\ calls = [c \in Cpus |-> <<>>]
  /\ lb_map = [x \in PhaseSet \X Cpus |-> None]
  /\ prog = [c \in Cpus |-> Idle]
  /\ ring = <<>>
  /\ open = [c \in Cpus |-> <<>>]
  /\ shown = [x \in Counters |-> [ts |-> 0, val |-> None]]
  /\ kernel = [x \in Counters |-> {}]
  /\ unseen = {}
  /\ lost = {}
  /\ unpaired = {}
  /\ ncalls = 0

-----------------------------------------------------------------------------
(* struct lb_sd_stats as words 0 .. 2 * MAX_SD_LEVELS: level[], then       *)
(* balance_interval[], then the padding at the end of struct lb_event.     *)

LevelAt(i) == i
IntervalAt(i) == MAX_SD_LEVELS + i
Garbage == 1         \* what the memory of the ring held before

\* gen_sched_domain_stats(): the entry after the last one gets level -1 and
\* interval 0.  With MAX_SD_LEVELS domains or more that entry is one past the
\* arrays: its level lies over balance_interval[0], its interval in the padding.
gen_sched_domain_stats(chain, busy) ==
  LET n == IF Len(chain) < MAX_SD_LEVELS THEN Len(chain) ELSE MAX_SD_LEVELS
      Word(i) ==
        CASE i = LevelAt(n) -> Absent
          [] i = IntervalAt(n) -> 0
          [] i < n -> chain[i + 1].level
          [] i \in IntervalAt(0)..(IntervalAt(n) - 1) /\ i # LevelAt(n) ->
               chain[i - IntervalAt(0) + 1].interval * (IF busy THEN BUSY_FACTOR ELSE 1)
          [] OTHER -> Garbage
  IN  [i \in 0..(2 * MAX_SD_LEVELS) |-> Word(i)]

\* trace_lb_sd_stats(): one sample per entry, up to the terminating one.
trace_lb_sd_stats(c, m) ==
  LET Ends(i) == m[LevelAt(i)] = Absent /\ m[IntervalAt(i)] = 0
  IN  {<<Interval(c, m[LevelAt(i)]), m[IntervalAt(i)]>> :
         i \in {j \in 0..(MAX_SD_LEVELS - 1) : \A k \in 0..j : ~Ends(k)}}

-----------------------------------------------------------------------------
(* Mutated forms: plausible slips in this code.                            *)

\* The key of lb_map is the phase alone.
KeyPhaseOnly(f, c) == <<f, CHOOSE x \in Cpus : TRUE>>

\* An exit record says 0 where it has nothing to say.
ExitRecordZeroes(h, lb) ==
  [h EXCEPT !.done = TRUE, !.lb_cpu = lb, !.overloaded = 0, !.overutilized = 0, !.misfit = 0]

\* bpf_map_delete_elem() is forgotten.
ForgetKeep(m, k) == m

-----------------------------------------------------------------------------
(* The kernel: which balance function calls which.  Interrupts are off in  *)
(* the scheduler's own calls and soft interrupts do not nest, so the calls *)
(* of one CPU are properly nested and no function occurs in them twice.    *)

MayCall(c, f, lb) ==
  LET top == calls[c][Len(calls[c])]
  IN  IF calls[c] = <<>>
      THEN f \in {"run_rebalance_domains", "balance_fair", "pick_next_task_fair"} /\ lb = c
      ELSE CASE f = "rebalance_domains" -> top.f = "run_rebalance_domains"  \* lb: an idle CPU
             [] f = "newidle_balance" -> top.f \in {"balance_fair", "pick_next_task_fair"} /\ lb = c
             [] f = "load_balance" -> top.f \in {"rebalance_domains", "newidle_balance"} /\ lb = top.lb
             [] OTHER -> FALSE

-----------------------------------------------------------------------------
(* The BPF programs.                                                       *)

HasRoom == Len(ring) < RB_SIZE

Key(f, c) == <<f, c>>                          \* phase << 16 | this_cpu
Forget(m, k) == [m EXCEPT ![k] = None]         \* bpf_map_delete_elem()

If(b, track, val) == IF b THEN {<<track, val>>} ELSE {}

\* handle_lb_event(): the counter samples of a record.
CounterSamples(e) ==
  (IF e.phase = "rebalance_domains" /\ e.entry THEN trace_lb_sd_stats(e.lb_cpu, e.sd) ELSE {})
    \cup If(e.overloaded # Absent, RdTrack("overloaded"), e.overloaded)
    \cup If(e.overutilized # Absent, RdTrack("overutilized"), e.overutilized)
    \cup If(e.misfit # Absent, Misfit(e.lb_cpu), e.misfit)

Touches(e, x) == \E s \in CounterSamples(e) : s[1] = x

\* The record of a program before it is filled; id is the number of the call,
\* in the order in which the entry programs read the clock.
Header(c, f, lb, entry, id) ==
  [this_cpu |-> c, lb_cpu |-> lb, phase |-> f, entry |-> entry, id |-> id, done |-> FALSE,
   overloaded |-> Absent, overutilized |-> Absent, misfit |-> Absent, sd |-> <<>>]

\* The entry programs.  run_rebalance_domains() has no struct rq to read from.
EntryRecord(h, r) ==
  LET reads == h.phase # "run_rebalance_domains"
  IN  [h EXCEPT !.done = TRUE,
         !.overloaded = IF reads THEN r.over ELSE Absent,
         !.overutilized = IF reads THEN r.util ELSE Absent,
         !.misfit = IF reads THEN r.misfit ELSE Absent,
         !.sd = IF h.phase = "rebalance_domains" THEN gen_sched_domain_stats(r.chain, r.busy)
                ELSE <<>>]

\* The exit programs read *lb_cpu after they deleted the element, so that it
\* may be any CPU; run_rebalance_domains() has none.
ExitRecord(h, stale) ==
  [h EXCEPT !.done = TRUE,
            !.lb_cpu = IF h.phase = "run_rebalance_domains" THEN h.lb_cpu ELSE stale]

\* What the counters should say after the reading of an entry program.
Truth(f, lb, r) ==
  IF f = "run_rebalance_domains" THEN {}
  ELSE {<<RdTrack("overloaded"), r.over>>, <<RdTrack("overutilized"), r.util>>,
        <<Misfit(lb), r.misfit>>}
       \cup (IF f # "rebalance_domains" THEN {}
             ELSE {<<Interval(lb, r.chain[i].level),
                     IF Len(r.chain) >= MAX_SD_LEVELS /\ i = 1 THEN None
                     ELSE r.chain[i].interval * (IF r.busy THEN BUSY_FACTOR ELSE 1)>> :
                     i \in {j \in DOMAIN r.chain : j <= MAX_SD_LEVELS}})

Running == {d \in Cpus : prog[d] # Idle /\ prog[d].e.entry}

\* A program starts on c: it has read the clock and seen to lb_map.
Begin(c, h) ==
  prog' = [prog EXCEPT ![c] = [stage |-> "begun", e |-> h,
                               with |-> {prog[d].e.id : d \in Running}]]

\* The kernel calls f for CPU lb on CPU c.  A return probe only fires for a
\* call that began after it was attached.
Enter(c, f, lb) ==
  /\ prog[c] = Idle
  /\ f \in Called
  /\ MayCall(c, f, lb)
  /\ ncalls < MaxCalls
  /\ ncalls' = ncalls + 1
  /\ calls' = [calls EXCEPT ![c] = Append(@,
                 [f |-> f, lb |-> lb, id |-> ncalls', begun |-> EntryOn(f), hooked |-> ExitOn(f)])]
  /\ IF EntryOn(f)
     THEN /\ lb_map' = IF f = "run_rebalance_domains" THEN lb_map
                       ELSE [lb_map EXCEPT ![Key(f, c)] = lb]
          /\ Begin(c, Header(c, f, lb, TRUE, ncalls'))
     ELSE UNCHANGED <<lb_map, prog>>
  /\ UNCHANGED <<attached, tracing, ring, traceVars, kernel, lost, unpaired>>

\* The innermost function on c returns.
Return(c) ==
  /\ prog[c] = Idle
  /\ calls[c] # <<>>
  /\ LET fr == calls[c][Len(calls[c])]
         k == Key(fr.f, c)
         end == Begin(c, Header(c, fr.f, c, FALSE, fr.id))
     IN  /\ unpaired' = IF fr.begun /\ ~fr.hooked THEN unpaired \cup {c} ELSE unpaired
         /\ CASE ~fr.hooked -> UNCHANGED <<lb_map, prog>>
              [] fr.hooked /\ fr.f = "run_rebalance_domains" -> end /\ UNCHANGED lb_map
              [] fr.hooked /\ fr.f # "run_rebalance_domains" /\ lb_map[k] = None ->
                   UNCHANGED <<lb_map, prog>>
              [] OTHER -> lb_map' = Forget(lb_map, k) /\ end
  /\ calls' = [calls EXCEPT ![c] = SubSeq(@, 1, Len(@) - 1)]
  /\ UNCHANGED <<attached, tracing, ring, traceVars, kernel, lost, ncalls>>

\* bpf_ringbuf_reserve(): a busy record, or the end of the program.
Reserve(c) ==
  /\ prog[c] # Idle
  /\ prog[c].stage = "begun"
  /\ IF HasRoom
     THEN /\ ring' = Append(ring, prog[c].e)
          /\ prog' = [prog EXCEPT ![c].stage = "reserved"]
          /\ UNCHANGED lost
     ELSE /\ lost' = lost \cup {c}
          /\ prog' = [prog EXCEPT ![c] = Idle]
          /\ UNCHANGED ring
  /\ UNCHANGED <<attached, tracing, calls, lb_map, traceVars, kernel, unpaired, ncalls>>

\* The program of record h read the truth: of each counter it supersedes the
\* readings of all programs that had ended when it started.
Supersede(h, with, truth) ==
  kernel' = [x \in Counters |->
    LET new == {t \in truth : t[1] = x}
    IN  IF new = {} THEN kernel[x]
        ELSE {[ts |-> h.id, val |-> t[2]] : t \in new}
               \cup {q \in kernel[x] : q.ts > h.id \/ q.ts \in with}]

\* The program reads the root domain, misfit_task_load and the sched_domains,
\* or *lb_cpu, and bpf_ringbuf_submit() releases its record.
Submit(c, r, stale) ==
  /\ prog[c] # Idle
  /\ prog[c].stage = "reserved"
  /\ LET h == prog[c].e
         e == IF h.entry THEN EntryRecord(h, r) ELSE ExitRecord(h, stale)
     IN  /\ ring' = [i \in 1..Len(ring) |->
                       IF ~ring[i].done /\ ring[i].this_cpu = c THEN e ELSE ring[i]]
         /\ Supersede(h, prog[c].with, IF h.entry THEN Truth(h.phase, h.lb_cpu, r) ELSE {})
  /\ prog' = [prog EXCEPT ![c] = Idle]
  /\ UNCHANGED <<attached, tracing, calls, lb_map, traceVars, lost, unpaired, ncalls>>

-----------------------------------------------------------------------------
(* The daemon.                                                             *)

\* sched_analyzer_bpf__attach(): one program after the other.
Attach ==
  /\ attached < NumProgs
  /\ attached' = attached + 1
  /\ UNCHANGED <<tracing, calls, lb_map, prog, ring, traceVars, kernel, lost, unpaired, ncalls>>

\* start_perfetto_trace()
StartTrace ==
  /\ attached = NumProgs
  /\ ~tracing
  /\ tracing' = TRUE
  /\ UNCHANGED <<attached, calls, lb_map, prog, ring, traceVars, kernel, lost, unpaired, ncalls>>

\* trace_lb_entry() opens a slice, trace_lb_exit() closes the innermost one.
Slices(s, e) ==
  IF e.entry THEN Append(s, [f |-> e.phase, cpu |-> e.lb_cpu])
  ELSE IF s = <<>> THEN s ELSE SubSeq(s, 1, Len(s) - 1)

Value(e, x) == (CHOOSE s \in CounterSamples(e) : s[1] = x)[2]

\* The thread of lb_rb handles the oldest record, unless it is busy; without a
\* session nothing is traced.  The threads are created once everything is
\* attached.  Samples carry the time of their record, which orders a track.
Handle ==
  /\ attached = NumProgs
  /\ ring # <<>>
  /\ Head(ring).done
  /\ ring' = Tail(ring)
  /\ LET e == Head(ring)
     IN  IF tracing
         THEN /\ open' = [open EXCEPT ![e.this_cpu] = Slices(@, e)]
              /\ shown' = [x \in Counters |->
                   IF Touches(e, x) /\ e.id >= shown[x].ts
                   THEN [ts |-> e.id, val |-> Value(e, x)] ELSE shown[x]]
              /\ UNCHANGED unseen
         ELSE /\ unseen' = IF e.entry THEN unseen \cup {e.id} ELSE unseen
              /\ UNCHANGED <<open, shown>>
  /\ UNCHANGED <<attached, tracing, calls, lb_map, prog, kernel, lost, unpaired, ncalls>>

Next ==
  \/ Attach
  \/ StartTrace
  \/ \E c, lb \in Cpus, f \in PhaseSet : Enter(c, f, lb)
  \/ \E c \in Cpus : Return(c) \/ Reserve(c)
  \/ \E c, stale \in Cpus, r \in Readings : Submit(c, r, stale)
  \/ Handle

Spec == Init /\ [][Next]_vars

-----------------------------------------------------------------------------
(* Properties.                                                             *)

\* "Track load balance entry/exit" (README.md:35): once the ring is drained
\* and no program runs on a CPU, the slices open on its track are the balance
\* functions running there, each named after its function and carrying the
\* CPU it balances for - calls that were seen only before the session started
\* excepted, and as long as no record of that CPU was lost and no call fell
\* between the attachment of an entry program and that of its exit program.
SlicesNest ==
  \A c \in Cpus \ (lost \cup unpaired) :
    tracing /\ ring = <<>> /\ prog[c] = Idle =>
      LET seen == {i \in DOMAIN calls[c] : calls[c][i].begun /\ calls[c][i].id \notin unseen}
      IN  \E at \in [1..Len(open[c]) -> seen] :  \* of which call is a slice?
            /\ \A i, j \in 1..Len(open[c]) : i < j => at[i] < at[j]
            /\ \A k \in seen : \E i \in 1..Len(open[c]) : at[i] = k
            /\ \A i \in 1..Len(open[c]) :
                 open[c][i] = [f |-> calls[c][at[i]].f, cpu |-> calls[c][at[i]].lb]

\* lb_map holds the CPU of exactly the calls in progress that an entry program
\* saw, whatever happens to the records, so that an exit program always finds
\* its call and the map does not fill up.
LbMapExact ==
  \A c \in Cpus \ unpaired, f \in PhaseSet \ {"run_rebalance_domains"} :
    LET mine == {i \in DOMAIN calls[c] : calls[c][i].f = f /\ calls[c][i].begun}
    IN  /\ mine = {} => lb_map[<<f, c>>] = None
        /\ \A i \in mine : lb_map[<<f, c>>] = calls[c][i].lb

\* Once the ring is drained the counters of the root domain and of misfit
\* tasks, and the balance_interval of every level of a CPU's sched_domain
\* chain, show a reading that is not out of date: no program that started
\* after the end of the one that made it read the counter again.  So a counter
\* that CPUs read by turns is current, and one that they read at once shows
\* one of these readings - on the track of the CPU it is about, although an
\* exit record carries a CPU read from freed memory, programs of other CPUs
\* reserve, read and submit in any order, and a chain may be longer than its
\* record.  The interval of the first level of a chain with MAX_SD_LEVELS
\* domains or more is excepted, because the terminating entry overwrites it,
\* and so is a counter whose last readings were handled before the session.
CountersCurrent ==
  tracing /\ ring = <<>> =>
    \A x \in Counters :
      \/ \A q \in kernel[x] : q.ts \in unseen
      \/ \E q \in kernel[x] : shown[x].ts = q.ts /\ q.val \in {None, shown[x].val}
=============================================================================
