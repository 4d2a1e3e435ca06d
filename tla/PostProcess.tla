---------------------------- MODULE PostProcess ----------------------------
(***************************************************************************)
(* sched-analyzer-pp: main() goes through its groups of options - freq,    *)
(* idle, one group per signal of the daemon, sched - each with the choice  *)
(* between terminal, png and csv.  An exception ends main() and is         *)
(* swallowed: what came before is shown, the rest is not.                  *)
(*                                                                         *)
(* Signals are found by the names the daemon gave its tracks; a name is    *)
(* the owner (a CPU or comm-pid), a blank and the signal, cut at NAME_MAX. *)
(* A task is plain when its comm has no blank and means itself as a        *)
(* regular expression.  Its states are those thread_state has under the    *)
(* comm and pid of the track: none (it was renamed, or a trace of --app    *)
(* only), ran (it ran at a time shown), or never: it did not, or its       *)
(* process has no name, without which convert_ts() drops the states.       *)
(* The patterns given with an option match everything.                     *)
(*                                                                         *)
(* Frequencies are plotted once per policy: freq.py takes CPUs that went   *)
(* through the same values for one, and looks at as many CPU numbers as    *)
(* there are CPUs with data.                                               *)
(***************************************************************************)
EXTENDS Integers, Sequences, FiniteSets

CONSTANTS
  Owners,    \* records with id, task, plain, states and len (of "CPUn" or "comm-pid")
  Signals,   \* the signals asked for
  MaxCpu,    \* largest CPU number
  Histories  \* values a frequency can have gone through

NoData == <<>>

States == {"none", "never", "ran"}

\* A name is "CPU%d" of an int or a comm and a pid.
ASSUME PostProcessAssumption ==
  /\ MaxCpu \in Nat /\ NoData \notin Histories
  /\ \A o \in Owners : /\ o.task \in BOOLEAN /\ o.plain \in BOOLEAN /\ o.len \in Nat
                       /\ o.states \in States
                       /\ ~o.task => o.len \in 4..13

FreqCpus == 0..MaxCpu

NAME_MAX == 31

\* The signals the daemon writes, with the length of their names.
CpuSignals ==
  [load_avg |-> 8, runnable_avg |-> 12, util_avg |-> 8, uclamped_avg |-> 12,
   util_est_enqueued |-> 17, util_avg_rt |-> 11, load_avg_thermal |-> 16, nr_running |-> 10]
TaskSignals ==
  [load_avg |-> 8, runnable_avg |-> 12, util_avg |-> 8, uclamped_avg |-> 12,
   util_est_enqueued |-> 17, util_est_ewma |-> 13]

\* A track: shown is how much of the signal's name is left.
TrackOf(o, s, len) ==
  [owner |-> o, sig |-> s, len |-> len,
   shown |-> IF o.len + 1 + len > NAME_MAX THEN NAME_MAX - o.len - 1 ELSE len]
Tracks ==
  {TrackOf(o, s, TaskSignals[s]) : o \in {p \in Owners : p.task}, s \in DOMAIN TaskSignals}
    \cup {TrackOf(o, s, CpuSignals[s]) : o \in {p \in Owners : ~p.task}, s \in DOMAIN CpuSignals}

\* The groups of process_sa_track_option() calls, in order; the five signals
\* of tasks have a second one for values while the task runs.
SignalGroups ==
  <<"util_avg", "util_avg_rt", "util_avg_dl", "util_avg_irq", "util_est", "load_avg_thermal",
    "load_avg", "runnable_avg", "uclamped_avg", "cpu_nr_running">>
ASSUME SignalsAssumption == Signals \subseteq {SignalGroups[k] : k \in 1..Len(SignalGroups)}
RunningOptions == {"util_avg", "util_est", "load_avg", "runnable_avg", "uclamped_avg"}

Kinds == {"plain", "hist", "residency", "residency_abs"}
FreqKinds == {"freq", "residency", "residency_abs", "task", "residency_task", "residency_abs_task"}
Request(group, running, kind) == [group |-> group, running |-> running, kind |-> kind]
SignalRequests ==
  {Request(s, r, kind) : s \in Signals, r \in BOOLEAN, kind \in Kinds}
Requests ==
  {Request("freq", FALSE, kind) : kind \in FreqKinds}
    \cup {Request("idle", FALSE, kind) : kind \in {"residency", "residency_abs"}}
    \cup {r \in SignalRequests : r.running => r.group \in RunningOptions}
    \cup {Request("sched", FALSE, kind) : kind \in {"report", "states", "states_parent"}}

VARIABLES
  args,    \* the options, save_csv and save_png
  freq,    \* freq[c]: the frequencies of CPU c, NoData when the trace has none
  idle,    \* CPUs that have an idle state at a time shown
  group,   \* the group main() does next: 0 freq, 1 idle, then the signals, sched
  raised,  \* has an exception ended main() (except: pass)?
  out      \* what was put out: records with req, medium and, for signals, plot

vars == <<args, freq, idle, group, raised, out>>

SCHED == 2 + Len(SignalGroups)
DONE == SCHED + 1

Init ==
  /\ args \in [given : {{a, b} : a, b \in Requests},   \* bound: one or two options
               save_csv : BOOLEAN, save_png : BOOLEAN]
  /\ freq \in [FreqCpus -> Histories \cup {NoData}]
  /\ (\A r \in args.given : r.group # "freq") => freq = [c \in FreqCpus |-> NoData]
  /\ idle \in SUBSET FreqCpus
  /\ (\A r \in args.given : r.group # "idle") => idle = {}
  /\ group = 0
  /\ raised = FALSE
  /\ out = {}

-----------------------------------------------------------------------------
(* Mutated forms: plausible slips in this code.                            *)

\* A group is entered for one of its options only.
EntersPlain(g, running) ==
  \E r \in args.given : r.group = g /\ r.running = running /\ r.kind = "plain"

\* The terminal plot of freq counts clusters before it looks for data.
FreqRaisesAlways(asked) == (\A c \in FreqCpus : freq[c] = NoData) /\ asked # {}

\* Every CPU is compared with CPU 0.
clustersOfFirst == {0} \cup {c \in FreqCpus : freq[c] # NoData /\ freq[c] # freq[0]}

-----------------------------------------------------------------------------
Asked(g, running) == {r \in args.given : r.group = g /\ r.running = running}

Output(r, medium, t) == [req |-> r, medium |-> medium, plot |-> t]
CpuPlot(c) == [owner |-> [id |-> c, task |-> FALSE, plain |-> TRUE, states |-> "none", len |-> 0],
               filtered |-> FALSE]
NoPlot == CpuPlot(0)
CsvOf(g) == Output(Request(g, FALSE, "csv"), "csv", NoPlot)

\* show_tui: --save-csv turns the terminal off for the group, and so does
\* --save-png with its first option.
ShowTui == ~args.save_csv /\ ~args.save_png

\* Three of the freq options and both of idle can be saved as png, the others
\* say "Not implemented yet".
HasPng(r) == r.group \in {"freq", "idle"} /\ r.kind \in {"freq", "residency", "residency_abs"}

\* Where the plots of some options, pairs of option and plot, end up.
Medium(plots) ==
  IF ShowTui THEN {Output(x[1], "tui", x[2]) : x \in plots}
  ELSE IF args.save_png THEN {Output(x[1], "png", x[2]) : x \in {y \in plots : HasPng(y[1])}}
  ELSE {}

Csv(g) == IF args.save_csv THEN {CsvOf(g)} ELSE {}

\* __find_clusters(): Policy[c] is the CPU whose frequencies the loop compares
\* with after it has looked at CPU c.
WithData == {c \in FreqCpus : freq[c] # NoData}
nr_cpus == Cardinality(WithData)
Policy[c \in FreqCpus] ==
  IF c = 0 THEN 0 ELSE IF freq[c] = freq[Policy[c - 1]] THEN Policy[c - 1] ELSE c
clusters == {0} \cup {Policy[c] : c \in 0..(nr_cpus - 1)}

\* plot_*_matplotlib() of freq takes the number of clusters, which do not
\* exist without data.
FreqRaises(asked) == WithData = {} /\ args.save_png /\ \E r \in asked : HasPng(r)

\* One plot per cluster that has data, or, for a task, of the CPUs it ran on.
FreqPlots(asked) ==
  {<<r, CpuPlot(c)>> : r \in {q \in asked : HasPng(q)}, c \in clusters \cap WithData}
    \cup {<<r, NoPlot>> : r \in {q \in asked : ~HasPng(q) /\ WithData # {}}}
One(asked) == asked \X {NoPlot}

DoFreq ==
  /\ ~raised
  /\ group = 0
  /\ LET asked == Asked("freq", FALSE) IN
       IF asked = {} THEN UNCHANGED <<out, raised>>
       ELSE /\ raised' = FreqRaises(asked)
            /\ out' = out \cup Csv("freq") \cup Medium(FreqPlots(asked))
  /\ group' = 1
  /\ UNCHANGED <<args, freq, idle>>

\* plot_residency_tui() of idle goes through as many CPU numbers as there are
\* CPUs with data.  For a number without data gen_df_duration_filtered() gives
\* an empty frame back, and the plot of numbers and a frame raises.
Gap == idle # 0..(Cardinality(idle) - 1)
IdleRaises(asked) == ShowTui /\ Gap /\ asked # {}
IdlePlots(asked) == IF idle = {} THEN {} ELSE One(asked)

DoIdle ==
  /\ ~raised
  /\ group = 1
  /\ LET asked == Asked("idle", FALSE) IN
       /\ raised' = IdleRaises(asked)
       /\ out' = IF asked = {} \/ IdleRaises(asked) THEN out
                 ELSE out \cup Csv("idle") \cup Medium(IdlePlots(asked))
  /\ group' = 2
  /\ UNCHANGED <<args, freq, idle>>

\* sa_track.init(): the counters whose name is like '% <signal>', for
\* util_est '% util_est.enq%' (twelve characters).
Matches(t, s) ==
  IF s = "util_est" THEN t.sig = "util_est_enqueued" /\ t.shown >= 12
  ELSE t.sig = s /\ t.shown = t.len
Found(s) == {t \in Tracks : Matches(t, s)}

\* __multiply_df_tid_running(): the name of the track is taken apart to find
\* the states of the task; where that fails, for CPUs and for names that are
\* not plain, and where there are none, the values stay as they are.  What is
\* left without a value is not plotted.
Filtered(t) == t.owner.task /\ t.owner.plain /\ t.owner.states # "none"
Plot(r, t) == [owner |-> t.owner, filtered |-> r.running /\ Filtered(t)]
Left(g, running) == {t \in Found(g) : running => ~(Filtered(t) /\ t.owner.states = "never")}

\* A group of a signal is entered for three of its four options.
Enters(g, running) == \E r \in Asked(g, running) : r.kind # "residency_abs"

\* "prefix" is a name of main(): NameError.
SaveRaises(asked) ==
  args.save_csv \/ (args.save_png /\ \E r \in asked : r.kind \in {"plain", "hist"})

Shown(g, running) ==
  IF Enters(g, running) /\ ~SaveRaises(Asked(g, running))
  THEN Medium({<<r, Plot(r, t)>> : r \in Asked(g, running), t \in Left(g, running)})
  ELSE {}

Fails(g, running) == Enters(g, running) /\ SaveRaises(Asked(g, running))

\* process_sa_track_option(), which calls itself for the running options.
DoSignal ==
  /\ ~raised
  /\ group \in 2..(SCHED - 1)
  /\ LET g == SignalGroups[group - 1] IN
       /\ raised' = (Fails(g, FALSE) \/ Fails(g, TRUE))
       /\ out' = out \cup Shown(g, FALSE) \cup (IF Fails(g, FALSE) THEN {} ELSE Shown(g, TRUE))
  /\ group' = group + 1
  /\ UNCHANGED <<args, freq, idle>>

\* The bars of a task that only slept are an empty list: the library may
\* raise, after some of the output.
SchedMayRaise(asked) == ShowTui /\ \E r \in asked : r.kind \in {"states", "states_parent"}

DoSched ==
  /\ ~raised
  /\ group = SCHED
  /\ LET asked == Asked("sched", FALSE)
         whole == IF asked = {} THEN {} ELSE Csv("sched") \cup Medium(One(asked))
     IN  \/ /\ raised' = FALSE
            /\ out' = out \cup whole
         \/ /\ SchedMayRaise(asked)
            /\ raised' = TRUE
            /\ \E part \in SUBSET whole : out' = out \cup part
  /\ group' = DONE
  /\ UNCHANGED <<args, freq, idle>>

Next == DoFreq \/ DoIdle \/ DoSignal \/ DoSched

Spec == Init /\ [][Next]_vars

-----------------------------------------------------------------------------
(* Properties.                                                             *)

Ended == raised \/ group = DONE
Saving == args.save_csv \/ args.save_png

\* On the terminal one thing only costs the groups after it, by the exception
\* that main() swallows: an idle option, and that only when the CPUs with
\* idle data are not numbered from 0 without gaps.  No other lack of data and
\* no combination of options does.
NoneLost == raised /\ group # DONE => Saving \/ (Gap /\ Asked("idle", FALSE) # {})

AloneAbs(r) ==
  r.group \in Signals /\ r.kind = "residency_abs" /\
  \A q \in args.given : q.group = r.group /\ q.running = r.running => q.kind = "residency_abs"

\* The characters of a signal's name that the query asks for.
QueriedLen(s) == IF s = "util_est" THEN 12 ELSE TaskSignals[s]
Named(r, o) ==
  IF o.task THEN r.group \in {"util_est"} \cup DOMAIN TaskSignals /\ o.len + 1 + QueriedLen(r.group) <= NAME_MAX
            ELSE r.group \in {"util_est"} \cup DOMAIN CpuSignals

\* Does option r show of owner o only the values at which it ran?
Narrowed(r, o) == r.running /\ o.task /\ o.plain /\ o.states # "none"

\* Once all groups are done, every option for a signal has shown it on the
\* terminal for every CPU and task that has it, and nothing else is shown -
\* save a task whose track's name was cut, and a "-residency-abs" option that
\* is given alone.  With a running option the values of tasks with plain
\* names are those at which they ran, and tasks that never ran are left out;
\* but a task that thread_state does not know by the name of its track is
\* shown with all values.
ShownAsAsked ==
  group = DONE /\ ~Saving =>
    {<<o.req, o.plot>> : o \in {x \in out : x.req.group \in Signals}} =
      {<<x[1], [owner |-> x[2], filtered |-> Narrowed(x[1], x[2])]>> :
         x \in {y \in args.given \X Owners :
                 /\ y[1].group \in Signals /\ ~AloneAbs(y[1]) /\ Named(y[1], y[2])
                 /\ Narrowed(y[1], y[2]) => y[2].states = "ran"}}

\* Each frequency history of a CPU is plotted, and CPUs next to each other are
\* not plotted twice for one history, when the CPUs with data are numbered
\* without gaps.
FreqPlotted(r) == {o.plot.owner.id : o \in {x \in out : x.req = r}}
EveryPolicyPlotted ==
  Ended /\ ~Saving /\ WithData = 0..(nr_cpus - 1) =>
    \A r \in args.given : r.group = "freq" /\ HasPng(r) =>
      /\ \A c \in WithData : \E d \in FreqPlotted(r) : freq[d] = freq[c]
      /\ \A c \in WithData : c > 0 /\ freq[c] = freq[c - 1] => c \notin FreqPlotted(r)
=============================================================================
