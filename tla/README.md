# sched-analyzer in TLA+

TLA+ models of [sched-analyzer](../src/README.md), a tool that records what the
Linux scheduler does.  BPF programs on scheduler tracepoints write records into
ring buffers; a daemon with one thread per ring reads them and writes counter
samples and slices into a perfetto trace; Python tools query the trace.

The models are checked by TLC on small instances, and every safety property of
theirs is proved by TLAPS for every value of their constants.

## 1. Inventory

| Component | Source | State | Operations |
|---|---|---|---|
| Ring buffers | `sched-analyzer.bpf.c:53-117`, all programs | one ring per event kind, records busy or submitted, consumer position | reserve, fill, submit on any CPU; callback and release in one thread |
| Daemon | `sched-analyzer.c:246-465`, `perfetto_wrapper.cc:36-188` | `exiting`, `err`, the `event##_err` of each thread, `skel`, `fd`, session | `main()` with its error paths, `EVENT_THREAD_FN`, `sig_handler` |
| Per-CPU signals | `sched-analyzer.bpf.c:271-486,600-645`, `sched-analyzer.c:50-100,133-180` | three rings, one counter track per CPU and signal | 9 programs, 3 handlers |
| Per-task signals | `sched-analyzer.bpf.c:145-269,541-576`, `sched-analyzer.c:32-48,102-131` | one ring, tracks named after comm, pid and signal | 3 programs, 1 handler, pid and comm filters |
| Load balance | `sched-analyzer.bpf.c:740-1094`, `sched-analyzer.c:189-234`, `perfetto_wrapper.cc:338-389` | `lb_map`, `lb_rb`, open slices per CPU, counters | 12 kprobe and kretprobe programs that interleave, 1 handler |
| IPI | `sched-analyzer.bpf.c:1096-1113`, `sched-analyzer.c:236-245`, `perfetto_wrapper.cc:391-427` | `ipi_rb`, slices per CPU | 1 program, 1 handler, two symbol lookups |
| Symbol lookup | `parse_kallsyms.c` | sorted table of symbols, `ready` | read, sort, binary then linear search |
| Command line | `parse_argp.c`, `parse_argp.h` | `sa_opts` | one case per option |
| Post processing | `sched-analyzer-pp/` | data frames of queried tracks | queries by track name, residencies, clusters, plots |
| Disabled programs | `sched-analyzer.bpf.c:488-539,578-598,647-738` | - | never loaded (`sched-analyzer.c:403-418`) |

**How they interact.**  The programs of one kind share a ring with the thread of
that kind and with nobody else; the six balance functions also share `lb_map`.
All handlers share `sa_opts`, read-only after start-up.  `main()` and the threads
share `exiting` and the skeleton.  The only link to post processing is the name of
a track.

**What is hard.**  Programs run on all CPUs at once and inside the scheduler; a
reservation blocks younger records and fails silently when the ring is full;
timestamps are taken before or after the reservation; shutdown must pass through a
call that drains a ring the kernel keeps filling; programs are attached one by one
while the kernel runs, the session starts later than the threads and may end
before them; one record layout and one program serve several options; a track is
known by its name alone, cut to 31 characters, while tasks change names and pids
are reused.

**What makes each component correct.**  Rings: nothing torn, reordered within a
runqueue, overwritten or lost unaccounted, and everything delivered.  Daemon: no
use of the skeleton after its end, CTRL+c works, nothing is left running.
Signals: the track of a signal shows the signal, only what was asked for is
shown, a dead task shows zero.  Load balance: open slices are running functions.
IPI: a slice belongs to its sender and carries the names of its own addresses;
the lookup stays in its table and ends.  Command line: what is configured and
loaded is what was asked for.  Post processing: every plot that was asked for
comes out, of the right tracks, and the figures are those of the trace.

## 2. Modules

| Module | Models | Builds on | Run by | Proofs |
|---|---|---|---|---|
| `EventRing` | any one ring, its programs and its thread | - | `MCEventRing` | `EventRingProofs` |
| `EventChannel` | what a ring promises: a bounded queue (abstract) | - | - | - |
| `RingRefinement` | `EventRing` as an `EventChannel` | both | `MCEventRing` | `EventRingProofs` |
| `SchedAnalyzer` | the daemon's life | - | `MCSchedAnalyzer` | `TraceSessionProofs` |
| `TraceSession` | daemon, rings and session together | `SchedAnalyzer` | `MCTraceSession` | `TraceSessionProofs` |
| `CpuTracks` | per-CPU signals from hit to track | - | `MCCpuTracks` | `CpuTracksProofs` |
| `TaskTracks` | per-task signals from hit to track | - | `MCTaskTracks` | `TaskTracksProofs` |
| `LoadBalance` | balance functions from call to slice | - | `MCLoadBalance` | `LoadBalanceProofs` |
| `Kallsyms` | symbol table and lookup | - | `MCIpi` | `IpiProofs` |
| `Ipi` | IPIs from hit to slice | `Kallsyms` | `MCIpi` | `IpiProofs` |
| `ParseArgp` | options, loaded programs, trace configuration | - | `MCParseArgp` | `ParseArgpProofs` |
| `PostProcess` | the flow of `sched-analyzer-pp` | - | `MCPostProcess` | `PostProcessingProofs` |
| `Residency` | `utils.py`: frames, windows, residencies | - | `MCResidency` | `PostProcessingProofs` |

**EventRing.**  `log` holds every record ever reserved, in reservation order;
`cons` is the consumer position, so the ring in use is what lies behind it.
`Enter`, `Reserve` or `ReserveFails`, `Fill` and `Submit` are the steps of a
program on a CPU; `Callback` and `Release` those of libbpf around the handler.
`STAMP_FIRST` selects the pattern: the PELT, nr_running and idle programs read
the clock into the reserved record, the load balance and IPI programs read it
first.  The ring itself belongs to kernel and libbpf and is marked external; the
model assumes what the code relies on: records are kept in reservation order and
the consumer stops at a busy one.  One more assumption is the kernel's: two
programs never run for one runqueue at a time, because its lock is held (PELT,
nr_running) or because the event happens on that CPU (idle, load balance, IPI).

**EventChannel, RingRefinement.**  The channel is a queue with three actions: a
hit is accepted, lost, or delivered.  The mapping hides everything between
reservation and callback: the queue is what was reserved and not yet handed to
the handler, a hit is decided when its reservation is, and what comes out is
named by the *contents* of the record, so that a torn record would come out as
the wrong hit.  The space of a record is given back only after the callback, so
that a hit may be lost with one record fewer in the queue than its capacity; the
abstract `Lose` says exactly that.

**SchedAnalyzer.**  `main` is the position in `main()`, one action per call that
can fail; `goto cleanup` is `Cleanup`.  Programs are attached one by one
(`AttachProg`), so that a failure leaves the earlier ones running until the
skeleton is destroyed.  The session may end by itself (`SessionEnds`): perfetto
gives it an hour and the size of `--max_size` (`perfetto_wrapper.cc:88-89`), and
nothing in the daemon notices.  A thread goes `new` (CREATE_EVENT_RB),
`test` (the loop condition), `poll`, `drain`, `free` (DESTROY_EVENT_RB), `done`.
Note three things the source hides in macros: the `break` of POLL_EVENT_RB leaves
the macro and not the loop; DESTROY_EVENT_THREAD assigns `err` whether or not it
joins; `pthread_create` failures are kept in `event##_err` and not in `err`.
Records are counted only.

**TraceSession** extends it by the records: `Write`, `Drop` and `HandleRecord`
refine `Produce` and `Consume`, and a sample is in the trace when its handler ran
after `StartBlocking()` and before `StopBlocking()` or the session's own end,
whichever comes first.  All other steps are those of `SchedAnalyzer`, error paths
included.

**CpuTracks.**  `Init` chooses a command line; `ParseArg` and `Loaded` say which
members of `sa_opts` it sets and which programs that loads; it also chooses a
kernel (`Kernels`), by the optional members of `struct rq` it has, because the
programs return early where `bpf_core_field_exists()` finds none.  Each program is
one action that stores one record (or loses it to a full ring); `Handle` takes the
oldest record of a ring and puts its samples on tracks.  `kernel` is what the
tracks ought to show.  `StaleTypes` is about the one uninitialised member of the
code, `e->type` of a `util_est` record: it is what an older record left at that
place, and the module computes from the sizes of ring and record which member that
was.  `UTIL_AVG_UNCHANGED`, the bit the kernel keeps in `util_est`, is a constant
above all values (0x80000000 in the code, 8 in the runs).

**TaskTracks.**  The kernel forks, renames, updates and frees tasks; records carry
the name at the time of the hit; `ignore_pid_comm` filters at the time of the
handling.  `TrackSignal` models the cut of `snprintf` to 31 characters, by the
length of the prefix `comm-pid `; names are otherwise abstract.

**LoadBalance.**  `calls` is the kernel's stack of balance functions per CPU;
`Attach` attaches the twelve programs one at a time, entry before exit, as
`sched_analyzer_bpf__attach()` does, and only programs that are attached run;
`StartTrace` is the start of the session.  The programs of all CPUs interleave:
`Enter` and `Return` begin one, which reads the clock and sees to `lb_map`;
`Reserve` is its `bpf_ringbuf_reserve()`, where a full ring ends it; `Submit`
reads the root domain, the runqueue and its domains (an exit program: `*lb_cpu`)
and releases the record.  Until then the record is busy and holds up the handler.
`open` is the stack of open slices perfetto keeps per track; samples of counters
carry the time their program read first, and that time orders a track, not the
reading.  `gen_sched_domain_stats` and `trace_lb_sd_stats` work on the words of
the struct, because the terminating entry may lie beyond the arrays.  `SlicesNest`
maps the open slices to the calls they stand for by an increasing function, so
that order and nesting are part of it.  `*lb_cpu`, read after the element was
deleted, is any CPU.

**Kallsyms.**  `CheckKptr` .. `Sort` are `parse_kallsyms()`: a restricted or
unreadable file, a line that does not parse and leaves its address behind, a
table that is full.  `Sort` sorts all `MAX_NUM_SYMBOLS` entries, those the file
did not fill and that keep address 0 among them, as the code does.  `cmp` truncates
to an int of scaled width; what `qsort()` makes of a comparison that is no order is
any arrangement in which neighbours are in order.  Kernel text is far from 0: on
x86_64 (0xffffffff81000000) its distance to 0 is negative as an int, so that the
text comes before the unused entries, and the table is not in order but a rotation
of it.  `Find`, `Halve`, `ToLinear`, `Linear` are one step of the search each,
over the whole table, unused entries included, as in the code.

**Ipi** composes it with the program and the handler: two searches per record run
step by step, one after the other, while CPUs go on sending and their records
queue up behind the one that is looked up.

**ParseArgp.**  One action per kind of option, in any order and number up to
`MaxArgs`, then `SetAutoload` and `StartTrace`.  The four lists that are stored
without a look at their size are modelled as the memory of `struct sa_opts`: list
after list, then the flags, so that one entry too many lands where it lands in the
program.  Further entries of `--function_filter` overwrite `num_pids`, `num_comms`
and the filters themselves (`parse_argp.c:194`, `parse_argp.h:51-53`); they are
not modelled, and the bound `OVERRUN` says so.  `strtol`, the product of
`--max_size` and `pid_t` keep scaled widths.

**PostProcess.**  One action per group of `main()`; an exception is `raised` and
ends the run, because `except: pass` swallows it.  Three groups can raise without
data or with the wrong data: freq when it saves plots it does not have, idle on
the terminal when the numbers of the CPUs with idle data have a gap, and sched,
the last one, where a plot without bars may raise (`SchedMayRaise`).  Track names
are modelled by the length of their two parts and the cut of the daemon; a task
has a plain name or not, and its states are found under that name and it ran, it
never ran, or they are not found (it was renamed, or the trace is of `--app`
only).  `clusters` is the loop of `freq.py`, which takes the number of CPUs with
data for their largest number.

**Residency.**  A trace of samples and thread states is drawn up first, then
`convert_ts`, `multiply_df_tid_running` and `gen_df_duration_groupby` run on it, for
windows that `--ts-start` and `--ts-end` cut at either end, and for a task whose
process has a name or none (`parent`: `convert_ts()` drops states without one).
A frame is a function from row times to values; the reference is the track
itself.  Its specification is `FrameSpec`, because `PostProcessingProofs` extends
both modules of the tools.

In the modules of the signals and of IPIs a program and the taking of a record are
one step each.  That is sound because a ring implements `EventChannel` (run
`ring`), a queue that loses only what finds it full, and because what one of these
programs reads belongs to the runqueue or the CPU it runs for, which no other
program reads at the time.  The programs of load balance also read the root domain
they share, so there the steps are apart.  `CpuTracks`, `TaskTracks` and `Ipi`
begin when the session is running; `LoadBalance` and `TraceSession` also model the
time before.

## 3. Runs

| Run | Checks | Bounds |
|---|---|---|
| `ring` | `TypeOK`, `PerRqOrder`, `NeverTorn`, `EveryHitAccounted`, `Delivered`, `ImplementsChannel` | 2 CPUs, 2 runqueues, 2 hits each, 2 slots, clock to 3, reserve before stamp |
| `lifecycle` | `TypeOK`, `SkelOutlivesThreads`, `CleanExit`, `OnlySignalEndsThreads`, `StatusOnlyOfEarlyFailures`, `StopsOnSignal`, `RingsEmptied` | 3 threads, one without producer, rings of 2, records without end |
| `trace_session` | `TraceHasNoHoles`, `QueuedIsTraced` | 2 threads, one with a producer, ring of 2, 4 hits |
| `cpu_tracks` | `TracksCurrent`, `NoAbsentShown`, `OnlyRequested` | 2 CPUs, 7 command lines, 2 kernels, 3 hits, rings of 2 |
| `task_tracks` | `TaskTracksCurrent`, `ZeroedUnderLastName` | 2 pids, a short and a long name, with and without a pid and a comm filter, 4 hits, forks or renames, ring of 2 |
| `load_balance` | `SlicesNest`, `LbMapExact`, `CountersCurrent` | 2 CPUs (interchangeable), 3 calls of five of the six functions, ring of 2, 2 levels |
| `ipi` | `TypeOK`, `ReadsInBounds`, `NamesNearest`, `SlicesOfSender`, `FindReturns`, `AllShown` | 5 entries, 11 files of up to 6 lines, near to 0, rotated or far from 0, int of 8 values, 2 CPUs, 2 pairs of addresses, 3 IPIs, ring of 2 |
| `args` | `ConfigAsAsked`, `FiltersAsAsked`, `ProgramsAsAsked` | all options, 3 at a time, lists of 2, long of 64 and int of 16 values |
| `post_process` | `NoneLost`, `ShownAsAsked`, `EveryPolicyPlotted` | 1 or 2 options, 3 signals, 6 owners of tracks (a renamed task and one that slept among them), 3 CPUs, 2 frequency histories |
| `residency` | `ResidencyClose`, `RunningExact` | 3 samples, 2 states, 7 units of time, a row every 2, 2 starts and 2 ends of the window |

Why the bounds are enough to be interesting: four hits meet a ring of two, so it
fills, refuses and wraps; two CPUs overlap in every phase of a program; three
threads leave a created, a failing and a never created one; three hits meet a ring
of two and let one signal overwrite another; four steps are update, rename, free
and fork; three calls are the deepest nest of balance functions, or two nests on
two CPUs, whose programs meet a ring of two in all orders.  (The programs of
`pick_next_task_fair()` differ from those of `balance_fair()` in their number
only; it is attached and not called.)  Five entries of a table are halved twice
before one pair is searched, and six lines do not fit into them; three IPIs meet a
ring of two, so that the second waits behind the first during either lookup and
the third is taken or refused; three options fill a list of two and store one
entry beyond it, into the next list or, from the last one, over the flags; two
options meet in one group or in two, so that one can take the other with it; a row
every two units misses a sample that is overwritten in between.

`CHECK_DEADLOCK FALSE` everywhere: the bounds on hits, calls and the clock end
every behaviour, and the daemon and the tools end by themselves.

**Fairness.**  `EventRing`: a started BPF program runs to its end (the verifier
admits only those that terminate) and the polling thread is scheduled; nothing
makes a tracepoint fire.  `SchedAnalyzer` and `TraceSession`: `main()` and every
thread are scheduled and the calls they make return; no fairness for signals,
poll errors or records.  Two conditions are stated in the properties, where a
reader sees them:

* `Calm`: no ring is refilled for ever as fast as it is drained.  Without it
  `StopsOnSignal` fails, and the code has no other guarantee, since
  `ring_buffer__poll()` returns only at an empty ring and the programs stay
  attached until the threads are joined.
* `PollsRecover`: in the end `ring_buffer__poll()` no longer fails when there is
  data; a call that fails for ever reads nothing.

`Ipi`: the polling thread runs, and parsing, which `main()` does before it starts
the thread, ends.

Every property of a passing run has a mutant: an operator in the same module,
named in `PROJECT.json`, that changes one definition the way a slip in the code
would, and under which TLC finds the property violated.

## 4. Where the code and its documentation part

Two runs expect a violation.  Each states what the repository says and finds that
the code does otherwise:

| Run | Property | Says | Does |
|---|---|---|---|
| `cpu_idle` | `IdleStateCurrent` | parse_argp.c:137 | a cpu_idle_miss puts the idle state just left back on the track |
| `task_exit` | `ZeroedOnExit` | sched-analyzer.c:399 | a track under an earlier name of the task is never zeroed |

The others are conditions in properties that hold, or cases these grant.  Each was
put there because the property fails without it, and removing it from the
definition shows the counterexample:

| Where | Says | Does | Condition |
|---|---|---|---|
| sched-analyzer.c:54 | README.md:28 | thermal pressure also lands on the load_avg track of the CPU | `TracksCurrent`: no thermal option |
| perfetto_wrapper.cc:241 | sched-analyzer-pp:131 | DL and IRQ utilization are written to the track named util_avg_rt | `TracksCurrent`, `OnlyRequested` |
| perfetto_wrapper.cc:297 | README.md:32 | the two util_est names of a long comm are cut to the same track, ewma wins | `TaskTracksCurrent`: `Long` |
| sched-analyzer.bpf.c:811 | - | the terminating entry overwrites the first interval of a full chain | `CountersCurrent` |
| sched-analyzer.c:252 | README.md:13 | a thread whose `ring_buffer__new()` fails ends, its ring is never emptied | `RingsEmptied`: `rbFailed` |
| sched-analyzer.c:280 | - | after a failed `pthread_create` the daemon hangs until a signal | `OnlySignalEndsThreads` |
| sched-analyzer.c:287 | - | failures after `sched_analyzer_bpf__open()` end with status 0 | `StatusOnlyOfEarlyFailures` |
| perfetto_wrapper.cc:170 | sched-analyzer.c:452 | "Collected" is printed also when no trace file could be opened | `CleanExit`: `fd` may stay bad |
| perfetto_wrapper.cc:88 | - | after an hour, or at `--max_size`, the trace is complete, the daemon goes on collecting | `QueuedIsTraced`: `session = "ended"` |
| parse_kallsyms.c:27 | README.md:169 | differences of addresses are cut to an int, unused entries with address 0 are sorted with the symbols: some tables come out in no order | `NamesNearest`, `SlicesOfSender`: `Orderly` |
| parse_kallsyms.c:101 | README.md:169 | on x86_64 the table is rotated; with symbols in less than half of it every text lookup starts at an unused entry, turns away from the text and is given up: the slices show raw addresses | `NamesNearest`, `SlicesOfSender`: `Ascending` |
| parse_kallsyms.c:110 | README.md:173 | the address of a function may be given the name of the symbol before it | `NamesNearest`: "or of the last one before it" |
| parse_argp.c:182 | parse_argp.c:114 | lists overflow into each other, into the flags and into the filters | `ConfigAsAsked`, `FiltersAsAsked`, `ProgramsAsAsked`: `Holds` |
| parse_argp.c:170 | parse_argp.c:172 | a large `--max_size` wraps instead of being refused | `ConfigAsAsked`: size within a long |
| sched-analyzer-pp:53 | sched-analyzer-pp/README.md:49 | `--save-csv` of a signal ends in a swallowed NameError | `NoneLost`: not `Saving` |
| idle.py:111 | - | with a gap in the numbers of CPUs with idle data the plot raises, and every later group is lost | `NoneLost`: `Gap` |
| sa_track.py:37 | sched-analyzer-pp/README.md:47 | `cpu_nr_running` is asked for, the daemon writes `nr_running` | `ShownAsAsked`: `Named` |
| sa_track.py:37 | sched-analyzer-pp:146 | tracks whose names were cut are not found | `ShownAsAsked`: `Named` |
| sa_track.py:18 | sched-analyzer-pp:38 | tasks with a blank in their name are shown unfiltered | `ShownAsAsked`: `Narrowed` |
| sa_track.py:20 | sched-analyzer-pp:38 | a task whose states are not found under the name of the track (renamed since, or a trace of `--app` only) is shown unfiltered | `ShownAsAsked`: `Narrowed` |
| utils.py:65 | utils.py:85 | the states of a task whose process has no name are dropped, and with them all its rows | `RunningExact`: `parent` |
| utils.py:100 | utils.py:85 | a task still running at the end loses its rows since its last state change | `RunningExact`: before `LastTs` |
| freq.py:23 | sched-analyzer-pp:107 | with a gap in the CPU numbers the last CPUs are never plotted | `EveryPolicyPlotted` |

`NoAbsentShown` holds because 80 byte records shift by 16 bytes per lap of a
256 KiB ring; with a record of 128 bytes it fails.

## 5. Proofs

| Module | Theorems | Rests on |
|---|---|---|
| `EventRingProofs` | `TypeCorrect`, `OrderPreserved`, `NoTornRecord`, `AllAccounted`, `RingIsChannel` | `IInv`, `AccInv`, `BarsKept` |
| `TraceSessionProofs` | `LifeTypes`, `SkelSafe`, `ExitClean`, `SignalNeeded`, `StatusLost`, `SessionIsDaemon`, `NoHoles` | `LInv`, `RecOK` |
| `CpuTracksProofs` | `AbsentNeverShown`, `RequestedOnly`, `TracksAreCurrent` | `CpuInv`, `CurInv` |
| `TaskTracksProofs` | `TaskTracksAreCurrent`, `TasksZeroed` | `FilterInv`, `CurInv`, `FreedLast` |
| `LoadBalanceProofs` | `LbMapIsExact`, `CountersAreCurrent`, `SlicesAreNested` | `MapInv`, `CountersInv`, `NestInv` |
| `IpiProofs` | `IpiUsesKallsyms`, `KallsymsTypes`, `LookupsInBounds`, `LookupsNearest`, `IpiSlices` | `KInv`, `IpiInv` |
| `ParseArgpProofs` | `ArgsTaken`, `ProgramsLoadedAsAsked`, `FiltersTakenAsAsked`, `TraceConfiguredAsAsked` | `ArgInv` |
| `PostProcessingProofs` | `NoGroupLost`, `PoliciesPlotted`, `SignalsShownAsAsked` | `OutInv`, `PolicyProperties` |
| | `RunningRowsExact`, `ResidenciesClose` | `FrameInv`, `DurationsInv`, `SumOfSizes` |

They hold for any number of CPUs, runqueues, threads, tasks and calls, any
capacity of a ring, any table, file and width of an int, any command line, trace,
step and window, and either clock pattern.  The bounds on hits, calls, options and
steps are constants too, so that none of them limits what is proved.  Every safety
property of a passing run is proved; `SessionIsDaemon` and `IpiUsesKallsyms` say
that a composition takes only steps of the module it is built on, so that what is
proved of the part holds in the whole.

**Assumptions.**  `RingAssumption`, `LifeAssumption`, `SessionAssumption` and
`IpiAssumption`: sizes are positive numbers, bounds are numbers, an IPI has two
addresses.  `KallsymsAssumption`: a table of four entries or more, a line has an
address and a name.  `CpuAssumption`: a kernel is the set of optional members its
`struct rq` has.  `CpuAssumption`, `TaskAssumption`: values are not negative, and
those of `util_est` are below its flag bit, as the kernel keeps them.
`LbAssumption`: a reading is a record of numbers, and along a `sched_domain` chain
the level grows.  `ArgsAssumption`: limits and spans are positive and a text
without digits is told apart from every number; `OVERRUN`, at most one, is the one
bound that counts: what further entries beyond a list overwrite is not modelled.
The theorems that rest on it are about command lines that keep their lists
(`Holds`), where nothing is overwritten.  `PostProcessAssumption`: the name of a
CPU is as long as `%d` of an int makes it, a CPU without data has no frequency
history, and the states of a task are in one of the three cases of section 2.
`SignalsAssumption`: the options are among those of `main()`.
`ResidencyAssumption`: the values of a track are positive and finitely many, as
those of a double are, a step is positive, and a window begins and ends at
numbers.  The two facts about kernel and libbpf named in section 2 are part of the
model.

*The argument for the ring.*  `PerRqOrder` speaks of what the handler has seen and
is not inductive: it needs the records still in the ring.  `IInv` says that a
record is busy exactly while one program owns it, that the records of one
runqueue lie in the log in hit order, that a filled record's time is bounded by
those of younger records and by the clock, and that `seen` is a prefix of `log`.
A program that has stamped early but not reserved keeps its stamp at least as
large as every time of its runqueue, because no other program runs for it.
`AllAccounted` rests on `AccInv`: every hit so far has a record, is in `lost`, or
belongs to the program still running.  The run `ring` has programs that stamp
after they reserve; that the order also holds for those that stamp first rests on
the proof.

*The argument for the refinement.*  `Reserve` maps to `Accept`, `ReserveFails` to
`Lose`, `Callback` to `Deliver`, and every other step changes neither the mapped
queue nor the output (`BarsKept`).  `IInv` supplies three facts: no two programs
hold back a hit of one runqueue (so a reservation decides exactly one hit, in its
turn), `seen` is a prefix of `log` at most one record ahead of `cons` (so `Lose`
happens with at most one free place in the mapped queue), and a record handed to
the handler holds the contents of its own hit (so the output is what was queued).
`HitsBounded` says that the bound on hits, which the channel repeats, is kept.

*The argument for the daemon.*  `LInv` ties the position of `main()` to the
skeleton (`SkelOK`), the threads created and joined so far (`ThreadsOK`), the
session (`SessionOK`) and `err` (`StatusOK`), and the position of a thread to its
ring_buffer and the reason it may leave its loop (`RbOK`).

*The argument for the trace.*  `TraceHasNoHoles` speaks of the trace only.  `RecOK`
adds where every other hit is: up to the last handled hit the trace is gapless but
for the dropped ones once it has begun, the hits after it wait in the ring in
order or were dropped, and while the session runs the last handled hit is the
last traced one.  The third part is what keeps a hole from opening: the session
starts once and stops once, so that handled but untraced hits lie at the ends.

*The argument for the signals.*  What a handler puts on a track depends on the
record and on options that never change, so that a record in a ring is already
known to say one value of a track or nothing.  `Latest` holds for every signal
whose last hit was not refused: the last record in the ring that says something of
its track says the kernel's value, or no record does and the trace shows it
(`LastSays`, kept by an append in `LastAppend` and by a removal in `LastTail`).
For a drained ring that is `Current`.  For the CPUs the proof has one more
premise: `StaleTypesKnown` computes which bytes of an older record lie under the
type of a `util_est` record.  Records take 80 bytes and a ring 256 KiB, so that
the upper half of an unsigned long lies there: zero, which is the type CFS, or all
ones, which is no type; either way only the member of `util_est` is shown.  For
tasks the hard part is names: a track belongs to one name and pid, and `under` is
the name of the last hit, not the present one; `FreedLast` says that of a freed
task the last hit of all signals was the zero under the name it still has.
`OnlyAsked` is needed for `TasksZeroed`: a track nobody asked for has no samples
to zero.

*The argument for load balance.*  `MapInv` says with `CallsOK` that a function is
at one place of the call stack only, which is why one entry of `lb_map` per
function and CPU is enough, and that a call with an exit program has an entry in
the map.  `CountersCurrent` speaks of readings that no later program replaced:
CPUs whose programs overlap may read a shared counter in another order than their
clocks say, and the trace sorts by the clock.  `OrderOK` says that records in the
ring, and programs that run, either come in the order of their clocks or overlap,
so that neither replaces the other.  `ReadOK` says of the sample shown, and of
each one in the ring, that its reading was not replaced or that a sample behind it
takes its place in the trace, and of each reading not replaced that it was shown,
is in the ring, or was handled before the session.  What a record says of a
counter follows from the words of the struct (`SdWords`: the terminating entry
ends the loop of the handler where the copied chain ends).  For `SlicesNest`,
`NestInv` follows the records still in the ring: `Path` says that they lead from
the slices now open to those of the calls seen to begin, one push or pop each,
`Shows` that what is open is what was begun less the calls handled before the
session, and `IdsOK` that those calls are older than every entry record still to
come.

*The argument for the symbols.*  `KInv` has the part still searched inside the
table and never empty (`SearchOK`), the table in the order that begins at a cut
whenever `cmp()` puts its addresses into that order (`SortedOK`, from what `qsort()`
guarantees of neighbours; the cut is 0 for a table in order and the lowest text
address for a rotated one), and, when it is the order of the addresses, the address
between the ends of that part (`NearOK`).  For a rotated table it takes one fact
more: two neighbours with the address between them are the ones next to it,
wherever the search came from (`Nearest`).  `NeighboursSuffice` needs an induction
over the distance of two entries; it is done with the well-order of the naturals,
as the least counterexample.  `IpiInv` adds that the two lookups belong to the
record at the head of the ring (`StageOK`), and counts the records of a CPU along
the ring (`RingOK`): the slices of a CPU followed by its records in the ring are
what it sent, in order.

*The argument for the command line.*  `ArgInv` says what every member of `sa_opts`
is after the options so far, in terms of `Given(o)`, the places at which option
`o` stands on the command line: a list holds their arguments in order, a flag is
set when there is such a place, a scalar is that of the last one.  `Ordered` lists
a set of places by size; it is a function defined with `Kth` and not by
`SelectSeq`, whose recursion no prover can follow, and what an append does to it
is the lemma all lists share.  The lists are proved under `Holds`: once one ran
over its end the next list, or the flags, are no longer those of the options.
That is so for `FiltersAsAsked` too: the filters are the two lists the code does
guard, but `--function_filter` beyond its end runs over their counts.
`BytesExact` is the last part: a size a long holds is cut neither by `strtol()`
nor by the product.

*The argument for the plots.*  `OutInv` says that what `main()` has put out is the
union of what the groups it has passed put out, each a function of options and
tracks alone, and that before the last group nothing was raised but by saving or
by an idle option with a gap in the CPU numbers; the group it stands at is an
index into the fixed order of groups.  `SignalsShownAsAsked` then compares two
sets of pairs member by member.  For `PoliciesPlotted` the recursive function
`Policy` has to exist first: `PolicyExists` builds it CPU by CPU, as the least
counterexample, and `PolicyProperties` says that the CPU a CPU is compared with
has its history and is compared with itself.

*The argument for the figures.*  `FrameInv` keeps samples and states in order
while the trace is drawn up and says that the frame is what the two functions make
of them.  `RunningRowsExact` follows from the state that holds at a row: before
the last state each one is finished, so that its duration is positive and becomes
the factor 1.  For `ResidenciesClose` a row stands for the times until the next
(`Covered`): these intervals are disjoint and fill the time from the first row to
the last (`RowsCover`), so that a sum of durations is the size of a union
(`SumOfSizes`).  The sum is a recursive function over sets; the lemma names a
solution of its equation, the size of the union, and shows by the least
counterexample that there is no other.  Where the value shown is not that of the
track, a sample lies between the row and that time and the next row at most a step
away (`RowsMiss`); the rows of a frame that is not sampled are the samples, so
that there is no such place.  `SizeOfUnion` and `NearSizes` turn that into the
bound.

**Only model-checked.**  Liveness (`Delivered`, `StopsOnSignal`, `RingsEmptied`,
`QueuedIsTraced`, `FindReturns`, `AllShown`), which is beyond the prover;
`IpiProofs` and `TraceSessionProofs` give the safety half, that nothing stands in
the trace that was not sent or hit.  The two properties of section 4 that the code
violates are refuted by TLC.

## 6. Plan

All components of section 1 have their modules, and all safety properties of the
passing runs their theorems.  Were the project to grow:

1. of the hazards without a property, `SYMBOL_LEN` and the duration of IPI slices
   need the bytes of names and perfetto's rule for overlapping slices, and lists
   that run over by more than one entry the rest of `struct sa_opts`; the others
   (a trace file that does not open, unpaired slices, the name at a boundary, a
   wrapped size, gaps in the CPU numbers) are the code's behaviour, which the
   properties except and nothing in the repository forbids;
2. the rings of `CpuTracks`, `TaskTracks`, `LoadBalance` and `Ipi` could be
   `EventChannel` by `INSTANCE`, which now is an argument in section 2;
3. the programs of section 7, should the daemon load them.

## 7. Not modelled

* `vmlinux.h`: 128655 lines of types generated from the kernel's BTF, 98% of the
  repository's lines and no logic.  Of the other 2742 lines of C and C++ the
  definitions stand for about two thirds; the rest is the table of help texts of
  `parse_argp.c`, includes, map and category declarations, and the next two items.
* The programs that are never loaded (`sched-analyzer.c:403-418`): sched_switch,
  cpu_frequency, softirq, `_nohz_idle_balance`.  Their threads are in
  `SchedAnalyzer` as threads without a producer.
* The constant part of the trace configuration (buffer sizes, periods, the fixed
  ftrace events) and the layout of perfetto's own files.
* Durations of IPI slices (`FAKE_DURATION`) and the bytes of symbol names.
* In post processing: drawing, the contents of csv files, the summaries of
  `sched.py`, which are pandas and plotting calls.
* Several root domains share the tracks `rd.overloaded` and `rd.overutilized`; the
  model has one root domain, whose readings by several CPUs interleave.
* The buffers inside perfetto, which keep the newest 100 MiB between two writes to
  the file (`perfetto_wrapper.cc:81-92`): a sample that a handler wrote during the
  session counts as traced.
