----------------------------- MODULE ParseArgp -----------------------------
(***************************************************************************)
(* The command line: parse_arg() is called for one option after the other, *)
(* then main() decides which BPF programs are loaded and                   *)
(* start_perfetto_trace() fills the trace configuration.                   *)
(*                                                                         *)
(* The four lists that are stored without a look at their size are modelled*)
(* as they lie in struct sa_opts: one array after the other, then the      *)
(* flags of the events.  The argument of an option stands for its text and *)
(* is its position on the command line.  A list overflows by one entry at  *)
(* most (OVERRUN): what lies behind the first flags (more flags, num_pids, *)
(* num_comms and the pids) is not part of that memory.                     *)
(***************************************************************************)
EXTENDS Integers, Sequences, SequencesExt

CONSTANTS
  MAX_FILTERS_NUM, \* entries of each list (128)
  TASK_COMM_LEN,   \* bytes of a comm filter (16)
  MIB,             \* bytes of a MiB, scaled
  LONG_SPAN,       \* number of values of a long, scaled
  INT_SPAN,        \* number of values of a pid_t, scaled
  Numbers,         \* numbers given to --max_size and --pid, and NoDigits
  NoDigits,        \* a text that does not begin with a number
  CommLengths,     \* lengths of the texts given to --comm
  Used,            \* the options that are given
  MaxArgs,         \* bound: options on the command line
  OVERRUN          \* bound: entries stored beyond a list

ASSUME ArgsAssumption ==
  /\ MAX_FILTERS_NUM \in Nat \ {0}
  /\ TASK_COMM_LEN \in Nat \ {0}
  /\ MIB \in Nat /\ LONG_SPAN \in Nat \ {0} /\ INT_SPAN \in Nat \ {0}
  /\ OVERRUN \in 0..1 /\ MaxArgs \in Nat
  /\ NoDigits \notin Int /\ Numbers \subseteq Int \cup {NoDigits}
  /\ CommLengths \subseteq Nat

VARIABLES
  phase,     \* parse, opened, started or exited
  argv,      \* the options parsed so far
  backend,   \* system or app
  output, output_path, max_size,
  num,       \* num[l]: num_ftrace_event and the other three
  cells,     \* the memory of the lists
  flags,     \* the members of sa_opts that are true
  pids, comms,
  loaded,    \* BPF programs loaded
  config     \* the ftrace configuration

numVars == <<num, cells>>
vars == <<phase, argv, backend, output, output_path, max_size, numVars, flags,
          pids, comms, loaded, config>>

\* The order of the lists in struct sa_opts.
Lists == <<"ftrace_event", "atrace_cat", "function_graph", "function_filter">>
ListNames == Range(Lists)
Base(l) == MAX_FILTERS_NUM * ((CHOOSE k \in 1..Len(Lists) : Lists[k] = l) - 1)

\* The eight bytes after the lists are eight flags.  Of a user space pointer
\* stored there (64 bit, little endian) the top two bytes are zero, so only
\* the first six can become true.
FlagCell == MAX_FILTERS_NUM * Len(Lists)
FlagsUnderPointer ==
  {"load_avg_cpu", "runnable_avg_cpu", "util_avg_cpu", "load_avg_task", "runnable_avg_task",
   "util_avg_task"}
FlagsOfCell == FlagsUnderPointer \cup {"util_avg_rt", "util_avg_dl"}
NULL == 0
Garbled == -1      \* a pointer some bytes of which were overwritten

\* The flags an option sets.
Sets ==
  [load_avg          |-> {"load_avg_cpu", "load_avg_task", "load_avg_thermal"},
   runnable_avg      |-> {"runnable_avg_cpu", "runnable_avg_task"},
   util_avg          |-> {"util_avg_cpu", "util_avg_task", "util_avg_rt", "util_avg_dl",
                          "util_avg_irq"},
   load_avg_cpu      |-> {"load_avg_cpu"},
   runnable_avg_cpu  |-> {"runnable_avg_cpu"},
   util_avg_cpu      |-> {"util_avg_cpu"},
   load_avg_task     |-> {"load_avg_task"},
   runnable_avg_task |-> {"runnable_avg_task"},
   util_avg_task     |-> {"util_avg_task"},
   util_avg_rt       |-> {"util_avg_rt"},
   util_avg_dl       |-> {"util_avg_dl"},
   util_avg_irq      |-> {"util_avg_irq"},
   load_avg_thermal  |-> {"load_avg_thermal"},
   util_est          |-> {"util_est_cpu", "util_est_task"},
   util_est_cpu      |-> {"util_est_cpu"},
   util_est_task     |-> {"util_est_task"},
   cpu_nr_running    |-> {"cpu_nr_running"},
   cpu_idle          |-> {"cpu_idle"},
   load_balance      |-> {"load_balance"},
   ipi               |-> {"ipi"},
   irq               |-> {"irq"}]
FlagOptions == DOMAIN Sets
Flags == UNION {Sets[o] : o \in FlagOptions}

PeltTask == {"load_avg_task", "runnable_avg_task", "util_avg_task"}

\* A program is loaded when one of these flags is set.  The programs of load
\* balance tracing, switched together, are one.
Wants ==
  [pelt_cfs       |-> {"load_avg_cpu", "runnable_avg_cpu", "util_avg_cpu"},
   pelt_se        |-> PeltTask,
   pelt_rt        |-> {"util_avg_rt"},
   pelt_dl        |-> {"util_avg_dl"},
   pelt_irq       |-> {"util_avg_irq"},
   pelt_thermal   |-> {"load_avg_thermal"},
   util_est_cfs   |-> {"util_est_cpu"},
   util_est_se    |-> {"util_est_task"},
   nr_running     |-> {"cpu_nr_running"},
   cpu_idle       |-> {"cpu_idle"},
   balance        |-> {"load_balance"},
   ipi_send_cpu   |-> {"ipi"},
   process_free   |-> PeltTask \cup {"util_est_task"}]
Programs == DOMAIN Wants

NoConfig == [events |-> <<>>, cats |-> <<>>, graph |-> FALSE, roots |-> <<>>, filters |-> <<>>]

Init ==
  /\ phase = "parse"
  /\ argv = <<>>
  /\ backend = "system"
  /\ output = NULL /\ output_path = NULL
  /\ max_size = NULL
  /\ num = [l \in ListNames |-> 0]
  /\ cells = [k \in 0..FlagCell |-> NULL]
  /\ flags = {}
  /\ pids = <<>> /\ comms = <<>>
  /\ loaded = {}
  /\ config = NoConfig

-----------------------------------------------------------------------------
(* Mutated forms: plausible slips in this code.                            *)

\* The filter that no longer fits pushes out the oldest.
AddFilterLast(s, e) == IF Len(s) >= MAX_FILTERS_NUM THEN Append(Tail(s), e) ELSE Append(s, e)

\* Categories are stored with the counter of events.
SlotShared(l) == Base(l) + num[IF l = "atrace_cat" THEN "ftrace_event" ELSE l]

\* sched_process_free is loaded for PELT only.
ProgramsWantedPelt ==
  {p \in Programs : flags \cap (IF p = "process_free" THEN PeltTask ELSE Wants[p]) # {}}

-----------------------------------------------------------------------------
(* parse_arg(), once per option.                                           *)

Position == Len(argv) + 1

Next1(o, n) ==
  /\ phase = "parse"
  /\ o \in Used
  /\ Len(argv) < MaxArgs
  /\ argv' = Append(argv, [opt |-> o, val |-> n])
  /\ UNCHANGED <<loaded, config>>

OptBackend(o) ==
  /\ Next1(o, 0)
  /\ backend' = o
  /\ UNCHANGED <<phase, output, output_path, max_size, numVars, flags, pids, comms>>

OptOutput ==
  /\ Next1("output", 0)
  /\ output' = Position
  /\ UNCHANGED <<phase, backend, output_path, max_size, numVars, flags, pids, comms>>

OptOutputPath ==
  /\ Next1("output_path", 0)
  /\ output_path' = Position
  /\ UNCHANGED <<phase, backend, output, max_size, numVars, flags, pids, comms>>

\* strtol(): 0 without digits, the nearest long when out of range.
LONG_MAX == LONG_SPAN \div 2 - 1
LONG_MIN == -(LONG_SPAN \div 2)
strtol(n) ==
  IF n = NoDigits THEN 0
  ELSE IF n > LONG_MAX THEN LONG_MAX ELSE IF n < LONG_MIN THEN LONG_MIN ELSE n
Wrapped(v, span) == ((v + span \div 2) % span) - span \div 2

\* errno is returned, a text without digits ends in argp_usage().
BadNumber(n) == n = NoDigits \/ n \notin LONG_MIN..LONG_MAX
AfterNumber(n) == phase' = IF BadNumber(n) THEN "exited" ELSE phase

Bytes(n) == Wrapped(strtol(n) * MIB, LONG_SPAN)

OptMaxSize(n) ==
  /\ Next1("max_size", n)
  /\ max_size' = Bytes(n)
  /\ AfterNumber(n)
  /\ UNCHANGED <<backend, output, output_path, numVars, flags, pids, comms>>

\* Where the next entry of a list is stored.
Slot(l) == Base(l) + num[l]

OptList(l) ==
  /\ Next1(l, 0)
  /\ num[l] < MAX_FILTERS_NUM + OVERRUN
  /\ cells' = [cells EXCEPT ![Slot(l)] = Position]
  /\ num' = [num EXCEPT ![l] = @ + 1]
  /\ IF Slot(l) = FlagCell
     THEN \E s \in SUBSET FlagsUnderPointer \ {{}} : flags' = (flags \ FlagsOfCell) \cup s
     ELSE UNCHANGED flags
  /\ UNCHANGED <<phase, backend, output, output_path, max_size, pids, comms>>

OptFlags(o) ==
  /\ Next1(o, 0)
  /\ flags' = flags \cup Sets[o]
  /\ cells' = IF cells[FlagCell] # NULL /\ Sets[o] \cap FlagsOfCell # {}
              THEN [cells EXCEPT ![FlagCell] = Garbled] ELSE cells
  /\ UNCHANGED <<phase, backend, output, output_path, max_size, num, pids, comms>>

Full(s) == Len(s) >= MAX_FILTERS_NUM
AddFilter(s, e) == IF Full(s) THEN s ELSE Append(s, e)

\* A --pid too many is dropped before its number is looked at.
OptPid(n) ==
  /\ Next1("pid", n)
  /\ IF Full(pids) \/ ~BadNumber(n)
     THEN pids' = AddFilter(pids, Wrapped(strtol(n), INT_SPAN)) /\ UNCHANGED phase
     ELSE phase' = "exited" /\ UNCHANGED pids
  /\ UNCHANGED <<backend, output, output_path, max_size, numVars, flags, comms>>

\* strncpy() and the terminating zero.
CutComm(len) == IF len < TASK_COMM_LEN THEN len ELSE TASK_COMM_LEN - 1

OptComm(len) ==
  /\ Next1("comm", len)
  /\ comms' = AddFilter(comms, [text |-> Position, len |-> CutComm(len)])
  /\ UNCHANGED <<phase, backend, output, output_path, max_size, numVars, flags, pids>>

\* ARGP_KEY_ARG: a word that is no option.
OptNone ==
  /\ Next1("none", 0)
  /\ phase' = "exited"
  /\ UNCHANGED <<backend, output, output_path, max_size, numVars, flags, pids, comms>>

-----------------------------------------------------------------------------
(* main() after argp_parse().                                              *)

ProgramsWanted == {p \in Programs : flags \cap Wants[p] # {}}

SetAutoload ==
  /\ phase = "parse"
  /\ phase' = "opened"
  /\ loaded' = ProgramsWanted
  /\ UNCHANGED <<argv, backend, output, output_path, max_size, numVars, flags, pids, comms, config>>

Entries(l) == [k \in 1..num[l] |-> cells[Base(l) + k - 1]]
Functions == num["function_graph"] > 0 \/ num["function_filter"] > 0
IrqCategory == -3
DefaultPath == -2   \* "." or the directory Android has for traces

\* start_perfetto_trace(), the fixed ftrace events left out.
StartTrace ==
  /\ phase = "opened"
  /\ phase' = "started"
  /\ config' = [events  |-> Entries("ftrace_event"),
                cats    |-> IF "irq" \in flags THEN <<IrqCategory>> \o Entries("atrace_cat")
                                               ELSE Entries("atrace_cat"),
                graph   |-> Functions,
                roots   |-> Entries("function_graph"),
                filters |-> Entries("function_filter")]
  /\ output_path' = IF output_path = NULL THEN DefaultPath ELSE output_path
  /\ UNCHANGED <<argv, backend, output, max_size, numVars, flags, pids, comms, loaded>>

Next ==
  \/ \E o \in {"system", "app"} : OptBackend(o)
  \/ OptOutput \/ OptOutputPath
  \/ \E n \in Numbers : OptMaxSize(n) \/ OptPid(n)
  \/ \E l \in ListNames : OptList(l)
  \/ \E o \in FlagOptions : OptFlags(o)
  \/ \E len \in CommLengths : OptComm(len)
  \/ OptNone
  \/ SetAutoload \/ StartTrace

Spec == Init /\ [][Next]_vars

-----------------------------------------------------------------------------
(* Properties.                                                             *)

\* A set of positions in their order: the k-th has k positions up to itself.
Kth(S, k) == {x \in S : Cardinality({y \in S : y <= x}) = k}
Ordered(S) == [k \in 1..Cardinality(S) |-> CHOOSE x \in Kth(S, k) : TRUE]

\* Where option o stands on the command line, and with which values.
Given(o) == {k \in 1..Len(argv) : argv[k].opt = o}
Positions(o) == Ordered(Given(o))
Values(o) == [k \in 1..Len(Positions(o)) |-> argv[Positions(o)[k]].val]
AnyGiven(S) == \E k \in 1..Len(argv) : argv[k].opt \in S
Holds == \A l \in ListNames : Len(Positions(l)) <= MAX_FILTERS_NUM
LastOf(s, default) == IF s = <<>> THEN default ELSE Last(s)

\* As long as no list overflows the trace is configured with every event,
\* category and function of the command line, in its order, with nothing
\* else, and goes where the last --output says - whatever options stand
\* between them.  The limit of the trace file is the last --max_size, in MiB,
\* where a long holds that many bytes.
ConfigAsAsked ==
  phase = "started" /\ Holds =>
    /\ config.events = Positions("ftrace_event")
    /\ config.cats = (IF AnyGiven({"irq"}) THEN <<IrqCategory>> ELSE <<>>) \o Positions("atrace_cat")
    /\ config.roots = Positions("function_graph")
    /\ config.filters = Positions("function_filter")
    /\ config.graph <=> AnyGiven({"function_graph", "function_filter"})
    /\ output = LastOf(Positions("output"), NULL)
    /\ output_path = LastOf(Positions("output_path"), DefaultPath)
    /\ LET size == LastOf(Values("max_size"), 0) * MIB
       IN  size \in LONG_MIN..LONG_MAX => max_size = size

FirstN(s) == SubSeq(s, 1, IF Len(s) > MAX_FILTERS_NUM THEN MAX_FILTERS_NUM ELSE Len(s))
IntRange == (-(INT_SPAN \div 2))..(INT_SPAN \div 2 - 1)

\* "dropping %s": the filters are the first MAX_FILTERS_NUM that were given,
\* as given, and a filter too many neither replaces one nor ends the program.
\* For pids an int holds, and as long as no list overflows: three function
\* filters too many are one that is stored over num_pids.
FiltersAsAsked ==
  phase = "started" /\ Holds
    /\ (\A k \in 1..Len(FirstN(Values("pid"))) : Values("pid")[k] \in IntRange) =>
    /\ pids = FirstN(Values("pid"))
    /\ comms = FirstN([k \in 1..Len(Positions("comm")) |->
                 [text |-> Positions("comm")[k], len |-> CutComm(Values("comm")[k])]])

\* The options whose help text asks for what a program reports.
AsksFor ==
  [pelt_cfs     |-> {"load_avg", "runnable_avg", "util_avg", "load_avg_cpu", "runnable_avg_cpu",
                     "util_avg_cpu"},
   pelt_se      |-> {"load_avg", "runnable_avg", "util_avg", "load_avg_task", "runnable_avg_task",
                     "util_avg_task"},
   pelt_rt      |-> {"util_avg", "util_avg_rt"},
   pelt_dl      |-> {"util_avg", "util_avg_dl"},
   pelt_irq     |-> {"util_avg", "util_avg_irq"},
   pelt_thermal |-> {"load_avg", "load_avg_thermal"},
   util_est_cfs |-> {"util_est", "util_est_cpu"},
   util_est_se  |-> {"util_est", "util_est_task"},
   nr_running   |-> {"cpu_nr_running"},
   cpu_idle     |-> {"cpu_idle"},
   balance      |-> {"load_balance"},
   ipi_send_cpu |-> {"ipi"},
   process_free |-> {"load_avg", "runnable_avg", "util_avg", "load_avg_task", "runnable_avg_task",
                     "util_avg_task", "util_est", "util_est_task"}]

\* Exactly the programs whose signals were asked for are loaded - the one
\* that zeroes the tracks of a task when it exits with every signal of tasks.
ProgramsAsAsked ==
  phase = "opened" /\ Holds => loaded = {p \in Programs : AnyGiven(AsksFor[p])}
=============================================================================
