----------------------------- MODULE Residency -----------------------------
(***************************************************************************)
(* utils.py of sched-analyzer-pp: the samples of a track become a frame,   *)
(* either as they are (idle) or sampled at a fixed step (freq and the      *)
(* signals of the daemon), cut to the times asked for, if asked for        *)
(* reduced to the times at which a task ran, and summed up per value.      *)
(*                                                                         *)
(* A frame is a function from the times of its rows to values.  The trace  *)
(* begins at time 0.  Percentages, seconds and milliseconds are left out:  *)
(* durations are in the unit of the timestamps.                            *)
(***************************************************************************)
EXTENDS Integers, Sequences, FiniteSets, FiniteSetsExt

CONSTANTS
  STEP,        \* a row every 100 us
  END,         \* end of the trace
  Values,      \* values of a sample, positive
  Starts,      \* --ts-start, 0 when it is not given
  Ends,        \* --ts-end, END when it is not given
  MaxSamples,  \* bound: samples of the track
  MaxSlices    \* bound: thread states of the task

ASSUME ResidencyAssumption ==
  /\ STEP \in Nat \ {0} /\ END \in Nat
  /\ Values \subseteq Nat \ {0} /\ IsFiniteSet(Values)
  /\ Starts \subseteq Nat /\ Ends \subseteq Nat

VARIABLES
  phase,     \* trace, frame, ready or done
  samples,   \* the samples of one track: ts and val, by time
  slices,    \* the states of one task: ts, dur and running, by time
  ts_start, ts_end,
  parent,    \* has the process of the task a name?
  reindex,   \* sampled at a fixed step?
  frame,     \* the rows
  duration   \* duration[v]: what gen_df_duration_groupby() sums up for v

settingVars == <<ts_start, ts_end, parent, reindex>>
frameVars == <<phase, samples, slices, settingVars, frame, duration>>

NaN == 0
Unfinished == -1   \* dur of a state that lasts until the end of the trace

FrameInit ==
  /\ phase = "trace"
  /\ samples = <<>>
  /\ slices = <<>>
  /\ ts_start \in Starts /\ ts_end \in Ends
  /\ parent \in BOOLEAN
  /\ reindex \in BOOLEAN
  /\ frame = <<>>
  /\ duration = [v \in Values |-> 0]

-----------------------------------------------------------------------------
(* Mutated forms: plausible slips in this code.                            *)

\* diff(periods=1): the time since the previous row.
RowDurationBack(g) == IF \E h \in DOMAIN frame : h < g THEN g - Max({h \in DOMAIN frame : h < g}) ELSE 0

\* Durations stay what they are and other states are not dropped.
FactorAnyState(g) ==
  LET past == {j \in 1..Len(slices) : slices[j].ts <= g}
  IN  IF ~parent \/ past = {} \/ g > slices[Len(slices)].ts THEN NaN ELSE 1

-----------------------------------------------------------------------------
(* The trace.                                                              *)

LastTs(s) == IF s = <<>> THEN -1 ELSE s[Len(s)].ts

AddSample(ts, v) ==
  /\ phase = "trace"
  /\ Len(samples) < MaxSamples
  /\ ts > LastTs(samples)
  /\ samples' = Append(samples, [ts |-> ts, val |-> v])
  /\ UNCHANGED <<phase, slices, settingVars, frame, duration>>

\* thread_state has the states of a task without gaps; the last lasts until
\* the end of the trace.
AddSlice(ts, running) ==
  /\ phase = "trace"
  /\ Len(slices) < MaxSlices
  /\ ts > LastTs(slices)
  /\ slices' = Append([k \in 1..Len(slices) |->
                         IF k = Len(slices) THEN [slices[k] EXCEPT !.dur = ts - slices[k].ts]
                         ELSE slices[k]],
                      [ts |-> ts, dur |-> Unfinished, running |-> running])
  /\ UNCHANGED <<phase, samples, settingVars, frame, duration>>

-----------------------------------------------------------------------------
Before(s, g) == {j \in 1..Len(s) : s[j].ts <= g}

\* method='ffill'
At(s, g) == s[Max(Before(s, g))]

Grid == {g \in 0..(END - 1) : g % STEP = 0}

\* settings.filter_ts()
InWindow(g) == g >= ts_start /\ g <= ts_end

NoRows(f) == \A g \in DOMAIN f : f[g] = NaN

\* convert_ts()
Converted ==
  LET f == IF reindex
           THEN [g \in {x \in Grid : InWindow(x)} |->
                   IF Before(samples, g) = {} THEN NaN ELSE At(samples, g).val]
           ELSE [g \in {x \in {samples[j].ts : j \in 1..Len(samples)} : InWindow(x)} |->
                   At(samples, g).val]
  IN  IF NoRows(f) THEN <<>> ELSE f

convert_ts ==
  /\ phase = "trace"
  /\ samples # <<>>
  /\ frame' = Converted
  /\ phase' = IF slices = <<>> THEN "ready" ELSE "frame"
  /\ UNCHANGED <<samples, slices, settingVars, duration>>

\* What a row of the task's frame is multiplied with: convert_ts() of its
\* states gives nothing back when none of them has all of cpu (only Running
\* has) and parent; rows after the last state are chopped off, a duration
\* becomes 1, other states are dropped.
Factor(g) ==
  IF ~parent \/ Before(slices, g) = {} \/ g > LastTs(slices) THEN NaN
  ELSE LET s == At(slices, g) IN
         IF ~s.running THEN NaN ELSE IF s.dur > 0 THEN 1 ELSE s.dur

\* multiply_df_tid_running(), which is called for sampled frames only.
Multiplied ==
  LET f == [g \in DOMAIN frame |-> frame[g] * Factor(g)]
  IN  IF NoRows(f) THEN <<>> ELSE f

multiply_df_tid_running ==
  /\ phase = "frame"
  /\ frame' = IF reindex THEN Multiplied ELSE frame
  /\ phase' = "ready"
  /\ UNCHANGED <<samples, slices, settingVars, duration>>

\* The time until the next row; the last row has none.
RowDuration(g) ==
  IF \E h \in DOMAIN frame : h > g THEN Min({h \in DOMAIN frame : h > g}) - g ELSE 0

gen_df_duration_groupby ==
  /\ phase = "ready"
  /\ duration' = [v \in Values |->
                    SumFunctionOnSet([g \in DOMAIN frame |-> RowDuration(g)],
                                     {g \in DOMAIN frame : frame[g] = v})]
  /\ phase' = "done"
  /\ UNCHANGED <<samples, slices, settingVars, frame>>

FrameNext ==
  \/ \E ts \in 0..(END - 1) :
       \/ \E v \in Values : AddSample(ts, v)
       \/ \E running \in BOOLEAN : AddSlice(ts, running)
  \/ convert_ts
  \/ multiply_df_tid_running
  \/ gen_df_duration_groupby

FrameSpec == FrameInit /\ [][FrameNext]_frameVars

-----------------------------------------------------------------------------
(* Properties.                                                             *)

\* The value of the track, and whether the task runs, at any time.
ValueAt(x) == IF Before(samples, x) = {} THEN NaN ELSE At(samples, x).val
RunsAt(x) == Before(slices, x) # {} /\ At(slices, x).running

Rows == {g \in DOMAIN frame : frame[g] # NaN}
Exact(v) == Cardinality({x \in Min(Rows)..(Max(Rows) - 1) : ValueAt(x) = v})
Distance(a, b) == IF a > b THEN a - b ELSE b - a

\* In any window the residencies of a track add up to the time they cover and
\* are those of its real values: exactly when the samples themselves are the
\* rows, and for a fixed step up to less than a step per sample.
ResidencyClose ==
  phase = "done" /\ slices = <<>> /\ Rows # {} =>
    /\ SumFunction(duration) = Max(Rows) - Min(Rows)
    /\ \A v \in Values :
         Distance(duration[v], Exact(v)) <= (IF reindex THEN (STEP - 1) * Len(samples) ELSE 0)

\* Before the last state of the task the rows are exactly those of the times
\* asked for at which it ran, with the value of the track.  A task whose
\* process has no name is left with none.
RunningExact ==
  phase = "done" /\ slices # <<>> /\ reindex =>
    \A g \in Grid :
      InWindow(g) /\ g < LastTs(slices) =>
        (g \in Rows <=> parent /\ RunsAt(g) /\ ValueAt(g) # NaN) /\ (g \in Rows => frame[g] = ValueAt(g))
=============================================================================
