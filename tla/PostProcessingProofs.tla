------------------------ MODULE PostProcessingProofs ------------------------
(***************************************************************************)
(* Proofs about sched-analyzer-pp: what main() puts out (PostProcess), for *)
(* any signals, any owners of tracks and any number of CPUs, and what      *)
(* utils.py makes of the samples of a track (Residency), for any samples,  *)
(* any states of the task and any step.                                    *)
(***************************************************************************)
EXTENDS PostProcess, Residency, NaturalsInduction, FiniteSetTheorems, SequenceTheorems, TLAPS

LEMMA Smallest ==
  ASSUME NEW T, T \subseteq Nat, T # {}
  PROVE  \E x \in T : \A y \in T : x <= y
<1> DEFINE R == OpToRel(<, Nat)
<1>1. IsWellFoundedOn(R, Nat)
  BY NatLessThanWellFounded
<1>2. \A x, y \in Nat : y < x => <<y, x>> \in R
  BY DEF OpToRel
<1> HIDE DEF R
<1>3. PICK x \in T : \A y \in T : ~(<<y, x>> \in R)
  BY <1>1, WFMin
<1>4. x \in Nat /\ \A y \in T : y \in Nat /\ ~(y < x)
  BY <1>2, <1>3
<1> QED
  BY <1>4

-----------------------------------------------------------------------------
(* __find_clusters().                                                      *)

\* The loop, written as the equation that Policy is the solution of.
PolicyStep(f, c) == IF c = 0 THEN 0 ELSE IF freq[c] = freq[f[c - 1]] THEN f[c - 1] ELSE c

\* The loop has a result for every CPU.
LEMMA PolicyExists ==
  \E f : f = [c \in FreqCpus |-> PolicyStep(f, c)]
<1> DEFINE Solves(f, n) == f = [c \in 0..n |-> PolicyStep(f, c)]
           Bad == {n \in Nat : ~\E f : Solves(f, n)}
<1>1. Bad = {}
  <2> SUFFICES ASSUME Bad # {} PROVE FALSE
    OBVIOUS
  <2>1. PICK n \in Bad : \A m \in Bad : n <= m
    BY Smallest
  <2>2. CASE n = 0
    <3> DEFINE f == [c \in 0..0 |-> 0]
    <3>1. f = [c \in 0..0 |-> PolicyStep(f, c)]
      BY DEF PolicyStep
    <3> QED
      BY <2>1, <2>2, <3>1
  <2>3. CASE n # 0
    <3>1. n - 1 \in Nat /\ n - 1 \notin Bad
      BY <2>1, <2>3
    <3>2. PICK f : Solves(f, n - 1)
      BY <3>1
    <3> DEFINE g == [c \in 0..n |-> IF c = n THEN PolicyStep(f, n) ELSE f[c]]
    <3>3. ASSUME NEW c \in 0..n PROVE g[c] = PolicyStep(g, c)
      <4>1. c > 0 => g[c - 1] = f[c - 1]
        BY <2>1
      <4>2. PolicyStep(g, c) = PolicyStep(f, c)
        BY <4>1 DEF PolicyStep
      <4>3. CASE c = n
        BY <4>2, <4>3
      <4>4. CASE c # n
        <5>1. c \in 0..(n - 1)
          BY <2>1, <4>4
        <5>2. f[c] = PolicyStep(f, c)
          <6> HIDE DEF g
          <6> QED
            BY <3>2, <5>1, Zenon
        <5> QED
          BY <4>2, <4>4, <5>2
      <4> QED
        BY <4>3, <4>4
    <3>4. g = [c \in 0..n |-> g[c]]
      OBVIOUS
    <3> HIDE DEF g
    <3>5. g = [c \in 0..n |-> PolicyStep(g, c)]
      BY <3>3, <3>4, Zenon
    <3> QED
      BY <2>1, <3>5
  <2> QED
    BY <2>2, <2>3
<1>2. MaxCpu \in Nat
  BY PostProcessAssumption
<1>3. \E f : Solves(f, MaxCpu)
  BY <1>1, <1>2
<1> QED
  BY <1>3 DEF FreqCpus

LEMMA PolicyDef ==
  \A c \in FreqCpus : Policy[c] = PolicyStep(Policy, c)
<1> DEFINE F(f) == [c \in FreqCpus |->
                      IF c = 0 THEN 0 ELSE IF freq[c] = freq[f[c - 1]] THEN f[c - 1] ELSE c]
<1>1. \E f : f = F(f)
  BY PolicyExists DEF PolicyStep
<1>2. Policy = CHOOSE f : f = F(f)
  BY DEF Policy
<1> HIDE DEF F
<1>3. Policy = F(Policy)
  BY <1>1, <1>2
<1>4. \A c \in FreqCpus : Policy[c] = F(Policy)[c]
  BY <1>3
<1> QED
  BY <1>4 DEF F, PolicyStep

\* The CPU a CPU is compared with comes no later, went through the same
\* frequencies and is compared with itself.
LEMMA PolicyProperties ==
  ASSUME NEW c \in FreqCpus
  PROVE  /\ Policy[c] \in 0..c
         /\ freq[Policy[c]] = freq[c]
         /\ Policy[Policy[c]] = Policy[c]
<1> DEFINE Good(n) == /\ Policy[n] \in 0..n
                      /\ freq[Policy[n]] = freq[n]
                      /\ Policy[Policy[n]] = Policy[n]
           Bad == {n \in FreqCpus : ~Good(n)}
<1>0. MaxCpu \in Nat /\ FreqCpus = 0..MaxCpu
  BY PostProcessAssumption DEF FreqCpus
<1>1. Bad = {}
  <2> SUFFICES ASSUME Bad # {} PROVE FALSE
    OBVIOUS
  <2>1. Bad \subseteq Nat
    BY <1>0
  <2>2. PICK n \in Bad : \A m \in Bad : n <= m
    BY <2>1, Smallest
  <2>3. n \in FreqCpus /\ n \in Nat
    BY <2>1
  <2>4. Policy[n] = PolicyStep(Policy, n)
    BY <2>3, PolicyDef
  <2>5. CASE n = 0
    BY <2>2, <2>4, <2>5 DEF PolicyStep
  <2>6. CASE n # 0
    <3>1. n - 1 \in FreqCpus /\ ~(n <= n - 1)
      BY <1>0, <2>3, <2>6
    <3>2. Good(n - 1)
      BY <2>2, <3>1
    <3>3. CASE freq[n] = freq[Policy[n - 1]]
      <4>1. Policy[n] = Policy[n - 1]
        BY <2>4, <2>6, <3>3 DEF PolicyStep
      <4>2. Good(n)
        BY <2>3, <3>1, <3>2, <3>3, <4>1
      <4> QED
        BY <2>2, <4>2
    <3>4. CASE freq[n] # freq[Policy[n - 1]]
      <4>1. Policy[n] = n
        BY <2>4, <2>6, <3>4 DEF PolicyStep
      <4> QED
        BY <2>2, <2>3, <4>1
    <3> QED
      BY <3>3, <3>4
  <2> QED
    BY <2>5, <2>6
<1> QED
  BY <1>1

\* A CPU with the frequencies of the one before it begins no cluster.
LEMMA SameAsNeighbour ==
  ASSUME NEW c \in FreqCpus, c > 0, freq[c] = freq[c - 1]
  PROVE  Policy[c] # c
<1>1. c - 1 \in FreqCpus /\ c \in Nat
  BY PostProcessAssumption DEF FreqCpus
<1>2. Policy[c - 1] \in 0..(c - 1) /\ freq[Policy[c - 1]] = freq[c - 1]
  BY <1>1, PolicyProperties
<1>3. Policy[c] = Policy[c - 1]
  BY <1>1, <1>2, PolicyDef DEF PolicyStep
<1> QED
  BY <1>1, <1>2, <1>3

-----------------------------------------------------------------------------
(* main(): what each group puts out.                                       *)

SignalNames == {SignalGroups[k] : k \in 1..Len(SignalGroups)}
OnTerminal(plots) == {Output(x[1], "tui", x[2]) : x \in plots}
BothShown(g) == Shown(g, FALSE) \cup Shown(g, TRUE)

ArgsOK == args.given \subseteq Requests

\* What the groups that are done have put out on the terminal.
FreqDone ==
  \A x : x \in out /\ x.req.group = "freq" <=>
          group > 0 /\ x \in OnTerminal(FreqPlots(Asked("freq", FALSE)))
SignalsDone ==
  \A x : x \in out /\ x.req.group \in SignalNames <=>
          \E k \in 1..Len(SignalGroups) : k + 1 < group /\ x \in BothShown(SignalGroups[k])

OutInv ==
  /\ ArgsOK
  /\ group \in 0..DONE
  /\ raised => group # 0
  /\ NoneLost
  /\ ~Saving => FreqDone /\ SignalsDone

LEMMA GroupNames ==
  /\ Len(SignalGroups) = 10 /\ SCHED = 12 /\ DONE = 13
  /\ "freq" \notin SignalNames /\ "idle" \notin SignalNames /\ "sched" \notin SignalNames
  /\ \A k \in 1..10 : SignalGroups[k] \in SignalNames
  /\ \A j, k \in 1..10 : SignalGroups[j] = SignalGroups[k] => j = k
<1>1. Len(SignalGroups) = 10
  BY DEF SignalGroups
<1>2. /\ SignalGroups[1] = "util_avg" /\ SignalGroups[2] = "util_avg_rt"
      /\ SignalGroups[3] = "util_avg_dl" /\ SignalGroups[4] = "util_avg_irq"
      /\ SignalGroups[5] = "util_est" /\ SignalGroups[6] = "load_avg_thermal"
      /\ SignalGroups[7] = "load_avg" /\ SignalGroups[8] = "runnable_avg"
      /\ SignalGroups[9] = "uclamped_avg" /\ SignalGroups[10] = "cpu_nr_running"
  BY DEF SignalGroups
<1>3. \A k : k \in 1..10 <=> k \in {1, 2, 3, 4, 5, 6, 7, 8, 9, 10}
  OBVIOUS
<1>4. "freq" \notin SignalNames /\ "idle" \notin SignalNames /\ "sched" \notin SignalNames
  BY <1>1, <1>2, <1>3 DEF SignalNames
<1>5. \A j, k \in 1..10 : SignalGroups[j] = SignalGroups[k] => j = k
  BY <1>2, <1>3
<1>6. SCHED = 12 /\ DONE = 13
  BY <1>1 DEF SCHED, DONE
<1> QED
  BY <1>1, <1>4, <1>5, <1>6 DEF SignalNames

\* Without --save-csv and --save-png everything goes to the terminal.
LEMMA NotSaving ==
  ASSUME ~Saving
  PROVE  /\ \A plots : Medium(plots) = OnTerminal(plots)
         /\ \A g : Csv(g) = {}
         /\ \A asked : ~SaveRaises(asked) /\ ~FreqRaises(asked)
         /\ \A g, running : ~Fails(g, running)
BY DEF Saving, Medium, ShowTui, OnTerminal, Csv, SaveRaises, FreqRaises, Fails

LEMMA AskedGroup ==
  ASSUME NEW g, NEW running, NEW r \in Asked(g, running)
  PROVE  r \in args.given /\ r.group = g /\ r.running = running
BY DEF Asked

LEMMA FreqPlotsAre ==
  ASSUME NEW A, NEW y
  PROVE  y \in FreqPlots(A) <=>
           \/ \E r \in {q \in A : HasPng(q)}, c \in clusters \cap WithData : y = <<r, CpuPlot(c)>>
           \/ \E r \in {q \in A : ~HasPng(q) /\ WithData # {}} : y = <<r, NoPlot>>
BY DEF FreqPlots

LEMMA PlotsOfAsked ==
  ASSUME NEW A, NEW y \in FreqPlots(A)
  PROVE  y[1] \in A
BY FreqPlotsAre

\* Whatever a group shows belongs to it.
LEMMA OwnGroup ==
  /\ \A x \in OnTerminal(FreqPlots(Asked("freq", FALSE))) : x.req.group = "freq"
  /\ \A x \in OnTerminal(IdlePlots(Asked("idle", FALSE))) : x.req.group = "idle"
  /\ \A x \in OnTerminal(One(Asked("sched", FALSE))) : x.req.group = "sched"
  /\ ~Saving => \A g : \A x \in BothShown(g) : x.req.group = g
<1>0. ASSUME NEW g, NEW plots, \A y \in plots : y[1] \in Asked(g, FALSE)
      PROVE  \A x \in OnTerminal(plots) : x.req.group = g
  <2> TAKE x \in OnTerminal(plots)
  <2>1. PICK y \in plots : x = Output(y[1], "tui", y[2])
    BY DEF OnTerminal
  <2>2. x.req = y[1]
    BY <2>1 DEF Output
  <2>3. x.req \in Asked(g, FALSE)
    BY <1>0, <2>2
  <2>4. \A r : r \in Asked(g, FALSE) => r.group = g
    BY AskedGroup
  <2> QED
    BY <2>3, <2>4
<1>1. \A x \in OnTerminal(FreqPlots(Asked("freq", FALSE))) : x.req.group = "freq"
  BY <1>0, PlotsOfAsked
<1>2. \A g : \A x \in OnTerminal(One(Asked(g, FALSE))) : x.req.group = g
  <2> TAKE g
  <2>1. \A y \in One(Asked(g, FALSE)) : y[1] \in Asked(g, FALSE)
    BY DEF One
  <2> QED
    BY <1>0, <2>1
<1>3. \A x \in OnTerminal(IdlePlots(Asked("idle", FALSE))) : x.req.group = "idle"
  BY <1>2 DEF IdlePlots, OnTerminal
<1>4. ASSUME ~Saving, NEW g, NEW x \in BothShown(g)
      PROVE  x.req.group = g
  <2>1. PICK running \in BOOLEAN : x \in Shown(g, running)
    BY <1>4 DEF BothShown
  <2>2. x \in OnTerminal({<<r, Plot(r, t)>> : r \in Asked(g, running), t \in Left(g, running)})
    BY <1>4, <2>1, NotSaving DEF Shown
  <2>3. x.req \in Asked(g, running)
    BY <2>2 DEF OnTerminal, Output
  <2> QED
    BY <2>3, AskedGroup
<1> QED
  BY <1>1, <1>2, <1>3, <1>4

LEMMA OutInvInit == Init => OutInv
<1> SUFFICES ASSUME Init PROVE OutInv
  OBVIOUS
<1>1. PICK a \in Requests, b \in Requests : args.given = {a, b}
  BY DEF Init
<1>2. ArgsOK
  BY <1>1 DEF ArgsOK
<1>3. group = 0 /\ raised = FALSE /\ out = {}
  BY DEF Init
<1>4. FreqDone /\ SignalsDone
  BY <1>3, GroupNames DEF FreqDone, SignalsDone
<1>5. NoneLost /\ (raised => group # 0)
  BY <1>3 DEF NoneLost
<1>6. group \in 0..DONE
  BY <1>3, GroupNames
<1> QED
  BY <1>2, <1>4, <1>5, <1>6 DEF OutInv

\* Nothing main() asks is changed by what it shows.
LEMMA AskedKept ==
  ASSUME args' = args, freq' = freq
  PROVE  /\ Saving' <=> Saving
         /\ ArgsOK' <=> ArgsOK
         /\ FreqPlots(Asked("freq", FALSE))' = FreqPlots(Asked("freq", FALSE))
         /\ \A g : BothShown(g)' = BothShown(g)
<1>1. \A g, running : Asked(g, running)' = Asked(g, running)
  BY DEF Asked
<1>2. WithData' = WithData /\ clusters' = clusters
  <2>1. WithData' = WithData
    BY DEF WithData
  <2>2. Policy' = Policy
    BY DEF Policy
  <2> QED
    BY <2>1, <2>2 DEF clusters, nr_cpus
<1>3. FreqPlots(Asked("freq", FALSE))' = FreqPlots(Asked("freq", FALSE))
  <2>1. Asked("freq", FALSE)' = Asked("freq", FALSE)
    BY <1>1
  <2> DEFINE PlotsOf(asked, c, w) ==
               {<<r, CpuPlot(d)>> : r \in {q \in asked : HasPng(q)}, d \in c \cap w}
                 \cup {<<r, NoPlot>> : r \in {q \in asked : ~HasPng(q) /\ w # {}}}
  <2>2. FreqPlots(Asked("freq", FALSE)) = PlotsOf(Asked("freq", FALSE), clusters, WithData)
    BY DEF FreqPlots
  <2>3. FreqPlots(Asked("freq", FALSE))' = PlotsOf(Asked("freq", FALSE)', clusters', WithData')
    BY DEF FreqPlots, HasPng, CpuPlot, NoPlot
  <2> HIDE DEF PlotsOf
  <2> QED
    BY <1>2, <2>1, <2>2, <2>3
<1>4. \A g, running : Shown(g, running)' = Shown(g, running)
  BY DEF Shown, Enters, SaveRaises, Medium, ShowTui, Asked, HasPng, Output, Plot, Filtered,
               Left, Found, Matches, Tracks, TrackOf, TaskSignals, CpuSignals, NAME_MAX
<1> QED
  BY <1>3, <1>4 DEF Saving, ArgsOK, BothShown

\* Only an idle option fails without --save-csv and --save-png, or the last
\* group.
LEMMA RaisesSaving ==
  ASSUME Next
  PROVE  NoneLost' /\ group' # 0
<1>0. UNCHANGED <<args, idle>>
  BY DEF Next, DoFreq, DoIdle, DoSignal, DoSched
<1>1. group' # 0
  <2>1. CASE DoFreq \/ DoIdle
    <3>1. group' \in {1, 2}
      BY <2>1 DEF DoFreq, DoIdle
    <3> QED
      BY <3>1
  <2>2. CASE DoSignal
    <3>1. group \in 2..11 /\ group' = group + 1
      BY <2>2, GroupNames DEF DoSignal
    <3> QED
      BY <3>1
  <2>3. CASE DoSched
    BY <2>3, GroupNames DEF DoSched
  <2> QED
    BY <2>1, <2>2, <2>3 DEF Next
<1> SUFFICES ASSUME raised', ~Saving, group' # DONE
             PROVE  Gap /\ Asked("idle", FALSE) # {}
  <2>1. (Gap /\ Asked("idle", FALSE) # {})' <=> Gap /\ Asked("idle", FALSE) # {}
    BY <1>0 DEF Gap, Asked
  <2>2. Saving' <=> Saving
    BY <1>0 DEF Saving
  <2> QED
    BY <1>1, <2>1, <2>2 DEF NoneLost
<1>2. CASE DoFreq
  BY <1>2, NotSaving DEF DoFreq
<1>3. CASE DoSignal
  BY <1>3, NotSaving DEF DoSignal
<1>4. CASE DoIdle
  BY <1>4 DEF DoIdle, IdleRaises
<1>5. CASE DoSched
  BY <1>5 DEF DoSched
<1> QED
  BY <1>2, <1>3, <1>4, <1>5 DEF Next

LEMMA FreqStep ==
  ASSUME OutInv, ~Saving, DoFreq
  PROVE  FreqDone' /\ SignalsDone'
<1> DEFINE F == OnTerminal(FreqPlots(Asked("freq", FALSE)))
<1>1. group = 0 /\ group' = 1 /\ args' = args /\ freq' = freq
  BY DEF DoFreq
<1>2. out' = out \cup F
  <2>1. CASE Asked("freq", FALSE) = {}
    <3>1. FreqPlots(Asked("freq", FALSE)) = {}
      BY <2>1, PlotsOfAsked
    <3>2. F = {}
      BY <3>1 DEF OnTerminal
    <3> QED
      BY <2>1, <3>2 DEF DoFreq
  <2>2. CASE Asked("freq", FALSE) # {}
    BY <2>2, NotSaving DEF DoFreq
  <2> QED
    BY <2>1, <2>2
<1>3. \A x \in F : x.req.group = "freq"
  BY OwnGroup
<1>4. F' = F
  <2>1. FreqPlots(Asked("freq", FALSE))' = FreqPlots(Asked("freq", FALSE))
    BY <1>1, AskedKept
  <2> QED
    BY <2>1 DEF OnTerminal, Output
<1> HIDE DEF F
<1>5. \A x : x \in out => x.req.group # "freq"
  BY <1>1 DEF OutInv, FreqDone
<1>6. FreqDone'
  <2>1. \A x : x \in out' /\ x.req.group = "freq" <=> group' > 0 /\ x \in F'
    BY <1>1, <1>2, <1>3, <1>4, <1>5
  <2> QED
    BY <2>1 DEF FreqDone, F
<1>7. \A x : x \in out => x.req.group \notin SignalNames
  <2>1. \A k \in 1..Len(SignalGroups) : ~(k + 1 < group)
    BY <1>1
  <2> QED
    BY <2>1 DEF OutInv, SignalsDone
<1>8. \A x : x \in out' => x.req.group \notin SignalNames
  BY <1>2, <1>3, <1>7, GroupNames
<1>9. \A k \in 1..Len(SignalGroups) : ~(k + 1 < group')
  BY <1>1, GroupNames
<1> QED
  BY <1>6, <1>8, <1>9 DEF SignalsDone, SignalNames

\* A group that belongs to neither.
LEMMA OtherStep ==
  ASSUME OutInv, ~Saving, args' = args, freq' = freq, group' = group + 1,
         group \in {1, SCHED}, NEW X, out' = out \cup X,
         \A x \in X : x.req.group \in {"idle", "sched"}
  PROVE  FreqDone' /\ SignalsDone'
<1> DEFINE F == OnTerminal(FreqPlots(Asked("freq", FALSE)))
<1>1. FreqPlots(Asked("freq", FALSE))' = FreqPlots(Asked("freq", FALSE)) /\ \A g : BothShown(g)' = BothShown(g)
  BY AskedKept
<1>2. F' = F
  BY <1>1 DEF OnTerminal, Output
<1> HIDE DEF F
<1>3. \A x \in X : x.req.group # "freq" /\ x.req.group \notin SignalNames
  BY GroupNames
<1>4. group > 0 /\ group' > 0
  BY GroupNames
<1>5. FreqDone'
  <2>1. \A x : x \in out /\ x.req.group = "freq" <=> group > 0 /\ x \in F
    BY DEF OutInv, FreqDone, F
  <2>2. \A x : x \in out' /\ x.req.group = "freq" <=> group' > 0 /\ x \in F'
    BY <1>2, <1>3, <1>4, <2>1
  <2> QED
    BY <2>2 DEF FreqDone, F
<1>6. \A k \in 1..Len(SignalGroups) : k + 1 < group' <=> k + 1 < group
  BY GroupNames
<1>7. SignalsDone'
  <2>1. \A x : x \in out /\ x.req.group \in SignalNames <=>
           \E k \in 1..Len(SignalGroups) : k + 1 < group /\ x \in BothShown(SignalGroups[k])
    BY DEF OutInv, SignalsDone
  <2>2. \A x : x \in out' /\ x.req.group \in SignalNames <=>
           \E k \in 1..Len(SignalGroups) : k + 1 < group' /\ x \in BothShown(SignalGroups[k])'
    BY <1>1, <1>3, <1>6, <2>1
  <2> QED
    BY <2>2 DEF SignalsDone, SignalNames
<1> QED
  BY <1>5, <1>7

LEMMA SignalStep ==
  ASSUME OutInv, ~Saving, DoSignal
  PROVE  FreqDone' /\ SignalsDone'
<1> DEFINE F == OnTerminal(FreqPlots(Asked("freq", FALSE)))
           g == SignalGroups[group - 1]
<1>1. /\ group \in 2..11 /\ group' = group + 1 /\ args' = args /\ freq' = freq
      /\ group - 1 \in 1..10
  BY GroupNames DEF DoSignal
<1>2. out' = out \cup BothShown(g)
  BY NotSaving DEF DoSignal, BothShown
<1>3. FreqPlots(Asked("freq", FALSE))' = FreqPlots(Asked("freq", FALSE)) /\ \A h : BothShown(h)' = BothShown(h)
  BY <1>1, AskedKept
<1>4. F' = F
  BY <1>3 DEF OnTerminal, Output
<1>5. g \in SignalNames /\ g # "freq"
  BY <1>1, GroupNames
<1>6. \A x \in BothShown(g) : x.req.group = g
  BY OwnGroup
<1> HIDE DEF F
<1>7. FreqDone'
  <2> HIDE DEF g
  <2>1. \A x : x \in out /\ x.req.group = "freq" <=> group > 0 /\ x \in F
    BY DEF OutInv, FreqDone, F
  <2>2. \A x : x \in out' /\ x.req.group = "freq" <=> group' > 0 /\ x \in F'
    BY <1>1, <1>2, <1>4, <1>5, <1>6, <2>1
  <2> QED
    BY <2>2 DEF FreqDone, F
<1>8. SignalsDone'
  <2>1. \A x : x \in out /\ x.req.group \in SignalNames <=>
           \E k \in 1..Len(SignalGroups) : k + 1 < group /\ x \in BothShown(SignalGroups[k])
    BY DEF OutInv, SignalsDone
  <2>2. group - 1 \in 1..Len(SignalGroups)
    BY <1>1, GroupNames
  <2>3. \A k \in 1..Len(SignalGroups) : k + 1 < group' <=> k + 1 < group \/ k = group - 1
    BY <1>1, GroupNames
  <2>4. \A x : x \in out' /\ x.req.group \in SignalNames <=>
           \/ \E k \in 1..Len(SignalGroups) : k + 1 < group /\ x \in BothShown(SignalGroups[k])
           \/ x \in BothShown(SignalGroups[group - 1])
    BY <1>2, <1>5, <1>6, <2>1
  <2>5. \A x : x \in out' /\ x.req.group \in SignalNames <=>
           \E k \in 1..Len(SignalGroups) : k + 1 < group' /\ x \in BothShown(SignalGroups[k])
    BY <2>2, <2>3, <2>4, Zenon
  <2>6. \A x : x \in out' /\ x.req.group \in SignalNames <=>
           \E k \in 1..Len(SignalGroups) : k + 1 < group' /\ x \in BothShown(SignalGroups[k])'
    BY <1>3, <2>5
  <2> QED
    BY <2>6 DEF SignalsDone, SignalNames
<1> QED
  BY <1>7, <1>8

LEMMA OutInvInductive == OutInv /\ [Next]_vars => OutInv'
<1> SUFFICES ASSUME OutInv, [Next]_vars PROVE OutInv'
  OBVIOUS
<1>1. ASSUME Next PROVE OutInv'
  <2>1. args' = args /\ freq' = freq
    BY <1>1 DEF Next, DoFreq, DoIdle, DoSignal, DoSched
  <2>2. ArgsOK' /\ (Saving' <=> Saving)
    BY <2>1, AskedKept DEF OutInv
  <2>3. group' \in 0..DONE
    <3>1. CASE DoFreq \/ DoIdle
      <4>1. group' \in {1, 2}
        BY <3>1 DEF DoFreq, DoIdle
      <4> QED
        BY <4>1, GroupNames
    <3>2. CASE DoSignal
      <4>1. group \in 2..11 /\ group' = group + 1
        BY <3>2, GroupNames DEF DoSignal
      <4> QED
        BY <4>1, GroupNames
    <3>3. CASE DoSched
      BY <3>3, GroupNames DEF DoSched
    <3> QED
      BY <1>1, <3>1, <3>2, <3>3 DEF Next
  <2>4. NoneLost' /\ group' # 0
    BY <1>1, RaisesSaving
  <2>5. ASSUME ~Saving PROVE FreqDone' /\ SignalsDone'
    <3>1. CASE DoFreq
      BY <2>5, <3>1, FreqStep
    <3>2. CASE DoIdle
      <4> DEFINE A == Asked("idle", FALSE)
                 X == IF A = {} \/ IdleRaises(A) THEN {} ELSE OnTerminal(IdlePlots(A))
      <4>1. out' = out \cup X
        BY <2>5, <3>2, NotSaving DEF DoIdle
      <4>2. \A x \in X : x.req.group \in {"idle", "sched"}
        BY OwnGroup
      <4>3. group = 1 /\ group' = group + 1
        BY <3>2 DEF DoIdle
      <4> HIDE DEF X
      <4> QED
        BY <2>1, <2>5, <4>1, <4>2, <4>3, OtherStep
    <3>3. CASE DoSignal
      BY <2>5, <3>3, SignalStep
    <3>4. CASE DoSched
      <4> DEFINE whole == IF Asked("sched", FALSE) = {} THEN {} ELSE OnTerminal(One(Asked("sched", FALSE)))
      <4>1. PICK X \in SUBSET whole : out' = out \cup X
        BY <2>5, <3>4, NotSaving DEF DoSched
      <4>2. \A x \in X : x.req.group \in {"idle", "sched"}
        BY OwnGroup
      <4>3. group = SCHED /\ group' = group + 1
        BY <3>4 DEF DoSched, DONE
      <4> HIDE DEF whole
      <4> QED
        BY <2>1, <2>5, <4>1, <4>2, <4>3, OtherStep
    <3> QED
      BY <1>1, <3>1, <3>2, <3>3, <3>4 DEF Next
  <2> QED
    BY <2>2, <2>3, <2>4, <2>5 DEF OutInv
<1>2. ASSUME UNCHANGED vars PROVE OutInv'
  <2>1. /\ args' = args /\ freq' = freq /\ idle' = idle
        /\ group' = group /\ raised' = raised /\ out' = out
    BY <1>2 DEF vars
  <2>2. /\ ArgsOK' /\ (Saving' <=> Saving)
        /\ FreqPlots(Asked("freq", FALSE))' = FreqPlots(Asked("freq", FALSE))
        /\ \A g : BothShown(g)' = BothShown(g)
    BY <2>1, AskedKept DEF OutInv
  <2>3. NoneLost'
    BY <2>1, <2>2 DEF OutInv, NoneLost, Gap, Asked, SCHED, DONE
  <2>4. FreqDone' <=> FreqDone
    <3>1. OnTerminal(FreqPlots(Asked("freq", FALSE)))' = OnTerminal(FreqPlots(Asked("freq", FALSE)))
      BY <2>2 DEF OnTerminal, Output
    <3> QED
      BY <2>1, <3>1 DEF FreqDone
  <2>5. SignalsDone' <=> SignalsDone
    BY <2>1, <2>2 DEF SignalsDone, SignalNames
  <2>6. group' \in 0..DONE /\ (raised' => group' # 0)
    BY <2>1 DEF OutInv
  <2> QED
    BY <2>2, <2>3, <2>4, <2>5, <2>6 DEF OutInv
<1> QED
  BY <1>1, <1>2

LEMMA OutputSoFar == Spec => []OutInv
BY OutInvInit, OutInvInductive, PTL DEF Spec

\* The "except: pass" of main() in sched-analyzer-pp.py: on the terminal it
\* costs no group but those after an idle option, and these only when the
\* numbers of the CPUs with idle data have gaps.
THEOREM NoGroupLost == Spec => []NoneLost
<1>1. OutInv => NoneLost
  BY DEF OutInv
<1> QED
  BY <1>1, OutputSoFar, PTL

-----------------------------------------------------------------------------
(* Frequencies and signals on the terminal.                                *)

LEMMA RequestShape ==
  ASSUME ArgsOK, NEW r \in args.given
  PROVE  /\ r.group = "freq" => ~r.running /\ r.running \in BOOLEAN
         /\ r.group \in SignalNames => r.group \in Signals /\ r.running \in BOOLEAN
<1>0. Signals \subseteq SignalNames
  BY SignalsAssumption DEF SignalNames
<1>1. r \in Requests
  BY DEF ArgsOK
<1>2. CASE \E kind \in FreqKinds : r = Request("freq", FALSE, kind)
  <2>1. r.group = "freq" /\ r.running = FALSE
    BY <1>2 DEF Request
  <2> QED
    BY <2>1, GroupNames
<1>3. CASE \E kind \in {"residency", "residency_abs"} : r = Request("idle", FALSE, kind)
  <2>1. r.group = "idle"
    BY <1>3 DEF Request
  <2> QED
    BY <2>1, GroupNames
<1>4. CASE \E kind \in {"report", "states", "states_parent"} : r = Request("sched", FALSE, kind)
  <2>1. r.group = "sched"
    BY <1>4 DEF Request
  <2> QED
    BY <2>1, GroupNames
<1>5. CASE \E g \in Signals, running \in BOOLEAN, kind \in Kinds : r = Request(g, running, kind)
  <2>1. r.group \in Signals /\ r.running \in BOOLEAN
    BY <1>5 DEF Request
  <2> QED
    BY <1>0, <2>1, GroupNames
<1>6. \/ \E kind \in FreqKinds : r = Request("freq", FALSE, kind)
      \/ \E kind \in {"residency", "residency_abs"} : r = Request("idle", FALSE, kind)
      \/ r \in SignalRequests
      \/ \E kind \in {"report", "states", "states_parent"} : r = Request("sched", FALSE, kind)
  <2> HIDE DEF SignalRequests
  <2> QED
    BY <1>1 DEF Requests
<1>7. r \in SignalRequests <=> \E g \in Signals, running \in BOOLEAN, kind \in Kinds : r = Request(g, running, kind)
  BY DEF SignalRequests
<1> QED
  BY <1>2, <1>3, <1>4, <1>5, <1>6, <1>7

LEMMA OutDone ==
  ASSUME OutInv, ~Saving
  PROVE  FreqDone /\ SignalsDone
BY DEF OutInv

LEMMA EndedHasOutput ==
  ASSUME OutInv, Ended, ~Saving
  PROVE  group > 0 /\ FreqDone /\ SignalsDone
BY GroupNames DEF OutInv, Ended

\* An option is plotted for the clusters that have data.
LEMMA PlottedAreClusters ==
  ASSUME OutInv, Ended, ~Saving, NEW r \in args.given, r.group = "freq", HasPng(r)
  PROVE  FreqPlotted(r) = clusters \cap WithData
<1>1. FreqDone /\ group > 0
  BY EndedHasOutput
<1>2. r \in Asked("freq", FALSE)
  BY RequestShape DEF OutInv, Asked
<1>3. ASSUME NEW o \in out, o.req = r
      PROVE  o.plot.owner.id \in clusters \cap WithData
  <2>1. o \in OnTerminal(FreqPlots(Asked("freq", FALSE)))
    BY <1>1, <1>3 DEF FreqDone
  <2>2. PICK y \in FreqPlots(Asked("freq", FALSE)) : o = Output(y[1], "tui", y[2])
    BY <2>1 DEF OnTerminal
  <2>3. y[1] = r /\ o.plot = y[2]
    BY <1>3, <2>2 DEF Output
  <2> DEFINE A == Asked("freq", FALSE)
  <2> HIDE DEF A
  <2>4. \/ \E q \in {x \in A : HasPng(x)}, c \in clusters \cap WithData : y = <<q, CpuPlot(c)>>
        \/ \E q \in {x \in A : ~HasPng(x) /\ WithData # {}} : y = <<q, NoPlot>>
    BY <2>2, FreqPlotsAre DEF A
  <2>5. \E c \in clusters \cap WithData : y[2] = CpuPlot(c)
    BY <2>3, <2>4
  <2> QED
    BY <2>3, <2>5 DEF CpuPlot
<1>4. ASSUME NEW c \in clusters \cap WithData
      PROVE  \E o \in out : o.req = r /\ o.plot.owner.id = c
  <2> DEFINE o == Output(r, "tui", CpuPlot(c))
             y == <<r, CpuPlot(c)>>
  <2>1. y \in FreqPlots(Asked("freq", FALSE))
    <3>1. r \in {q \in Asked("freq", FALSE) : HasPng(q)}
      BY <1>2
    <3> QED
      BY <3>1, FreqPlotsAre
  <2>2. o = Output(y[1], "tui", y[2])
    OBVIOUS
  <2>3. o \in OnTerminal(FreqPlots(Asked("freq", FALSE)))
    BY <2>1, <2>2 DEF OnTerminal
  <2>4. o.req = r /\ o.plot.owner.id = c
    BY DEF Output, CpuPlot
  <2> QED
    BY <1>1, <2>3, <2>4 DEF FreqDone
<1>5. FreqPlotted(r) = {o.plot.owner.id : o \in {x \in out : x.req = r}}
  BY DEF FreqPlotted
<1> QED
  BY <1>3, <1>4, <1>5

LEMMA PoliciesFromInv == OutInv => EveryPolicyPlotted
<1> SUFFICES ASSUME OutInv, Ended, ~Saving, WithData = 0..(nr_cpus - 1),
                    NEW r \in args.given, r.group = "freq", HasPng(r)
             PROVE  /\ \A c \in WithData : \E d \in FreqPlotted(r) : freq[d] = freq[c]
                    /\ \A c \in WithData : c > 0 /\ freq[c] = freq[c - 1] => c \notin FreqPlotted(r)
  BY DEF EveryPolicyPlotted
<1>1. FreqPlotted(r) = clusters \cap WithData
  BY PlottedAreClusters
<1>2. clusters = {0} \cup {Policy[c] : c \in WithData}
  BY DEF clusters
<1>3. \A c \in WithData : c \in FreqCpus /\ freq[c] # NoData
  BY DEF WithData
<1>4. ASSUME NEW c \in WithData
      PROVE  \E d \in FreqPlotted(r) : freq[d] = freq[c]
  <2>1. Policy[c] \in 0..c /\ freq[Policy[c]] = freq[c]
    BY <1>3, PolicyProperties
  <2>2. Policy[c] \in FreqCpus
    BY <1>3, <2>1, PostProcessAssumption DEF FreqCpus
  <2>3. Policy[c] \in WithData
    BY <1>3, <2>1, <2>2 DEF WithData
  <2> QED
    BY <1>1, <1>2, <2>1, <2>3
<1>5. ASSUME NEW c \in WithData, c > 0, freq[c] = freq[c - 1]
      PROVE  c \notin FreqPlotted(r)
  <2> SUFFICES ASSUME c \in clusters PROVE FALSE
    BY <1>1
  <2>1. PICK e \in WithData : c = Policy[e]
    <3>1. c # 0
      BY <1>3, <1>5, PostProcessAssumption DEF FreqCpus
    <3> QED
      BY <1>2, <3>1
  <2>2. Policy[c] = c
    BY <1>3, <2>1, PolicyProperties
  <2> QED
    BY <1>3, <1>5, <2>2, SameAsNeighbour
<1> QED
  BY <1>4, <1>5

\* __find_clusters() of freq.py: one plot for each frequency policy.
THEOREM PoliciesPlotted == Spec => []EveryPolicyPlotted
BY OutputSoFar, PoliciesFromInv, PTL

\* The query finds the track of an owner when the name was not cut too short.
LEMMA SignalLengths ==
  /\ \A s \in DOMAIN TaskSignals : TaskSignals[s] \in Nat
  /\ \A s \in DOMAIN CpuSignals : CpuSignals[s] \in 8..17
  /\ "util_est" \notin DOMAIN TaskSignals /\ "util_est" \notin DOMAIN CpuSignals
  /\ "util_est_enqueued" \in DOMAIN TaskSignals /\ TaskSignals["util_est_enqueued"] = 17
  /\ "util_est_enqueued" \in DOMAIN CpuSignals /\ CpuSignals["util_est_enqueued"] = 17
BY DEF TaskSignals, CpuSignals

\* What is queried is what is left of the name.
LEMMA MatchesTrack ==
  ASSUME NEW o, o.len \in Nat, NEW s, NEW len \in Nat, NEW g
  PROVE  Matches(TrackOf(o, s, len), g) <=>
           IF g = "util_est" THEN s = "util_est_enqueued" /\ (len >= 12 /\ o.len + 13 <= NAME_MAX)
                             ELSE s = g /\ o.len + 1 + len <= NAME_MAX
<1> DEFINE t == TrackOf(o, s, len)
<1>1. /\ t.sig = s /\ t.len = len
      /\ t.shown = IF o.len + 1 + len > NAME_MAX THEN NAME_MAX - o.len - 1 ELSE len
  BY DEF TrackOf
<1> HIDE DEF t
<1>2. Matches(t, g) <=> IF g = "util_est" THEN t.sig = "util_est_enqueued" /\ t.shown >= 12
                                           ELSE t.sig = g /\ t.shown = t.len
  BY DEF Matches
<1>3. t.shown >= 12 <=> len >= 12 /\ o.len + 13 <= NAME_MAX
  BY <1>1 DEF NAME_MAX
<1>4. t.shown = t.len <=> o.len + 1 + len <= NAME_MAX
  BY <1>1 DEF NAME_MAX
<1>5. Matches(t, g) <=> IF g = "util_est" THEN s = "util_est_enqueued" /\ (len >= 12 /\ o.len + 13 <= NAME_MAX)
                                           ELSE s = g /\ o.len + 1 + len <= NAME_MAX
  BY <1>1, <1>2, <1>3, <1>4
<1> QED
  BY <1>5 DEF t

LEMMA FoundAreNamed ==
  ASSUME NEW r, NEW t \in Found(r.group)
  PROVE  t.owner \in Owners /\ Named(r, t.owner)
<1> DEFINE g == r.group
<1>1. t \in Tracks /\ Matches(t, g)
  BY DEF Found
<1> HIDE DEF g
<1>2. CASE \E o \in {p \in Owners : p.task}, s \in DOMAIN TaskSignals : t = TrackOf(o, s, TaskSignals[s])
  <2>1. PICK o \in {p \in Owners : p.task}, s \in DOMAIN TaskSignals : t = TrackOf(o, s, TaskSignals[s])
    BY <1>2
  <2>2. o \in Owners /\ o.task /\ o.len \in Nat /\ TaskSignals[s] \in Nat
    BY PostProcessAssumption, SignalLengths
  <2>3. t.owner = o
    BY <2>1 DEF TrackOf
  <2>4. IF g = "util_est" THEN o.len + 13 <= NAME_MAX
                          ELSE s = g /\ o.len + 1 + TaskSignals[s] <= NAME_MAX
    BY <1>1, <2>1, <2>2, MatchesTrack
  <2>5. g \in {"util_est"} \cup DOMAIN TaskSignals /\ o.len + 1 + QueriedLen(g) <= NAME_MAX
    BY <2>2, <2>4 DEF QueriedLen
  <2> QED
    BY <2>2, <2>3, <2>5 DEF Named, g
<1>3. CASE \E o \in {p \in Owners : ~p.task}, s \in DOMAIN CpuSignals : t = TrackOf(o, s, CpuSignals[s])
  <2>1. PICK o \in {p \in Owners : ~p.task}, s \in DOMAIN CpuSignals : t = TrackOf(o, s, CpuSignals[s])
    BY <1>3
  <2>2. o \in Owners /\ ~o.task /\ o.len \in Nat /\ CpuSignals[s] \in Nat
    BY PostProcessAssumption, SignalLengths
  <2>3. t.owner = o
    BY <2>1 DEF TrackOf
  <2>4. g = "util_est" \/ s = g
    BY <1>1, <2>1, <2>2, MatchesTrack
  <2> QED
    BY <2>2, <2>3, <2>4 DEF Named, g
<1> QED
  BY <1>1, <1>2, <1>3 DEF Tracks

LEMMA NamedAreFound ==
  ASSUME NEW r, NEW o \in Owners, Named(r, o)
  PROVE  \E t \in Found(r.group) : t.owner = o
<1> DEFINE g == r.group
           s == IF g = "util_est" THEN "util_est_enqueued" ELSE g
<1>0. o.task \in BOOLEAN /\ o.len \in Nat /\ (~o.task => o.len \in 4..13)
  BY PostProcessAssumption
<1>1. CASE o.task
  <2>1. g \in {"util_est"} \cup DOMAIN TaskSignals /\ o.len + 1 + QueriedLen(g) <= NAME_MAX
    BY <1>1 DEF Named
  <2> HIDE DEF g
  <2>2. s \in DOMAIN TaskSignals /\ TaskSignals[s] \in Nat
    BY <2>1, SignalLengths
  <2> DEFINE t == TrackOf(o, s, TaskSignals[s])
  <2>3. t \in Tracks
    BY <1>1, <2>2 DEF Tracks
  <2>4. IF g = "util_est" THEN TaskSignals[s] >= 12 /\ o.len + 13 <= NAME_MAX
                          ELSE o.len + 1 + TaskSignals[s] <= NAME_MAX
    BY <1>0, <2>1, SignalLengths DEF QueriedLen
  <2>5. Matches(t, g)
    BY <1>0, <2>2, <2>4, MatchesTrack
  <2>6. t.owner = o
    BY DEF TrackOf
  <2> QED
    BY <2>3, <2>5, <2>6 DEF Found, g
<1>2. CASE ~o.task
  <2>1. g \in {"util_est"} \cup DOMAIN CpuSignals
    BY <1>2 DEF Named
  <2> HIDE DEF g
  <2>2. s \in DOMAIN CpuSignals /\ CpuSignals[s] \in 8..17
    BY <2>1, SignalLengths
  <2> DEFINE t == TrackOf(o, s, CpuSignals[s])
  <2>3. t \in Tracks
    BY <1>2, <2>2 DEF Tracks
  <2>4. IF g = "util_est" THEN CpuSignals[s] >= 12 /\ o.len + 13 <= NAME_MAX
                          ELSE o.len + 1 + CpuSignals[s] <= NAME_MAX
    <3>1. o.len \in 4..13 /\ NAME_MAX = 31
      BY <1>0, <1>2 DEF NAME_MAX
    <3> QED
      BY <2>2, <3>1, SignalLengths
  <2>5. Matches(t, g)
    <3>1. CpuSignals[s] \in Nat
      BY <2>2
    <3> QED
      BY <1>0, <2>4, <3>1, MatchesTrack
  <2>6. t.owner = o
    BY DEF TrackOf
  <2> QED
    BY <2>3, <2>5, <2>6 DEF Found, g
<1> QED
  BY <1>0, <1>1, <1>2

\* What an option for a signal shows of an owner.
Wanted(r, o) ==
  /\ r.group \in Signals /\ ~AloneAbs(r) /\ Named(r, o)
  /\ Narrowed(r, o) => o.states = "ran"
PlotOf(r, o) == [owner |-> o, filtered |-> Narrowed(r, o)]

LEMMA PlotIsOfOwner ==
  ASSUME NEW r, NEW t
  PROVE  Plot(r, t) = PlotOf(r, t.owner)
<1>1. (r.running /\ Filtered(t)) = Narrowed(r, t.owner)
  BY DEF Filtered, Narrowed
<1> QED
  BY <1>1 DEF Plot, PlotOf

\* A task is left out when its values are narrowed to none.
LEMMA LeftIs ==
  ASSUME NEW r, NEW t \in Found(r.group), t.owner \in Owners
  PROVE  t \in Left(r.group, r.running) <=> (Narrowed(r, t.owner) => t.owner.states = "ran")
<1>1. t.owner.states \in {"none", "never", "ran"}
  BY PostProcessAssumption DEF States
<1>2. t \in Left(r.group, r.running) <=> (r.running => ~(Filtered(t) /\ t.owner.states = "never"))
  BY DEF Left
<1> QED
  BY <1>1, <1>2 DEF Narrowed, Filtered

LEMMA ShownIs ==
  ASSUME ~Saving, NEW g, NEW running, NEW x
  PROVE  x \in Shown(g, running) <=>
           Enters(g, running) /\ \E r \in Asked(g, running), t \in Left(g, running) : x = Output(r, "tui", Plot(r, t))
<1> DEFINE A == Asked(g, running)
           P == {<<r, Plot(r, t)>> : r \in A, t \in Left(g, running)}
<1>1. Shown(g, running) = IF Enters(g, running) THEN OnTerminal(P) ELSE {}
  BY NotSaving DEF Shown
<1> HIDE DEF A
<1>2. x \in OnTerminal(P) <=> \E y \in P : x = Output(y[1], "tui", y[2])
  BY DEF OnTerminal
<1>3. \A y : y \in P <=> \E r \in A, t \in Left(g, running) : y = <<r, Plot(r, t)>>
  OBVIOUS
<1> HIDE DEF P
<1>4. ASSUME NEW y \in P, x = Output(y[1], "tui", y[2])
      PROVE  \E r \in A, t \in Left(g, running) : x = Output(r, "tui", Plot(r, t))
  <2>1. PICK r \in A, t \in Left(g, running) : y = <<r, Plot(r, t)>>
    BY <1>3
  <2>2. y[1] = r /\ y[2] = Plot(r, t)
    BY <2>1
  <2> QED
    BY <1>4, <2>2
<1>5. ASSUME NEW r \in A, NEW t \in Left(g, running), x = Output(r, "tui", Plot(r, t))
      PROVE  \E y \in P : x = Output(y[1], "tui", y[2])
  <2> DEFINE y == <<r, Plot(r, t)>>
  <2>1. y \in P /\ y[1] = r /\ y[2] = Plot(r, t)
    BY <1>3
  <2> QED
    BY <1>5, <2>1
<1> QED
  BY <1>1, <1>2, <1>4, <1>5 DEF A

\* Nothing is shown that no option asks for.
LEMMA ShownIsWanted ==
  ASSUME OutInv, group = DONE, ~Saving, NEW x \in out, x.req.group \in Signals
  PROVE  \E o \in Owners : /\ x.req \in args.given /\ Wanted(x.req, o)
                           /\ x.plot = PlotOf(x.req, o)
<1>1. x.req.group \in SignalNames
  BY SignalsAssumption DEF SignalNames
<1>2. PICK k \in 1..Len(SignalGroups) : x \in BothShown(SignalGroups[k])
  BY <1>1, OutDone DEF SignalsDone
<1> DEFINE g == SignalGroups[k]
<1> HIDE DEF g
<1>3. PICK running \in BOOLEAN : x \in Shown(g, running)
  BY <1>2 DEF BothShown, g
<1>4. PICK r \in Asked(g, running), t \in Left(g, running) : x = Output(r, "tui", Plot(r, t))
  BY <1>3, ShownIs
<1>5. x.req = r /\ x.plot = PlotOf(r, t.owner)
  BY <1>4, PlotIsOfOwner DEF Output
<1>6. r \in args.given /\ r.group = g /\ r.running = running
  BY AskedGroup
<1>7. /\ t \in Found(r.group) /\ t.owner \in Owners /\ Named(r, t.owner)
      /\ Narrowed(r, t.owner) => t.owner.states = "ran"
  <2>1. t \in Found(r.group) /\ t \in Left(r.group, r.running)
    BY <1>6 DEF Left
  <2>2. t.owner \in Owners /\ Named(r, t.owner)
    BY <2>1, FoundAreNamed
  <2> QED
    BY <2>1, <2>2, LeftIs
<1>8. ~AloneAbs(r)
  <2>1. PICK q \in Asked(g, running) : q.kind # "residency_abs"
    BY <1>3, ShownIs DEF Enters
  <2>2. q \in args.given /\ q.group = r.group /\ q.running = r.running
    BY <1>6, AskedGroup
  <2> QED
    BY <2>1, <2>2 DEF AloneAbs
<1> QED
  BY <1>5, <1>6, <1>7, <1>8 DEF Wanted

\* Everything an option asks for is shown.
LEMMA WantedIsShown ==
  ASSUME OutInv, group = DONE, ~Saving, NEW r \in args.given, NEW o \in Owners, Wanted(r, o)
  PROVE  Output(r, "tui", PlotOf(r, o)) \in out
<1> DEFINE x == Output(r, "tui", PlotOf(r, o))
<1>1. r.group \in SignalNames /\ r.running \in BOOLEAN
  <2>1. r.group \in SignalNames
    BY SignalsAssumption DEF Wanted, SignalNames
  <2> QED
    BY <2>1, RequestShape DEF OutInv
<1>2. PICK k \in 1..Len(SignalGroups) : r.group = SignalGroups[k]
  BY <1>1 DEF SignalNames
<1>3. r \in Asked(r.group, r.running)
  BY DEF Asked
<1>4. Enters(r.group, r.running)
  <2>1. PICK q \in args.given : q.group = r.group /\ q.running = r.running /\ q.kind # "residency_abs"
    BY DEF Wanted, AloneAbs
  <2>2. q \in Asked(r.group, r.running)
    BY <2>1 DEF Asked
  <2> QED
    BY <2>1, <2>2 DEF Enters
<1>5. PICK t \in Found(r.group) : t.owner = o
  BY NamedAreFound DEF Wanted
<1>6. x = Output(r, "tui", Plot(r, t)) /\ t \in Left(r.group, r.running)
  BY <1>5, PlotIsOfOwner, LeftIs DEF Wanted
<1>7. x \in Shown(r.group, r.running)
  BY <1>3, <1>4, <1>6, ShownIs
<1>8. x \in BothShown(SignalGroups[k])
  <2>1. r.running = TRUE \/ r.running = FALSE
    BY <1>1
  <2> HIDE DEF x
  <2> QED
    BY <1>2, <1>7, <2>1 DEF BothShown
<1>9. group = 13 /\ k + 1 < 13
  BY GroupNames
<1> HIDE DEF x
<1>10. x \in out
  BY <1>8, <1>9, OutDone DEF SignalsDone
<1> QED
  BY <1>10 DEF x

LEMMA ShownFromInv == OutInv => ShownAsAsked
<1> DEFINE L == {<<o.req, o.plot>> : o \in {x \in out : x.req.group \in Signals}}
           R == {<<x[1], [owner |-> x[2], filtered |-> Narrowed(x[1], x[2])]>> :
                   x \in {y \in args.given \X Owners :
                           /\ y[1].group \in Signals /\ ~AloneAbs(y[1]) /\ Named(y[1], y[2])
                           /\ Narrowed(y[1], y[2]) => y[2].states = "ran"}}
<1> SUFFICES ASSUME OutInv, group = DONE, ~Saving PROVE L = R
  BY DEF ShownAsAsked
<1>1. \A z : z \in R <=> \E r \in args.given, o \in Owners : Wanted(r, o) /\ z = <<r, PlotOf(r, o)>>
  <2>1. ASSUME NEW z \in R
        PROVE  \E r \in args.given, o \in Owners : Wanted(r, o) /\ z = <<r, PlotOf(r, o)>>
    <3>1. PICK x \in args.given \X Owners :
             /\ x[1].group \in Signals /\ ~AloneAbs(x[1]) /\ Named(x[1], x[2])
             /\ Narrowed(x[1], x[2]) => x[2].states = "ran"
             /\ z = <<x[1], [owner |-> x[2], filtered |-> Narrowed(x[1], x[2])]>>
      OBVIOUS
    <3> QED
      BY <3>1 DEF Wanted, PlotOf
  <2>2. ASSUME NEW r \in args.given, NEW o \in Owners, Wanted(r, o)
        PROVE  <<r, PlotOf(r, o)>> \in R
    <3> DEFINE y == <<r, o>>
    <3>1. y \in args.given \X Owners /\ y[1] = r /\ y[2] = o
      OBVIOUS
    <3>2. /\ y[1].group \in Signals /\ ~AloneAbs(y[1]) /\ Named(y[1], y[2])
          /\ Narrowed(y[1], y[2]) => y[2].states = "ran"
      BY <2>2, <3>1 DEF Wanted
    <3>3. <<y[1], [owner |-> y[2], filtered |-> Narrowed(y[1], y[2])]>> \in R
      BY <3>1, <3>2
    <3> QED
      BY <3>3 DEF PlotOf
  <2> QED
    BY <2>1, <2>2
<1>2. \A z : z \in L <=> \E x \in out : x.req.group \in Signals /\ z = <<x.req, x.plot>>
  OBVIOUS
<1> HIDE DEF L, R
<1>3. ASSUME NEW x \in out, x.req.group \in Signals
      PROVE  <<x.req, x.plot>> \in R
  <2>1. PICK o \in Owners : x.req \in args.given /\ Wanted(x.req, o) /\ x.plot = PlotOf(x.req, o)
    BY <1>3, ShownIsWanted
  <2> QED
    BY <1>1, <2>1
<1>4. ASSUME NEW r \in args.given, NEW o \in Owners, Wanted(r, o)
      PROVE  <<r, PlotOf(r, o)>> \in L
  <2> DEFINE x == Output(r, "tui", PlotOf(r, o))
  <2>1. x \in out
    BY <1>4, WantedIsShown
  <2>2. x.req = r /\ x.plot = PlotOf(r, o)
    BY DEF Output
  <2>3. x.req.group \in Signals
    BY <1>4, <2>2 DEF Wanted
  <2> HIDE DEF x
  <2> QED
    BY <1>2, <2>1, <2>2, <2>3
<1>5. \A z : z \in L => z \in R
  BY <1>2, <1>3
<1>6. \A z : z \in R => z \in L
  BY <1>1, <1>4
<1>7. \A z : z \in L <=> z \in R
  BY <1>5, <1>6
<1> QED
  BY <1>7

\* sa_track.py: every option for a signal shows it for all that have it, and
\* of tasks it finds the states of the values at which they ran.
THEOREM SignalsShownAsAsked == Spec => []ShownAsAsked
BY OutputSoFar, ShownFromInv, PTL

-----------------------------------------------------------------------------
(* utils.py: the samples and the states of the trace.                      *)

Sample == [ts : 0..(END - 1), val : Values]
Slice == [ts : 0..(END - 1), dur : Int, running : BOOLEAN]
ByTime(s) == \A j, k \in 1..Len(s) : j < k => s[j].ts < s[k].ts

\* The frame of the task before it is reduced to the times it ran, and after.
Reduced ==
  LET f == [g \in DOMAIN Converted |-> Converted[g] * Factor(g)]
  IN  IF NoRows(f) THEN <<>> ELSE f

FrameInv ==
  /\ phase \in {"trace", "frame", "ready", "done"}
  /\ samples \in Seq(Sample) /\ ByTime(samples)
  /\ slices \in Seq(Slice) /\ ByTime(slices)
  /\ \A k \in 1..Len(slices) : k < Len(slices) => slices[k].dur = slices[k + 1].ts - slices[k].ts
  /\ ts_start \in Starts /\ ts_end \in Ends /\ parent \in BOOLEAN /\ reindex \in BOOLEAN
  /\ phase = "frame" => slices # <<>>
  /\ phase = "frame" \/ (phase \in {"ready", "done"} /\ (slices = <<>> \/ ~reindex)) => frame = Converted
  /\ phase \in {"ready", "done"} /\ slices # <<>> /\ reindex => frame = Reduced

\* A function on 1..n is a sequence of length n.
LEMMA SeqOfFcn ==
  ASSUME NEW S, NEW n \in Nat, NEW f \in [1..n -> S]
  PROVE  f \in Seq(S) /\ Len(f) = n
<1>1. f \in Seq(S)
  BY SeqDef
<1>2. Len(f) \in Nat /\ DOMAIN f = 1..Len(f)
  BY <1>1, LenProperties
<1>3. 1..n = 1..Len(f)
  BY <1>2
<1> QED
  BY <1>1, <1>2, <1>3

\* A non-empty set of numbers with a bound has a largest.
LEMMA LargestExists ==
  ASSUME NEW n \in Nat, NEW S \in SUBSET (0..n), S # {}
  PROVE  Max(S) \in S /\ \A y \in S : y <= Max(S)
<1> DEFINE T == {m \in Nat : \A y \in S : y <= m}
<1>1. n \in T
  OBVIOUS
<1>2. PICK m \in T : \A x \in T : m <= x
  BY <1>1, Smallest
<1>3. m \in S
  <2> SUFFICES ASSUME m \notin S PROVE FALSE
    OBVIOUS
  <2>1. m \in Nat /\ \A y \in S : y \in Nat /\ y <= m /\ y # m
    BY <1>2
  <2>2. PICK z \in S : TRUE
    OBVIOUS
  <2>3. m # 0 /\ m - 1 \in Nat
    BY <2>1, <2>2
  <2>4. m - 1 \in T
    BY <2>1, <2>3
  <2> QED
    BY <1>2, <2>1, <2>4
<1>4. \E x \in S : \A y \in S : x >= y
  BY <1>2, <1>3
<1>5. Max(S) \in S /\ \A y \in S : Max(S) >= y
  BY <1>4 DEF Max
<1> QED
  BY <1>5

LEMMA SmallestIsMin ==
  ASSUME NEW S \in SUBSET Nat, S # {}
  PROVE  Min(S) \in S /\ \A y \in S : Min(S) <= y
BY Smallest DEF Min

\* The entry that holds at a time is the last one not after it.
LEMMA AtProperties ==
  ASSUME NEW s, Len(s) \in Nat, \A j \in 1..Len(s) : s[j].ts \in Int, ByTime(s),
         NEW g \in Int, Before(s, g) # {}
  PROVE  \E j \in 1..Len(s) : /\ At(s, g) = s[j]
                              /\ s[j].ts <= g
                              /\ \A k \in 1..Len(s) : k > j => s[k].ts > g
<1>1. Before(s, g) \in SUBSET (0..Len(s))
  BY DEF Before
<1>2. Max(Before(s, g)) \in Before(s, g) /\ \A y \in Before(s, g) : y <= Max(Before(s, g))
  BY <1>1, LargestExists
<1> DEFINE j == Max(Before(s, g))
<1> HIDE DEF j
<1>3. j \in 1..Len(s) /\ s[j].ts <= g
  BY <1>2 DEF Before, j
<1>4. \A k \in 1..Len(s) : k > j => s[k].ts > g
  <2> TAKE k \in 1..Len(s)
  <2>1. k > j => k \notin Before(s, g)
    BY <1>2, <1>3 DEF j
  <2> QED
    BY <2>1 DEF Before
<1>5. At(s, g) = s[j]
  BY DEF At, j
<1> QED
  BY <1>3, <1>4, <1>5

LEMMA FrameInvInit == FrameInit => FrameInv
BY DEF FrameInit, FrameInv, ByTime

LEMMA SampleStep ==
  ASSUME FrameInv, NEW ts \in 0..(END - 1), NEW v \in Values, AddSample(ts, v)
  PROVE  FrameInv'
<1> DEFINE e == [ts |-> ts, val |-> v]
<1>1. /\ samples \in Seq(Sample) /\ ByTime(samples) /\ Len(samples) \in Nat
      /\ samples' = Append(samples, e) /\ ts > LastTs(samples) /\ phase = "trace" /\ phase' = "trace"
      /\ UNCHANGED <<slices, ts_start, ts_end, parent, reindex, frame>>
  BY LenProperties DEF FrameInv, AddSample, settingVars
<1>2. e \in Sample
  BY DEF Sample
<1>3. /\ samples' \in Seq(Sample) /\ Len(samples') = Len(samples) + 1
      /\ \A k \in 1..Len(samples) : samples'[k] = samples[k]
      /\ samples'[Len(samples) + 1] = e
  BY <1>1, <1>2, AppendProperties
<1>4. \A k \in 1..Len(samples) : samples[k].ts \in Int
  <2>1. \A k \in 1..Len(samples) : samples[k] \in Sample
    BY <1>1, ElementOfSeq
  <2> QED
    BY <2>1, ResidencyAssumption DEF Sample
<1>5. \A k \in 1..Len(samples) : samples[k].ts < ts
  <2> TAKE k \in 1..Len(samples)
  <2>1. LastTs(samples) = samples[Len(samples)].ts /\ Len(samples) \in 1..Len(samples)
    <3>1. samples # <<>>
      BY <1>1
    <3> QED
      BY <1>1, <3>1 DEF LastTs
  <2>2. k = Len(samples) \/ samples[k].ts < samples[Len(samples)].ts
    BY <1>1, <2>1 DEF ByTime
  <2> QED
    BY <1>1, <1>4, <2>1, <2>2
<1>6. ByTime(samples')
  <2> SUFFICES ASSUME NEW j \in 1..Len(samples'), NEW k \in 1..Len(samples'), j < k
               PROVE  samples'[j].ts < samples'[k].ts
    BY DEF ByTime
  <2>1. CASE k \in 1..Len(samples)
    <3>1. j \in 1..Len(samples)
      BY <1>1, <1>3, <2>1
    <3> QED
      BY <1>1, <1>3, <2>1, <3>1 DEF ByTime
  <2>2. CASE k = Len(samples) + 1
    <3>1. j \in 1..Len(samples)
      BY <1>1, <1>3, <2>2
    <3> QED
      BY <1>3, <1>5, <2>2, <3>1
  <2>3. k \in 1..Len(samples) \/ k = Len(samples) + 1
    <3>1. k \in 1..(Len(samples) + 1) /\ Len(samples) \in Nat
      BY <1>1, <1>3
    <3> QED
      BY <3>1
  <2> QED
    BY <2>1, <2>2, <2>3
<1>7. ByTime(slices)' /\ slices' = slices
  BY <1>1 DEF FrameInv, ByTime
<1> QED
  BY <1>1, <1>3, <1>6, <1>7 DEF FrameInv, ByTime

LEMMA SliceStep ==
  ASSUME FrameInv, NEW ts \in 0..(END - 1), NEW running \in BOOLEAN, AddSlice(ts, running)
  PROVE  FrameInv'
<1> DEFINE n == Len(slices)
           e == [ts |-> ts, dur |-> Unfinished, running |-> running]
           old == [k \in 1..n |-> IF k = n THEN [slices[k] EXCEPT !.dur = ts - slices[k].ts] ELSE slices[k]]
<1>1. /\ slices \in Seq(Slice) /\ ByTime(slices) /\ n \in Nat
      /\ slices' = Append(old, e) /\ ts > LastTs(slices) /\ phase = "trace" /\ phase' = "trace"
      /\ UNCHANGED <<samples, ts_start, ts_end, parent, reindex, frame>>
      /\ \A k \in 1..n : k < n => slices[k].dur = slices[k + 1].ts - slices[k].ts
  BY LenProperties DEF FrameInv, AddSlice, settingVars
<1>2. \A k \in 1..n : slices[k] \in Slice
  BY <1>1, ElementOfSeq
<1>3. \A k \in 1..n : slices[k].ts \in 0..(END - 1) /\ slices[k].dur \in Int /\ slices[k].running \in BOOLEAN
  BY <1>2 DEF Slice
<1>4. END \in Nat /\ ts \in Int
  BY ResidencyAssumption
<1>5. e \in Slice
  BY DEF Slice, Unfinished
<1> HIDE DEF n, e
<1>6. ASSUME NEW k \in 1..n
      PROVE  /\ old[k] \in Slice /\ old[k].ts = slices[k].ts
             /\ k < n => old[k] = slices[k]
             /\ k = n => old[k].dur = ts - slices[k].ts
  <2>1. CASE k = n
    <3>1. old[k] = [slices[k] EXCEPT !.dur = ts - slices[k].ts]
      BY <2>1
    <3>2. ts - slices[k].ts \in Int
      BY <1>3, <1>4
    <3>3. old[k] \in Slice
      BY <1>2, <3>1, <3>2 DEF Slice
    <3>4. old[k].ts = slices[k].ts /\ old[k].dur = ts - slices[k].ts
      BY <1>2, <3>1 DEF Slice
    <3> QED
      BY <2>1, <3>3, <3>4, <1>1
  <2>2. CASE k # n
    BY <1>2, <2>2
  <2> QED
    BY <2>1, <2>2
<1>7. old \in Seq(Slice) /\ Len(old) = n
  <2>1. old \in [1..n -> Slice]
    <3>1. \A k \in 1..n : old[k] \in Slice
      BY <1>6
    <3>2. old = [k \in 1..n |-> old[k]]
      OBVIOUS
    <3> HIDE DEF old
    <3> QED
      BY <3>1, <3>2, Zenon
  <2> HIDE DEF old
  <2> QED
    BY <1>1, <2>1, SeqOfFcn
<1> HIDE DEF old
<1>8. /\ slices' \in Seq(Slice) /\ Len(slices') = n + 1
      /\ \A k \in 1..n : slices'[k] = old[k]
      /\ slices'[n + 1] = e
  BY <1>1, <1>5, <1>7, AppendProperties
<1>9. e.ts = ts
  BY DEF e
<1>10. \A k \in 1..n : slices[k].ts < ts
  <2> TAKE k \in 1..n
  <2>1. LastTs(slices) = slices[n].ts /\ n \in 1..n
    <3>1. slices # <<>>
      BY <1>1 DEF n
    <3> QED
      BY <1>1, <3>1 DEF LastTs, n
  <2>2. k = n \/ slices[k].ts < slices[n].ts
    BY <1>1, <2>1 DEF ByTime, n
  <2>3. slices[k].ts \in Int /\ slices[n].ts \in Int
    BY <1>3, <2>1
  <2> QED
    BY <1>1, <1>4, <2>1, <2>2, <2>3
<1>11. \A k \in 1..n : slices'[k].ts = slices[k].ts
  BY <1>6, <1>8
<1>12. \A k \in 1..(n + 1) : k \in 1..n \/ k = n + 1
  BY <1>1
<1>13. ByTime(slices')
  <2> SUFFICES ASSUME NEW j \in 1..(n + 1), NEW k \in 1..(n + 1), j < k
               PROVE  slices'[j].ts < slices'[k].ts
    BY <1>8 DEF ByTime
  <2>1. j \in 1..n
    BY <1>1
  <2>2. CASE k \in 1..n
    BY <1>1, <1>11, <2>1, <2>2 DEF ByTime, n
  <2>3. CASE k = n + 1
    BY <1>8, <1>9, <1>10, <1>11, <2>1, <2>3
  <2> QED
    BY <1>12, <2>2, <2>3
<1>14. ASSUME NEW k \in 1..(n + 1), k < n + 1
       PROVE  slices'[k].dur = slices'[k + 1].ts - slices'[k].ts
  <2>1. k \in 1..n
    BY <1>1, <1>14
  <2>2. CASE k = n
    BY <1>6, <1>8, <1>9, <1>11, <2>1, <2>2
  <2>3. CASE k # n
    <3>1. k < n /\ k + 1 \in 1..n
      BY <1>1, <2>1, <2>3
    <3>2. slices'[k].dur = slices[k].dur
      BY <1>6, <1>8, <2>1, <3>1
    <3> QED
      BY <1>1, <1>11, <2>1, <3>1, <3>2
  <2> QED
    BY <2>2, <2>3
<1>15. samples' \in Seq(Sample) /\ ByTime(samples)' /\ samples' = samples
  BY <1>1 DEF FrameInv, ByTime
<1> QED
  BY <1>1, <1>8, <1>13, <1>14, <1>15 DEF FrameInv, ByTime

\* The frame and what it is made of stay.
LEMMA ConvertedKept ==
  ASSUME UNCHANGED <<samples, slices, ts_start, ts_end, parent, reindex>>
  PROVE  Converted' = Converted /\ Reduced' = Reduced
<1>1. Converted' = Converted
  BY DEF Converted, InWindow, Grid, Before, At, NoRows
<1>2. \A g : Factor(g)' = Factor(g)
  BY DEF Factor, Before, At, LastTs
<1> QED
  BY <1>1, <1>2 DEF Reduced, NoRows

LEMMA FrameInvInductive == FrameInv /\ [FrameNext]_frameVars => FrameInv'
<1> SUFFICES ASSUME FrameInv, [FrameNext]_frameVars PROVE FrameInv'
  OBVIOUS
<1>1. CASE \E ts \in 0..(END - 1), v \in Values : AddSample(ts, v)
  BY <1>1, SampleStep
<1>2. CASE \E ts \in 0..(END - 1), running \in BOOLEAN : AddSlice(ts, running)
  BY <1>2, SliceStep
<1>3. CASE convert_ts
  <2>1. /\ UNCHANGED <<samples, slices, ts_start, ts_end, parent, reindex>>
        /\ phase' = IF slices = <<>> THEN "ready" ELSE "frame"
        /\ frame' = Converted
    BY <1>3 DEF convert_ts, settingVars
  <2>2. Converted' = Converted
    BY <2>1, ConvertedKept
  <2> QED
    BY <2>1, <2>2 DEF FrameInv, ByTime
<1>4. CASE multiply_df_tid_running
  <2>1. /\ UNCHANGED <<samples, slices, ts_start, ts_end, parent, reindex>>
        /\ phase = "frame" /\ phase' = "ready"
        /\ frame' = IF reindex THEN Multiplied ELSE frame
    BY <1>4 DEF multiply_df_tid_running, settingVars
  <2>2. Converted' = Converted /\ Reduced' = Reduced
    BY <2>1, ConvertedKept
  <2>3. frame = Converted
    BY <2>1 DEF FrameInv
  <2>4. Multiplied = Reduced
    BY <2>3 DEF Multiplied, Reduced
  <2> QED
    BY <2>1, <2>2, <2>3, <2>4 DEF FrameInv, ByTime
<1>5. CASE gen_df_duration_groupby
  <2>1. UNCHANGED <<samples, slices, ts_start, ts_end, parent, reindex, frame>> /\ phase = "ready" /\ phase' = "done"
    BY <1>5 DEF gen_df_duration_groupby, settingVars
  <2>2. Converted' = Converted /\ Reduced' = Reduced
    BY <2>1, ConvertedKept
  <2> QED
    BY <2>1, <2>2 DEF FrameInv, ByTime
<1>6. CASE UNCHANGED frameVars
  <2>1. UNCHANGED <<phase, samples, slices, ts_start, ts_end, parent, reindex, frame>>
    BY <1>6 DEF frameVars, settingVars
  <2>2. Converted' = Converted /\ Reduced' = Reduced
    BY <2>1, ConvertedKept
  <2> QED
    BY <2>1, <2>2 DEF FrameInv, ByTime
<1> QED
  BY <1>1, <1>2, <1>3, <1>4, <1>5, <1>6 DEF FrameNext

LEMMA FrameFromTrace == FrameSpec => []FrameInv
BY FrameInvInit, FrameInvInductive, PTL DEF FrameSpec

-----------------------------------------------------------------------------
(* The rows.                                                               *)

LEMMA TimesTyped ==
  ASSUME FrameInv
  PROVE  /\ END \in Nat /\ ts_start \in Nat /\ ts_end \in Nat
         /\ Len(samples) \in Nat /\ Len(slices) \in Nat
         /\ \A k \in 1..Len(samples) : /\ samples[k].ts \in 0..(END - 1) /\ samples[k].val \in Values
                                      /\ samples[k].val \in Nat \ {0}
         /\ \A k \in 1..Len(slices) : /\ slices[k].ts \in 0..(END - 1) /\ slices[k].dur \in Int
                                      /\ slices[k].running \in BOOLEAN
<1>1. END \in Nat /\ ts_start \in Nat /\ ts_end \in Nat
  BY ResidencyAssumption DEF FrameInv
<1>2. samples \in Seq(Sample) /\ slices \in Seq(Slice)
  BY DEF FrameInv
<1>3. /\ \A k \in 1..Len(samples) : samples[k] \in Sample
      /\ \A k \in 1..Len(slices) : slices[k] \in Slice
  BY <1>2, ElementOfSeq
<1>4. Len(samples) \in Nat /\ Len(slices) \in Nat
  BY <1>2, LenProperties
<1> QED
  BY <1>1, <1>3, <1>4, ResidencyAssumption DEF Sample, Slice

\* A track has a value from its first sample on, and none of them is NaN.
LEMMA ValueTyped ==
  ASSUME FrameInv, NEW g \in Int
  PROVE  /\ ValueAt(g) \in Nat
         /\ ValueAt(g) # NaN <=> Before(samples, g) # {}
         /\ ValueAt(g) # NaN => ValueAt(g) \in Values
<1>1. CASE Before(samples, g) = {}
  BY <1>1 DEF ValueAt, NaN
<1>2. CASE Before(samples, g) # {}
  <2>1. Len(samples) \in Nat /\ \A k \in 1..Len(samples) : samples[k].ts \in Int
    BY TimesTyped
  <2>2. PICK j \in 1..Len(samples) : At(samples, g) = samples[j]
    BY <1>2, <2>1, AtProperties DEF FrameInv
  <2>3. ValueAt(g) = samples[j].val
    BY <1>2, <2>2 DEF ValueAt
  <2> QED
    BY <1>2, <2>3, TimesTyped DEF NaN
<1> QED
  BY <1>1, <1>2

\* Before the last state a row is kept exactly while the task runs.
LEMMA FactorExact ==
  ASSUME FrameInv, slices # <<>>, NEW g \in Int, g < LastTs(slices)
  PROVE  Factor(g) = IF parent /\ RunsAt(g) THEN 1 ELSE 0
<1>1. /\ Len(slices) \in Nat /\ Len(slices) \in 1..Len(slices) /\ LastTs(slices) = slices[Len(slices)].ts
      /\ \A k \in 1..Len(slices) : slices[k].ts \in Int
  BY TimesTyped DEF FrameInv, LastTs
<1>2. CASE ~parent \/ Before(slices, g) = {}
  BY <1>2 DEF Factor, RunsAt, NaN
<1>3. CASE parent /\ Before(slices, g) # {}
  <2>1. PICK j \in 1..Len(slices) : At(slices, g) = slices[j] /\ slices[j].ts <= g
    BY <1>1, <1>3, AtProperties DEF FrameInv
  <2>2. j # Len(slices)
    BY <1>1, <2>1
  <2>3. j < Len(slices) /\ j + 1 \in 1..Len(slices)
    BY <1>1, <2>2
  <2>4. slices[j].dur = slices[j + 1].ts - slices[j].ts /\ slices[j].ts < slices[j + 1].ts
    BY <2>3 DEF FrameInv, ByTime
  <2>5. slices[j].dur > 0
    BY <1>1, <2>3, <2>4
  <2>6. ~(g > LastTs(slices))
    BY <1>1
  <2>7. Factor(g) = IF ~slices[j].running THEN NaN ELSE 1
    BY <1>3, <2>1, <2>5, <2>6 DEF Factor
  <2>8. RunsAt(g) = slices[j].running /\ slices[j].running \in BOOLEAN
    BY <1>3, <2>1, TimesTyped DEF RunsAt
  <2> QED
    BY <1>3, <2>7, <2>8 DEF NaN
<1> QED
  BY <1>2, <1>3

LEMMA RunningFromInv == FrameInv => RunningExact
<1> SUFFICES ASSUME FrameInv, phase = "done", slices # <<>>, reindex,
                    NEW g \in Grid, InWindow(g), g < LastTs(slices)
             PROVE  /\ g \in Rows <=> parent /\ RunsAt(g) /\ ValueAt(g) # NaN
                    /\ g \in Rows => frame[g] = ValueAt(g)
  BY DEF RunningExact
<1> DEFINE W == {x \in Grid : InWindow(x)}
           f == [x \in W |-> IF Before(samples, x) = {} THEN NaN ELSE At(samples, x).val]
           h == [x \in DOMAIN Converted |-> Converted[x] * Factor(x)]
<1>1. g \in Int /\ g \in W
  BY ResidencyAssumption DEF Grid
<1>2. Converted = IF NoRows(f) THEN <<>> ELSE f
  BY DEF Converted
<1>3. frame = IF NoRows(h) THEN <<>> ELSE h
  BY DEF FrameInv, Reduced
<1>4. f[g] = ValueAt(g) /\ DOMAIN f = W
  BY <1>1 DEF ValueAt
<1>5. ValueAt(g) \in Nat /\ Factor(g) = IF parent /\ RunsAt(g) THEN 1 ELSE 0
  BY <1>1, ValueTyped, FactorExact
<1> HIDE DEF f, W
<1>6. CASE NoRows(f)
  <2>1. ValueAt(g) = NaN
    BY <1>1, <1>4, <1>6 DEF NoRows
  <2>2. DOMAIN Converted = {}
    BY <1>2, <1>6
  <2>3. DOMAIN frame = {}
    <3>1. DOMAIN h = {}
      BY <2>2
    <3> QED
      BY <1>3, <3>1
  <2>4. g \notin Rows
    BY <2>3 DEF Rows
  <2> QED
    BY <2>1, <2>4
<1>7. CASE ~NoRows(f)
  <2>1. DOMAIN h = W /\ h[g] = ValueAt(g) * Factor(g)
    BY <1>1, <1>2, <1>4, <1>7
  <2>2. h[g] = IF parent /\ RunsAt(g) THEN ValueAt(g) ELSE 0
    BY <1>5, <2>1
  <2> HIDE DEF h
  <2>3. CASE NoRows(h)
    <3>1. h[g] = NaN
      BY <1>1, <2>1, <2>3 DEF NoRows
    <3>2. g \notin Rows
      <4>1. DOMAIN frame = {}
        BY <1>3, <2>3
      <4> QED
        BY <4>1 DEF Rows
    <3> QED
      BY <2>2, <3>1, <3>2
  <2>4. CASE ~NoRows(h)
    <3>1. frame = h
      BY <1>3, <2>4
    <3>2. g \in Rows <=> h[g] # NaN
      BY <1>1, <2>1, <3>1 DEF Rows
    <3> QED
      BY <2>2, <3>1, <3>2 DEF NaN
  <2> QED
    BY <2>3, <2>4
<1> QED
  BY <1>6, <1>7

\* multiply_df_tid_running(): the rows of a task are those at which it ran.
THEOREM RunningRowsExact == FrameSpec => []RunningExact
BY FrameFromTrace, RunningFromInv, PTL

-----------------------------------------------------------------------------
(* Sums.                                                                   *)

\* The sizes of disjoint sets add up to that of their union.
LEMMA SumOfSizes ==
  ASSUME NEW W, IsFiniteSet(W), NEW S, IsFiniteSet(S), NEW F, NEW f,
         \A x \in S : F[x] \subseteq W /\ f[x] = Cardinality(F[x]),
         \A x, y \in S : x # y => F[x] \cap F[y] = {}
  PROVE  SumFunctionOnSet(f, S) = Cardinality(UNION {F[x] : x \in S})
<1> DEFINE U(s) == UNION {F[x] : x \in s}
           Chosen(s) == CHOOSE x \in s : TRUE
           Step(h, s) == IF s = {} THEN 0 ELSE f[Chosen(s)] + h[s \ {Chosen(s)}]
           Solves(h) == h = [s \in SUBSET S |-> Step(h, s)]
           size == [s \in SUBSET S |-> Cardinality(U(s))]
<1>1. ASSUME NEW s \in SUBSET S, s # {}
      PROVE  /\ Chosen(s) \in s /\ s \ {Chosen(s)} \in SUBSET S
             /\ Cardinality(U(s)) = f[Chosen(s)] + Cardinality(U(s \ {Chosen(s)}))
  <2>1. Chosen(s) \in s
    BY <1>1
  <2> DEFINE x == Chosen(s)
             t == s \ {x}
  <2>2. x \in s /\ x \in S /\ t \in SUBSET S
    BY <2>1
  <2> HIDE DEF x
  <2>3. U(s) = F[x] \cup U(t)
    BY <2>2
  <2>4. F[x] \cap U(t) = {}
    BY <2>2
  <2>5. F[x] \in SUBSET W /\ U(t) \in SUBSET W
    BY <2>2
  <2> HIDE DEF t, U
  <2>6. IsFiniteSet(F[x]) /\ IsFiniteSet(U(t))
    BY <2>5, FS_Subset
  <2>7. Cardinality(U(s)) = Cardinality(F[x]) + Cardinality(U(t)) - Cardinality({})
    BY <2>3, <2>4, <2>6, FS_Union
  <2>8. Cardinality({}) = 0 /\ Cardinality(F[x]) \in Nat /\ Cardinality(U(t)) \in Nat
    BY <2>6, FS_EmptySet, FS_CardinalityType
  <2> QED
    BY <2>2, <2>7, <2>8 DEF x, t
<1>2. Cardinality(U({})) = 0
  <2>1. U({}) = {}
    OBVIOUS
  <2> QED
    BY <2>1, FS_EmptySet
<1> HIDE DEF U, Chosen
<1>3. Solves(size)
  <2>1. ASSUME NEW s \in SUBSET S PROVE size[s] = Step(size, s)
    <3>1. CASE s = {}
      BY <1>2, <3>1
    <3>2. CASE s # {}
      BY <1>1, <3>2
    <3> QED
      BY <3>1, <3>2
  <2>2. size = [s \in SUBSET S |-> size[s]]
    OBVIOUS
  <2> HIDE DEF size, Step
  <2> QED
    BY <2>1, <2>2, Zenon
<1>4. ASSUME NEW h, Solves(h) PROVE h[S] = Cardinality(U(S))
  <2>1. \A s \in SUBSET S : h[s] = Step(h, s)
    <3> HIDE DEF Step
    <3> QED
      BY <1>4, Zenon
  <2> DEFINE Bad == {n \in Nat : \E s \in SUBSET S : Cardinality(s) = n /\ h[s] # Cardinality(U(s))}
  <2>2. ASSUME NEW s \in SUBSET S, h[s] # Cardinality(U(s))
        PROVE  \E t \in SUBSET S : Cardinality(t) < Cardinality(s) /\ h[t] # Cardinality(U(t))
    <3>1. s # {}
      BY <1>2, <2>1, <2>2
    <3> DEFINE t == s \ {Chosen(s)}
    <3>2. Chosen(s) \in s /\ t \in SUBSET S /\ Cardinality(U(s)) = f[Chosen(s)] + Cardinality(U(t))
      BY <1>1, <3>1
    <3>3. h[s] = f[Chosen(s)] + h[t]
      BY <2>1, <3>1
    <3>4. h[t] # Cardinality(U(t))
      BY <2>2, <3>2, <3>3
    <3>5. IsFiniteSet(s) /\ Cardinality(s) \in Nat
      BY FS_Subset, FS_CardinalityType
    <3>6. Cardinality(t) = Cardinality(s) - 1
      BY <3>2, <3>5, FS_RemoveElement
    <3> HIDE DEF t
    <3> QED
      BY <3>2, <3>4, <3>5, <3>6
  <2>3. \A s \in SUBSET S : Cardinality(s) \in Nat
    BY FS_Subset, FS_CardinalityType
  <2>4. Bad = {}
    <3> SUFFICES ASSUME Bad # {} PROVE FALSE
      OBVIOUS
    <3>1. PICK n \in Bad : \A m \in Bad : n <= m
      BY Smallest
    <3>2. PICK s \in SUBSET S : Cardinality(s) = n /\ h[s] # Cardinality(U(s))
      BY <3>1
    <3>3. PICK t \in SUBSET S : Cardinality(t) < Cardinality(s) /\ h[t] # Cardinality(U(t))
      BY <2>2, <3>2
    <3>4. Cardinality(t) \in Bad
      BY <2>3, <3>3
    <3> QED
      BY <2>3, <3>1, <3>2, <3>3, <3>4
  <2> QED
    BY <2>3, <2>4
<1>5. SumFunctionOnSet(f, S) = (CHOOSE h : Solves(h))[S]
  BY DEF SumFunctionOnSet, FoldFunctionOnSet, MapThenFoldSet, Chosen
<1> HIDE DEF Solves
<1>6. Solves(CHOOSE h : Solves(h))
  BY <1>3, Zenon
<1> QED
  BY <1>4, <1>5, <1>6 DEF U

\* A union is no larger than its number of sets times the size of the largest.
LEMMA SizeOfUnion ==
  ASSUME NEW W, IsFiniteSet(W), NEW n \in Nat, NEW F, NEW c \in Nat,
         \A j \in 1..n : F[j] \subseteq W /\ Cardinality(F[j]) <= c
  PROVE  Cardinality(UNION {F[j] : j \in 1..n}) <= c * n
<1> DEFINE U(m) == UNION {F[j] : j \in 1..m}
           Bad == {m \in 0..n : ~(Cardinality(U(m)) <= c * m)}
<1>1. Bad = {}
  <2> SUFFICES ASSUME Bad # {} PROVE FALSE
    OBVIOUS
  <2>1. PICK m \in Bad : \A k \in Bad : m <= k
    <3>1. Bad \subseteq Nat
      OBVIOUS
    <3> HIDE DEF Bad
    <3> QED
      BY <3>1, Smallest
  <2>2. m # 0
    <3>1. U(0) = {}
      OBVIOUS
    <3> HIDE DEF U
    <3>2. Cardinality(U(0)) = 0
      BY <3>1, FS_EmptySet
    <3>3. c * 0 = 0
      OBVIOUS
    <3> QED
      BY <2>1, <3>2, <3>3
  <2>3. m \in 1..n /\ m - 1 \in 0..n
    BY <2>1, <2>2
  <2>4. m - 1 \notin Bad
    BY <2>1, <2>3
  <2>5. U(m) = U(m - 1) \cup F[m]
    <3>1. \A j : j \in 1..m <=> (j \in 1..(m - 1) \/ j = m)
      BY <2>3
    <3> QED
      BY <3>1
  <2>6. U(m - 1) \in SUBSET W /\ F[m] \in SUBSET W
    <3>1. \A j \in 1..(m - 1) : j \in 1..n
      BY <2>3
    <3> QED
      BY <2>3, <3>1
  <2>7. Cardinality(U(m - 1)) <= c * (m - 1)
    BY <2>3, <2>4
  <2> HIDE DEF U
  <2>8. IsFiniteSet(U(m - 1)) /\ IsFiniteSet(F[m])
    BY <2>6, FS_Subset
  <2>9. Cardinality(U(m)) = Cardinality(U(m - 1)) + Cardinality(F[m]) - Cardinality(U(m - 1) \cap F[m])
    BY <2>5, <2>8, FS_Union
  <2>10. IsFiniteSet(U(m - 1) \cap F[m])
    BY <2>8, FS_Intersection
  <2>11. /\ Cardinality(U(m - 1)) \in Nat /\ Cardinality(F[m]) \in Nat
         /\ Cardinality(U(m - 1) \cap F[m]) \in Nat
    BY <2>8, <2>10, FS_CardinalityType
  <2>12. Cardinality(F[m]) <= c
    BY <2>3
  <2>13. c * m = c * (m - 1) + c /\ c * (m - 1) \in Int
    BY <2>3
  <2>14. Cardinality(U(m)) <= c * m
    <3> DEFINE p == c * (m - 1)
               q == c * m
    <3> HIDE DEF p, q
    <3>1. q = p + c /\ p \in Int /\ Cardinality(U(m - 1)) <= p
      BY <2>7, <2>13 DEF p, q
    <3>2. Cardinality(U(m)) <= q
      BY <2>9, <2>11, <2>12, <3>1
    <3> QED
      BY <3>2 DEF q
  <2> QED
    BY <2>1, <2>14
<1> HIDE DEF U
<1>2. n \in 0..n
  OBVIOUS
<1>3. ~(n \in 0..n /\ ~(Cardinality(U(n)) <= c * n))
  BY <1>1
<1> QED
  BY <1>2, <1>3 DEF U

\* What differs in few places has nearly the same size.
LEMMA NearSizes ==
  ASSUME NEW W, IsFiniteSet(W), NEW A \in SUBSET W, NEW B \in SUBSET W, NEW D \in SUBSET W,
         A \subseteq B \cup D, B \subseteq A \cup D
  PROVE  /\ Cardinality(A) \in Nat /\ Cardinality(B) \in Nat /\ Cardinality(D) \in Nat
         /\ Distance(Cardinality(A), Cardinality(B)) <= Cardinality(D)
<1>1. IsFiniteSet(A) /\ IsFiniteSet(B) /\ IsFiniteSet(D)
  BY FS_Subset
<1>2. Cardinality(A) \in Nat /\ Cardinality(B) \in Nat /\ Cardinality(D) \in Nat
  BY <1>1, FS_CardinalityType
<1>3. ASSUME NEW X \in SUBSET W, NEW Y \in SUBSET W, X \subseteq Y \cup D
      PROVE  Cardinality(X) <= Cardinality(Y) + Cardinality(D)
  <2>1. IsFiniteSet(Y) /\ IsFiniteSet(D)
    BY <1>1, FS_Subset
  <2>2. /\ IsFiniteSet(Y \cup D)
        /\ Cardinality(Y \cup D) = Cardinality(Y) + Cardinality(D) - Cardinality(Y \cap D)
    BY <2>1, FS_Union
  <2>3. Cardinality(X) <= Cardinality(Y \cup D) /\ IsFiniteSet(X)
    BY <1>3, <2>2, FS_Subset
  <2>4. IsFiniteSet(Y \cap D)
    BY <2>1, FS_Intersection
  <2>5. /\ Cardinality(X) \in Nat /\ Cardinality(Y) \in Nat /\ Cardinality(Y \cap D) \in Nat
        /\ Cardinality(Y \cup D) \in Nat
    BY <2>1, <2>2, <2>3, <2>4, FS_CardinalityType
  <2> QED
    BY <1>2, <2>2, <2>3, <2>5
<1>4. Cardinality(A) <= Cardinality(B) + Cardinality(D) /\ Cardinality(B) <= Cardinality(A) + Cardinality(D)
  BY <1>3
<1> QED
  BY <1>2, <1>4 DEF Distance

-----------------------------------------------------------------------------
(* Residencies.                                                            *)

\* What gen_df_duration_groupby() makes of the frame.
Durations ==
  [v \in Values |-> SumFunctionOnSet([g \in DOMAIN frame |-> RowDuration(g)],
                                     {g \in DOMAIN frame : frame[g] = v})]

DurationsInv == phase = "done" => duration = Durations

LEMMA DurationsInductive == DurationsInv /\ [FrameNext]_frameVars => DurationsInv'
<1> SUFFICES ASSUME DurationsInv, [FrameNext]_frameVars PROVE DurationsInv'
  OBVIOUS
<1>1. CASE gen_df_duration_groupby
  <2>1. duration' = Durations /\ frame' = frame
    BY <1>1 DEF gen_df_duration_groupby, Durations
  <2>2. Durations' = Durations
    BY <2>1 DEF Durations, RowDuration
  <2> QED
    BY <2>1, <2>2 DEF DurationsInv
<1>2. CASE UNCHANGED frameVars
  <2>1. UNCHANGED <<phase, frame, duration>>
    BY <1>2 DEF frameVars
  <2>2. Durations' = Durations
    BY <2>1 DEF Durations, RowDuration
  <2> QED
    BY <2>1, <2>2 DEF DurationsInv
<1>3. CASE ~gen_df_duration_groupby /\ FrameNext
  <2>1. phase' # "done"
    BY <1>3 DEF FrameNext, AddSample, AddSlice, convert_ts, multiply_df_tid_running
  <2> QED
    BY <2>1 DEF DurationsInv
<1> QED
  BY <1>1, <1>2, <1>3

\* Without a task the rows have the values of the track, and from the first
\* value on there is no row without one.
LEMMA RowsOfTrack ==
  ASSUME FrameInv, phase = "done", slices = <<>>, Rows # {}
  PROVE  /\ DOMAIN frame \in SUBSET (0..END) /\ Rows \in SUBSET (0..END)
         /\ \A g \in DOMAIN frame : frame[g] = ValueAt(g)
         /\ \A g \in DOMAIN frame : g \in Rows <=> frame[g] \in Values
         /\ \A g \in Rows, h \in DOMAIN frame : g <= h => h \in Rows
         /\ DOMAIN frame = {x \in (IF reindex THEN Grid ELSE {samples[j].ts : j \in 1..Len(samples)}) :
                              InWindow(x)}
<1> DEFINE T == {samples[j].ts : j \in 1..Len(samples)}
           W(S) == {x \in S : InWindow(x)}
           f == [x \in W(Grid) |-> IF Before(samples, x) = {} THEN NaN ELSE At(samples, x).val]
           e == [x \in W(T) |-> At(samples, x).val]
<1>1. frame = Converted /\ END \in Nat /\ ts_start \in Nat /\ reindex \in BOOLEAN
  BY TimesTyped DEF FrameInv
<1>2. frame # <<>>
  <2>1. PICK g : g \in DOMAIN frame
    BY DEF Rows
  <2>2. DOMAIN frame # {}
    BY <2>1
  <2> QED
    BY <2>2
<1>3. Converted = IF reindex THEN (IF NoRows(f) THEN <<>> ELSE f) ELSE (IF NoRows(e) THEN <<>> ELSE e)
  BY <1>1 DEF Converted
<1> HIDE DEF f, e
<1>4. frame = IF reindex THEN f ELSE e
  BY <1>1, <1>2, <1>3
<1>5. \A x \in T : x \in 0..END /\ Before(samples, x) # {}
  <2>1. \A j \in 1..Len(samples) : samples[j].ts \in 0..(END - 1)
    BY TimesTyped
  <2> SUFFICES ASSUME NEW j \in 1..Len(samples)
               PROVE  samples[j].ts \in 0..END /\ Before(samples, samples[j].ts) # {}
    OBVIOUS
  <2>2. j \in Before(samples, samples[j].ts)
    BY <2>1 DEF Before
  <2> QED
    BY <1>1, <2>1, <2>2
<1>6. \A x \in Grid : x \in 0..END
  BY <1>1 DEF Grid
<1>7. /\ DOMAIN f = W(Grid) /\ DOMAIN e = W(T)
      /\ \A x \in W(Grid) : f[x] = ValueAt(x)
      /\ \A x \in W(T) : e[x] = ValueAt(x)
  BY <1>5 DEF f, e, ValueAt
<1>8. DOMAIN frame = W(IF reindex THEN Grid ELSE T)
  BY <1>1, <1>4, <1>7
<1>9. DOMAIN frame \in SUBSET (0..END)
  BY <1>1, <1>5, <1>6, <1>8
<1>10. \A g \in DOMAIN frame : frame[g] = ValueAt(g)
  BY <1>1, <1>4, <1>7
<1>11. \A g \in DOMAIN frame : g \in Int /\ ValueAt(g) \in Nat
  BY <1>1, <1>9, ValueTyped
<1>12. \A g \in DOMAIN frame : g \in Rows <=> frame[g] \in Values
  <2> TAKE g \in DOMAIN frame
  <2>1. g \in Rows <=> ValueAt(g) # NaN
    BY <1>10 DEF Rows
  <2>2. ValueAt(g) # NaN => ValueAt(g) \in Values
    BY <1>11, ValueTyped
  <2>3. NaN \notin Values
    BY ResidencyAssumption DEF NaN
  <2> QED
    BY <1>10, <2>1, <2>2, <2>3
<1>13. ASSUME NEW g \in Rows, NEW h \in DOMAIN frame, g <= h
       PROVE  h \in Rows
  <2>1. g \in DOMAIN frame /\ ValueAt(g) # NaN
    BY <1>10 DEF Rows
  <2>2. Before(samples, g) # {}
    BY <1>11, <2>1, ValueTyped
  <2>3. \A j \in 1..Len(samples) : samples[j].ts \in Int
    BY TimesTyped
  <2>4. Before(samples, h) # {}
    BY <1>11, <1>13, <2>1, <2>2, <2>3 DEF Before
  <2>5. ValueAt(h) # NaN
    BY <1>11, <2>4, ValueTyped
  <2> QED
    BY <1>10, <2>5 DEF Rows
<1>14. Rows \in SUBSET (0..END)
  BY <1>9 DEF Rows
<1> QED
  BY <1>8, <1>9, <1>10, <1>12, <1>13, <1>14

\* The rows have a first and a last, also for those of one value.
LEMMA RowEnds ==
  ASSUME END \in Nat, Rows \in SUBSET (0..END), Rows # {}
  PROVE  /\ Min(Rows) \in Rows /\ Max(Rows) \in Rows /\ Min(Rows) \in Nat /\ Max(Rows) \in Nat
         /\ \A g \in Rows : g \in Nat /\ Min(Rows) <= g /\ g <= Max(Rows)
<1>1. Rows \subseteq Nat
  OBVIOUS
<1>2. Min(Rows) \in Rows /\ \A g \in Rows : Min(Rows) <= g
  BY <1>1, SmallestIsMin
<1>3. Max(Rows) \in Rows /\ \A g \in Rows : g <= Max(Rows)
  BY LargestExists
<1> QED
  BY <1>1, <1>2, <1>3

\* A row lasts until the next, and the last row no time.
LEMMA RowLasts ==
  ASSUME FrameInv, phase = "done", slices = <<>>, Rows # {}, NEW g \in Rows
  PROVE  /\ RowDuration(g) \in Nat
         /\ g + RowDuration(g) <= Max(Rows)
         /\ \A h \in DOMAIN frame : h > g => h >= g + RowDuration(g)
         /\ g < Max(Rows) => RowDuration(g) > 0 /\ g + RowDuration(g) \in Rows
<1>1. /\ END \in Nat /\ DOMAIN frame \in SUBSET (0..END) /\ Rows \in SUBSET (0..END)
      /\ \A h \in DOMAIN frame : g <= h => h \in Rows
      /\ Rows \subseteq DOMAIN frame
  BY RowsOfTrack, TimesTyped DEF Rows
<1>2. /\ Max(Rows) \in Rows /\ Max(Rows) \in Nat
      /\ \A h \in Rows : h \in Nat /\ h <= Max(Rows)
  BY <1>1, RowEnds
<1> DEFINE later == {h \in DOMAIN frame : h > g}
<1>3. CASE later = {}
  <2>1. RowDuration(g) = 0
    BY <1>3 DEF RowDuration
  <2> QED
    BY <1>1, <1>2, <1>3, <2>1
<1>4. CASE later # {}
  <2>1. RowDuration(g) = Min(later) - g
    BY <1>4 DEF RowDuration
  <2>2. later \in SUBSET Nat
    BY <1>1
  <2> HIDE DEF later
  <2>3. Min(later) \in later /\ \A h \in later : Min(later) <= h
    BY <1>4, <2>2, SmallestIsMin
  <2>4. Min(later) \in Rows /\ Min(later) > g /\ g \in Nat /\ Min(later) \in Nat
    BY <1>1, <1>2, <2>3 DEF later
  <2>5. g + RowDuration(g) = Min(later) /\ RowDuration(g) \in Nat /\ RowDuration(g) > 0
    BY <2>1, <2>4
  <2> QED
    BY <1>2, <2>3, <2>4, <2>5 DEF later
<1> QED
  BY <1>3, <1>4

\* The times a row, and the rows of a value, stand for.
Covered(g) == g..(g + RowDuration(g) - 1)
RowsOf(v) == {g \in DOMAIN frame : frame[g] = v}
CoveredBy(v) == UNION {Covered(g) : g \in RowsOf(v)}

LEMMA RowsCover ==
  ASSUME FrameInv, phase = "done", slices = <<>>, Rows # {}
  PROVE  /\ \A g \in Rows : Covered(g) \subseteq Min(Rows)..(Max(Rows) - 1)
         /\ \A g, h \in Rows : g # h => Covered(g) \cap Covered(h) = {}
         /\ \A x \in Min(Rows)..(Max(Rows) - 1) : \E g \in Rows : x \in Covered(g)
<1>1. /\ END \in Nat /\ Rows \in SUBSET (0..END) /\ Rows \subseteq DOMAIN frame
  BY RowsOfTrack, TimesTyped DEF Rows
<1>2. /\ Min(Rows) \in Rows /\ Max(Rows) \in Rows /\ Min(Rows) \in Nat /\ Max(Rows) \in Nat
      /\ \A g \in Rows : g \in Nat /\ Min(Rows) <= g /\ g <= Max(Rows)
  BY <1>1, RowEnds
<1>3. ASSUME NEW g \in Rows
      PROVE  Covered(g) \subseteq Min(Rows)..(Max(Rows) - 1)
  <2>1. RowDuration(g) \in Nat /\ g + RowDuration(g) <= Max(Rows)
    BY RowLasts
  <2> QED
    BY <1>2, <2>1 DEF Covered
<1>4. ASSUME NEW g \in Rows, NEW h \in Rows, g < h
      PROVE  Covered(g) \cap Covered(h) = {}
  <2>1. RowDuration(g) \in Nat /\ RowDuration(h) \in Nat /\ h >= g + RowDuration(g)
    BY <1>1, <1>4, RowLasts
  <2> QED
    BY <1>2, <2>1 DEF Covered
<1>5. ASSUME NEW g \in Rows, NEW h \in Rows, g # h
      PROVE  Covered(g) \cap Covered(h) = {}
  <2>1. g < h \/ h < g
    BY <1>2, <1>5
  <2> QED
    BY <1>4, <2>1
<1>6. ASSUME NEW x \in Min(Rows)..(Max(Rows) - 1)
      PROVE  \E g \in Rows : x \in Covered(g)
  <2> DEFINE past == {g \in Rows : g <= x}
  <2>1. past \in SUBSET (0..END) /\ past # {}
    <3>1. Min(Rows) <= x
      BY <1>2
    <3>2. Min(Rows) \in past
      BY <1>2, <3>1
    <3> QED
      BY <1>1, <3>2
  <2> HIDE DEF past
  <2>2. Max(past) \in past /\ \A g \in past : g <= Max(past)
    BY <1>1, <2>1, LargestExists
  <2>3. PICK g \in Rows : g <= x /\ \A h \in Rows : h <= x => h <= g
    BY <2>2 DEF past
  <2>4. g < Max(Rows)
    BY <1>2, <2>3
  <2>5. RowDuration(g) \in Nat /\ RowDuration(g) > 0 /\ g + RowDuration(g) \in Rows
    BY <2>4, RowLasts
  <2>6. ~(g + RowDuration(g) <= x)
    BY <1>2, <2>3, <2>5
  <2>7. x \in Covered(g)
    BY <1>2, <2>3, <2>5, <2>6 DEF Covered
  <2> QED
    BY <2>7
<1> QED
  BY <1>3, <1>5, <1>6

\* The duration summed up for a value is the time its rows stand for.
LEMMA DurationsAreSizes ==
  ASSUME FrameInv, phase = "done", slices = <<>>, Rows # {}, NEW v \in Values
  PROVE  /\ Durations[v] = Cardinality(CoveredBy(v))
         /\ CoveredBy(v) \in SUBSET (Min(Rows)..(Max(Rows) - 1))
<1> DEFINE W == Min(Rows)..(Max(Rows) - 1)
           F == [g \in DOMAIN frame |-> Covered(g)]
           f == [g \in DOMAIN frame |-> RowDuration(g)]
<1>1. /\ END \in Nat /\ DOMAIN frame \in SUBSET (0..END) /\ Rows \in SUBSET (0..END)
      /\ RowsOf(v) \subseteq Rows /\ RowsOf(v) \subseteq DOMAIN frame
  BY RowsOfTrack, TimesTyped DEF RowsOf
<1>2. Min(Rows) \in Nat /\ Max(Rows) \in Nat /\ \A g \in Rows : g \in Nat
  BY <1>1, RowEnds
<1>3. IsFiniteSet(W)
  BY <1>2, FS_Interval
<1>4. IsFiniteSet(RowsOf(v))
  <2>1. IsFiniteSet(0..END) /\ RowsOf(v) \in SUBSET (0..END)
    BY <1>1, FS_Interval
  <2> QED
    BY <2>1, FS_Subset
<1>5. ASSUME NEW g \in RowsOf(v)
      PROVE  Covered(g) \subseteq W /\ RowDuration(g) = Cardinality(Covered(g))
  <2>1. g \in Rows
    BY <1>1
  <2>2. g \in Nat /\ RowDuration(g) \in Nat
    BY <1>2, <2>1, RowLasts
  <2> DEFINE b == g + RowDuration(g) - 1
  <2>3. Cardinality(g..b) = IF g > b THEN 0 ELSE b - g + 1
    <3>1. g \in Int /\ b \in Int
      BY <2>2
    <3> HIDE DEF b
    <3> QED
      BY <3>1, FS_Interval
  <2>4. Cardinality(Covered(g)) = Cardinality(g..b)
    BY DEF Covered
  <2>5. RowDuration(g) = Cardinality(Covered(g))
    BY <2>2, <2>3, <2>4
  <2> QED
    BY <2>1, <2>5, RowsCover
<1>6. \A g \in RowsOf(v) : F[g] = Covered(g) /\ f[g] = RowDuration(g)
  BY <1>1
<1>7. Durations[v] = SumFunctionOnSet(f, RowsOf(v))
  BY DEF Durations, RowsOf
<1>8. \A x, y \in RowsOf(v) : x # y => Covered(x) \cap Covered(y) = {}
  BY <1>1, RowsCover
<1> HIDE DEF W, F, f
<1>9. SumFunctionOnSet(f, RowsOf(v)) = Cardinality(UNION {F[g] : g \in RowsOf(v)})
  <2>1. \A g \in RowsOf(v) : F[g] \subseteq W /\ f[g] = Cardinality(F[g])
    BY <1>5, <1>6
  <2>2. \A x, y \in RowsOf(v) : x # y => F[x] \cap F[y] = {}
    BY <1>6, <1>8
  <2> QED
    BY <1>3, <1>4, <2>1, <2>2, SumOfSizes
<1>10. UNION {F[g] : g \in RowsOf(v)} = CoveredBy(v)
  BY <1>6 DEF CoveredBy
<1>11. CoveredBy(v) \in SUBSET W
  BY <1>5 DEF CoveredBy
<1> QED
  BY <1>7, <1>9, <1>10, <1>11 DEF W

\* All durations together are the time from the first row to the last.
LEMMA DurationsAddUp ==
  ASSUME FrameInv, phase = "done", slices = <<>>, Rows # {}
  PROVE  SumFunction(Durations) = Max(Rows) - Min(Rows)
<1> DEFINE W == Min(Rows)..(Max(Rows) - 1)
           F == [v \in Values |-> CoveredBy(v)]
<1>1. /\ END \in Nat /\ Rows \in SUBSET (0..END)
      /\ \A g \in DOMAIN frame : g \in Rows <=> frame[g] \in Values
      /\ Rows \subseteq DOMAIN frame
  BY RowsOfTrack, TimesTyped DEF Rows
<1>2. Min(Rows) \in Nat /\ Max(Rows) \in Nat /\ Min(Rows) <= Max(Rows)
  BY <1>1, RowEnds
<1>3. IsFiniteSet(W) /\ Cardinality(W) = Max(Rows) - Min(Rows)
  <2> DEFINE b == Max(Rows) - 1
  <2>1. b \in Int /\ Min(Rows) \in Int
    BY <1>2
  <2>2. /\ IsFiniteSet(Min(Rows)..b)
        /\ Cardinality(Min(Rows)..b) = IF Min(Rows) > b THEN 0 ELSE b - Min(Rows) + 1
    BY <2>1, FS_Interval
  <2> QED
    BY <1>2, <2>2
<1>4. IsFiniteSet(Values)
  BY ResidencyAssumption
<1>5. \A v \in Values : F[v] \subseteq W /\ Durations[v] = Cardinality(F[v])
  BY DurationsAreSizes
<1>6. ASSUME NEW v \in Values, NEW w \in Values, v # w
      PROVE  F[v] \cap F[w] = {}
  <2>1. \A g \in RowsOf(v), h \in RowsOf(w) : g \in Rows /\ h \in Rows /\ g # h
    BY <1>1, <1>6 DEF RowsOf
  <2>2. \A g \in RowsOf(v), h \in RowsOf(w) : Covered(g) \cap Covered(h) = {}
    BY <2>1, RowsCover
  <2>3. CoveredBy(v) \cap CoveredBy(w) = {}
    BY <2>2 DEF CoveredBy
  <2> QED
    BY <2>3
<1>7. UNION {F[v] : v \in Values} = W
  <2>1. \A v \in Values : F[v] \subseteq W
    BY <1>5
  <2>2. ASSUME NEW x \in W PROVE \E v \in Values : x \in F[v]
    <3>1. PICK g \in Rows : x \in Covered(g)
      BY RowsCover
    <3>2. frame[g] \in Values /\ g \in RowsOf(frame[g])
      BY <1>1 DEF RowsOf
    <3>3. x \in CoveredBy(frame[g])
      BY <3>1, <3>2 DEF CoveredBy
    <3> QED
      BY <3>2, <3>3
  <2> HIDE DEF F, W
  <2> QED
    BY <2>1, <2>2
<1> HIDE DEF F, W
<1>8. SumFunctionOnSet(Durations, Values) = Cardinality(UNION {F[v] : v \in Values})
  BY <1>3, <1>4, <1>5, <1>6, SumOfSizes
<1>9. SumFunction(Durations) = SumFunctionOnSet(Durations, Values)
  BY DEF SumFunction, Durations
<1> QED
  BY <1>3, <1>7, <1>8, <1>9

\* A step after a whole number of steps is one more of them.
LEMMA NextOnGrid ==
  ASSUME NEW a \in Nat, NEW d \in Nat \ {0}, a % d = 0
  PROVE  (a + d) % d = 0
<1> DEFINE q == a \div d
<1>1. q \in Int /\ a = d * q + (a % d)
  OBVIOUS
<1>2. a + d = d * (q + 1) /\ q + 1 \in Int
  BY <1>1
<1>3. \A p \in Int : (d * p) % d = 0
  OBVIOUS
<1> HIDE DEF q
<1> QED
  BY <1>2, <1>3

\* Between two rows the track changes only by a sample, and with a fixed step
\* the next row is not more than a step away.
LEMMA RowsMiss ==
  ASSUME FrameInv, phase = "done", slices = <<>>, Rows # {},
         NEW g \in Rows, NEW x \in Covered(g), ValueAt(x) # frame[g]
  PROVE  reindex /\ \E j \in 1..Len(samples) : x \in samples[j].ts..(samples[j].ts + STEP - 2)
<1> DEFINE T == {samples[j].ts : j \in 1..Len(samples)}
<1>1. /\ END \in Nat /\ STEP \in Nat /\ STEP > 0 /\ ts_start \in Nat /\ ts_end \in Nat /\ reindex \in BOOLEAN
      /\ Len(samples) \in Nat /\ \A j \in 1..Len(samples) : samples[j].ts \in 0..(END - 1)
  BY TimesTyped, ResidencyAssumption DEF FrameInv
<1>2. /\ DOMAIN frame \in SUBSET (0..END) /\ Rows \in SUBSET (0..END) /\ Rows \subseteq DOMAIN frame
      /\ frame[g] = ValueAt(g)
      /\ DOMAIN frame = {y \in (IF reindex THEN Grid ELSE T) : InWindow(y)}
  BY RowsOfTrack DEF Rows
<1>3. Max(Rows) \in Rows /\ Max(Rows) \in Nat /\ g \in Nat
  BY <1>1, <1>2, RowEnds
<1>4. /\ RowDuration(g) \in Nat /\ g + RowDuration(g) <= Max(Rows)
      /\ \A h \in DOMAIN frame : h > g => h >= g + RowDuration(g)
      /\ g < Max(Rows) => g + RowDuration(g) \in Rows
  BY RowLasts
<1>5. x \in Int /\ g <= x /\ x < g + RowDuration(g)
  BY <1>3, <1>4 DEF Covered
<1>6. PICK j \in 1..Len(samples) : g < samples[j].ts /\ samples[j].ts <= x
  <2> SUFFICES ASSUME \A j \in 1..Len(samples) : ~(g < samples[j].ts /\ samples[j].ts <= x) PROVE FALSE
    OBVIOUS
  <2>1. \A j \in 1..Len(samples) : samples[j].ts <= x <=> samples[j].ts <= g
    BY <1>1, <1>3, <1>5
  <2>2. Before(samples, x) = Before(samples, g)
    BY <2>1 DEF Before
  <2>3. ValueAt(x) = ValueAt(g)
    BY <2>2 DEF ValueAt, At
  <2> QED
    BY <1>2, <2>3
<1>7. g >= ts_start /\ g <= ts_end /\ Max(Rows) <= ts_end
  BY <1>2, <1>3 DEF InWindow
<1>8. reindex
  <2> SUFFICES ASSUME ~reindex PROVE FALSE
    BY <1>1
  <2>1. samples[j].ts \in T /\ InWindow(samples[j].ts)
    BY <1>1, <1>3, <1>4, <1>5, <1>6, <1>7 DEF InWindow
  <2>2. samples[j].ts \in DOMAIN frame
    BY <1>2, <2>1
  <2> QED
    BY <1>1, <1>3, <1>4, <1>5, <1>6, <2>2
<1>9. RowDuration(g) <= STEP
  <2> SUFFICES ASSUME ~(RowDuration(g) <= STEP) PROVE FALSE
    BY <1>1, <1>4
  <2>1. g + STEP < g + RowDuration(g) /\ g < Max(Rows)
    BY <1>1, <1>3, <1>4
  <2>2. g + RowDuration(g) \in Grid /\ g \in Grid
    BY <1>2, <1>4, <1>8, <2>1
  <2>3. g + STEP \in 0..(END - 1) /\ InWindow(g + STEP)
    BY <1>1, <1>3, <1>4, <1>7, <2>1, <2>2 DEF Grid, InWindow
  <2>4. (g + STEP) % STEP = 0
    <3>1. g % STEP = 0
      BY <2>2 DEF Grid
    <3> QED
      BY <1>1, <1>3, <3>1, NextOnGrid
  <2>5. g + STEP \in DOMAIN frame
    BY <1>2, <1>8, <2>3, <2>4 DEF Grid
  <2> QED
    BY <1>1, <1>3, <1>4, <2>1, <2>5
<1>10. x \in samples[j].ts..(samples[j].ts + STEP - 2)
  BY <1>1, <1>3, <1>4, <1>5, <1>6, <1>9
<1> QED
  BY <1>8, <1>10

LEMMA ResidencyFromInv == FrameInv /\ DurationsInv => ResidencyClose
<1> SUFFICES ASSUME FrameInv, DurationsInv, phase = "done", slices = <<>>, Rows # {}
             PROVE  /\ SumFunction(duration) = Max(Rows) - Min(Rows)
                    /\ \A v \in Values :
                         Distance(duration[v], Exact(v)) <=
                           (IF reindex THEN (STEP - 1) * Len(samples) ELSE 0)
  BY DEF ResidencyClose
<1> DEFINE W == Min(Rows)..(Max(Rows) - 1)
           Limit == IF reindex THEN (STEP - 1) * Len(samples) ELSE 0
           B == [j \in 1..Len(samples) |-> W \cap (samples[j].ts..(samples[j].ts + STEP - 2))]
           Missed == IF reindex THEN UNION {B[j] : j \in 1..Len(samples)} ELSE {}
<1>1. duration = Durations
  BY DEF DurationsInv
<1>2. SumFunction(duration) = Max(Rows) - Min(Rows)
  BY <1>1, DurationsAddUp
<1>3. /\ END \in Nat /\ STEP - 1 \in Nat /\ reindex \in BOOLEAN /\ Len(samples) \in Nat
      /\ \A j \in 1..Len(samples) : samples[j].ts \in Nat
      /\ Rows \in SUBSET (0..END) /\ Rows \subseteq DOMAIN frame
      /\ \A g \in DOMAIN frame : g \in Rows <=> frame[g] \in Values
  BY TimesTyped, RowsOfTrack, ResidencyAssumption DEF FrameInv, Rows
<1>4. IsFiniteSet(W)
  <2>1. Min(Rows) \in Int /\ Max(Rows) - 1 \in Int
    BY <1>3, RowEnds
  <2> QED
    BY <2>1, FS_Interval
<1>5. Missed \in SUBSET W
  BY <1>3
<1>6. Cardinality(Missed) <= Limit
  <2>1. CASE reindex
    <3>1. ASSUME NEW j \in 1..Len(samples)
          PROVE  B[j] \subseteq W /\ Cardinality(B[j]) <= STEP - 1
      <4> DEFINE a == samples[j].ts
                 b == a + STEP - 2
      <4>1. a \in Int /\ b \in Int /\ (IF a > b THEN 0 ELSE b - a + 1) = STEP - 1
        <5>1. a \in Int /\ STEP \in Int /\ STEP >= 1
          BY <1>3, ResidencyAssumption
        <5> HIDE DEF a
        <5> QED
          BY <5>1
      <4>2. B[j] = W \cap (a..b)
        OBVIOUS
      <4> HIDE DEF a, b, W, B
      <4>3. IsFiniteSet(a..b) /\ Cardinality(a..b) = STEP - 1
        BY <4>1, FS_Interval
      <4>4. B[j] \in SUBSET (a..b) /\ B[j] \subseteq W
        BY <4>2
      <4>5. Cardinality(B[j]) <= Cardinality(a..b)
        BY <4>3, <4>4, FS_Subset
      <4> QED
        BY <4>3, <4>4, <4>5
    <3>2. Missed = UNION {B[j] : j \in 1..Len(samples)} /\ Limit = (STEP - 1) * Len(samples)
      BY <2>1
    <3> DEFINE c == STEP - 1
               n == Len(samples)
    <3>3. c \in Nat /\ n \in Nat /\ \A j \in 1..n : B[j] \subseteq W /\ Cardinality(B[j]) <= c
      BY <1>3, <3>1
    <3> HIDE DEF W, B, c, n
    <3>4. Cardinality(UNION {B[j] : j \in 1..n}) <= c * n
      BY <1>4, <3>3, SizeOfUnion
    <3> QED
      BY <3>2, <3>4 DEF c, n
  <2>2. CASE ~reindex
    <3>1. Missed = {} /\ Limit = 0
      BY <2>2
    <3> HIDE DEF Missed, Limit
    <3> QED
      BY <3>1, FS_EmptySet
  <2> QED
    BY <1>3, <2>1, <2>2
<1>7. Limit \in Int
  <2>1. \A c, n \in Nat : c * n \in Int
    OBVIOUS
  <2> QED
    BY <1>3, <2>1
<1>8. ASSUME NEW v \in Values
      PROVE  Distance(duration[v], Exact(v)) <= Limit
  <2> DEFINE A == {x \in W : ValueAt(x) = v}
  <2>1. Exact(v) = Cardinality(A) /\ duration[v] = Cardinality(CoveredBy(v))
    BY <1>1, DurationsAreSizes DEF Exact
  <2>2. CoveredBy(v) \in SUBSET W /\ A \in SUBSET W
    BY DurationsAreSizes
  <2>3. ASSUME NEW g \in Rows, NEW x \in Covered(g), ValueAt(x) # frame[g]
        PROVE  x \in Missed
    <3>1. reindex /\ \E j \in 1..Len(samples) : x \in samples[j].ts..(samples[j].ts + STEP - 2)
      BY <2>3, RowsMiss
    <3>2. x \in W
      BY RowsCover
    <3> HIDE DEF W
    <3> QED
      BY <3>1, <3>2
  <2> HIDE DEF Missed, W
  <2>4. CoveredBy(v) \subseteq A \cup Missed
    <3> SUFFICES ASSUME NEW x \in CoveredBy(v), ValueAt(x) # v PROVE x \in Missed
      BY <2>2
    <3>1. PICK g \in RowsOf(v) : x \in Covered(g)
      BY DEF CoveredBy
    <3>2. g \in Rows /\ frame[g] = v
      BY <1>3 DEF RowsOf
    <3> QED
      BY <2>3, <3>1, <3>2
  <2>5. A \subseteq CoveredBy(v) \cup Missed
    <3> SUFFICES ASSUME NEW x \in W, ValueAt(x) = v, x \notin Missed PROVE x \in CoveredBy(v)
      OBVIOUS
    <3>1. PICK g \in Rows : x \in Covered(g)
      BY RowsCover DEF W
    <3>2. frame[g] = v /\ g \in RowsOf(v)
      BY <1>3, <2>3, <3>1 DEF RowsOf
    <3> QED
      BY <3>1, <3>2 DEF CoveredBy
  <2> HIDE DEF A
  <2>6. /\ Cardinality(A) \in Nat /\ Cardinality(CoveredBy(v)) \in Nat /\ Cardinality(Missed) \in Nat
        /\ Distance(Cardinality(CoveredBy(v)), Cardinality(A)) <= Cardinality(Missed)
    <3> HIDE DEF Exact, Covered
    <3> QED
      BY <1>4, <1>5, <2>2, <2>4, <2>5, NearSizes, ZenonT(60)
  <2> HIDE DEF Limit
  <2>7. Distance(duration[v], Exact(v)) <= Cardinality(Missed) /\ Distance(duration[v], Exact(v)) \in Int
    BY <2>1, <2>6 DEF Distance
  <2> QED
    BY <1>6, <1>7, <2>6, <2>7
<1> QED
  BY <1>2, <1>8

\* gen_df_duration_groupby(): the residencies of a track add up and are those
\* of its values, but for what a fixed step misses.
THEOREM ResidenciesClose == FrameSpec => []ResidencyClose
<1>1. FrameInit => DurationsInv
  BY DEF FrameInit, DurationsInv
<1>2. FrameSpec => []DurationsInv
  BY <1>1, DurationsInductive, PTL DEF FrameSpec
<1> QED
  BY <1>2, FrameFromTrace, ResidencyFromInv, PTL
=============================================================================
