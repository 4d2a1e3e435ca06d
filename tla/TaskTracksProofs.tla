-------------------------- MODULE TaskTracksProofs --------------------------
(***************************************************************************)
(* Proofs about the per-task signals for any tasks, names, filters,        *)
(* options and ring sizes.  A track belongs to one name and one pid, so    *)
(* that only records of that task under that name are put on it; of these  *)
(* the last one in the ring says what the kernel had at the last hit under *)
(* that name.                                                              *)
(***************************************************************************)
EXTENDS TaskTracks, SequenceTheorems, TLAPS

TaskRec ==
  [pid : Pids, comm : Comms, load : Int, runnable : Int, util : Int, est : Int, ewma : Int,
   lo : Int, hi : Int]

TaskTypeOK ==
  /\ uclampOn \in BOOLEAN
  /\ comm \in [Pids -> Comms]
  /\ alive \subseteq Pids
  /\ ring \in Seq(TaskRec)
  /\ shown \in [Tracks -> Int]
  /\ kernel \in [Pids -> [Signals -> Int]]
  /\ under \in [Pids -> [Signals -> Comms]]
  /\ steps \in Nat

\* A track has samples only if the option of its signal was given.
OnlyAsked ==
  \A p \in Pids, cm \in Comms, s \in Signals :
    shown[TrackName(cm, p, s)] # None => FlagOf(s) \in opts

\* A track has samples only if its task was selected under its name.
OnlySelected ==
  \A p \in Pids, cm \in Comms, s \in Signals :
    shown[TrackName(cm, p, s)] # None => Selected(p, cm)

FilterInv == TaskTypeOK /\ OnlySelected /\ OnlyAsked

-----------------------------------------------------------------------------
(* Tracks and samples.                                                     *)

\* A track tells the name and the pid of its task, and its signal unless it is
\* the one the two util_est signals share under a long name.
LEMMA TrackApart ==
  ASSUME NEW cm, NEW p, NEW s \in Signals, NEW cn, NEW q, NEW t \in Signals,
         TrackName(cm, p, s) = TrackName(cn, q, t)
  PROVE  /\ cm = cn /\ p = q /\ FlagOf(s) = FlagOf(t)
         /\ s = t \/ (Long(cm) /\ {s, t} = {"util_est.enqueued", "util_est.ewma"})
<1>1. cm = cn /\ p = q /\ TrackSignal(cm, s) = TrackSignal(cn, t)
  BY DEF TrackName
<1>2. s = t \/ (Long(cm) /\ {s, t} = {"util_est.enqueued", "util_est.ewma"})
  BY <1>1 DEF TrackSignal, Signals, Long
<1>3. FlagOf("util_est.enqueued") = FlagOf("util_est.ewma")
  BY DEF FlagOf
<1> QED
  BY <1>1, <1>2, <1>3

LEMMA TrackKnown ==
  ASSUME NEW cm \in Comms, NEW p \in Pids, NEW s \in Signals
  PROVE  TrackName(cm, p, s) \in Tracks
BY DEF Tracks

\* The samples for a record, one by one.
LEMMA TaskSays ==
  ASSUME NEW e, NEW x
  PROVE  x \in TaskSamples(e) <=>
           \/ "load_avg_task" \in opts /\ e.load # Absent /\ x = <<"load_avg", e.load>>
           \/ "runnable_avg_task" \in opts /\ e.runnable # Absent /\ x = <<"runnable_avg", e.runnable>>
           \/ "util_avg_task" \in opts /\ e.util # Absent /\ x = <<"util_avg", e.util>>
           \/ /\ "util_avg_task" \in opts /\ e.util # Absent /\ e.lo # Absent /\ e.hi # Absent
              /\ x = <<"uclamped_avg", clamp(e.util, e.lo, e.hi)>>
           \/ "util_est_task" \in opts /\ e.est # Absent /\ x = <<"util_est.enqueued", e.est>>
           \/ "util_est_task" \in opts /\ e.est # Absent /\ x = <<"util_est.ewma", e.ewma>>
BY DEF TaskSamples, If

\* Samples are pairs of a signal that was asked for and a value.
LEMMA SamplesKnown ==
  ASSUME NEW e \in TaskRec, NEW x \in TaskSamples(e)
  PROVE  x = <<x[1], x[2]>> /\ x[1] \in Signals /\ x[2] \in Int /\ FlagOf(x[1]) \in opts
<1>1. /\ e.load \in Int /\ e.runnable \in Int /\ e.util \in Int /\ e.est \in Int /\ e.ewma \in Int
      /\ e.lo \in Int /\ e.hi \in Int
  BY DEF TaskRec
<1>2. clamp(e.util, e.lo, e.hi) \in Int
  BY <1>1 DEF clamp
<1> QED
  BY <1>1, <1>2, TaskSays DEF Signals, FlagOf

-----------------------------------------------------------------------------
(* What the handler does to the tracks.                                    *)

\* The values a record has for signal s of task p under the name u.
Says(e, p, u, s) == {v \in Int : e.pid = p /\ e.comm = u /\ <<s, v>> \in TaskSamples(e)}

\* Every track keeps its value or shows a sample of the record that goes there.
LEMMA HandleShows ==
  ASSUME TaskTypeOK, Handle
  PROVE  /\ ring # <<>> /\ Head(ring) \in TaskRec /\ ring' = Tail(ring)
         /\ UNCHANGED <<cmdVars, comm, alive, kernel, under, dropped, steps>>
         /\ TaskTypeOK'
         /\ \A n \in Tracks :
              LET e == Head(ring)
                  On == {x \in TaskSamples(e) : ~ignore_pid_comm(e.pid, e.comm)
                                                  /\ TrackName(e.comm, e.pid, x[1]) = n}
              IN  \/ On = {} /\ shown'[n] = shown[n]
                  \/ \E x \in On :
                       /\ shown'[n] = x[2]
                       /\ (\E y \in On : y[1] = "util_est.ewma") => x[1] = "util_est.ewma"
<1> DEFINE e == Head(ring)
           new == IF ignore_pid_comm(e.pid, e.comm) THEN {} ELSE TaskSamples(e)
           On(n) == {x \in new : TrackName(e.comm, e.pid, x[1]) = n}
           On2(n) == {x \in TaskSamples(e) : ~ignore_pid_comm(e.pid, e.comm)
                                                  /\ TrackName(e.comm, e.pid, x[1]) = n}
           val(n) == CASE On(n) = {} -> shown[n]
                       [] \E x \in On(n) : x[1] = "util_est.ewma" ->
                            (CHOOSE x \in On(n) : x[1] = "util_est.ewma")[2]
                       [] OTHER -> (CHOOSE x \in On(n) : TRUE)[2]
<1>1. /\ ring # <<>> /\ ring' = Tail(ring)
      /\ UNCHANGED <<cmdVars, comm, alive, kernel, under, dropped, steps>>
      /\ shown' = [n \in Tracks |-> val(n)]
  BY DEF Handle
<1>2. ring \in Seq(TaskRec) /\ shown \in [Tracks -> Int]
  BY DEF TaskTypeOK
<1>3. e \in TaskRec /\ Tail(ring) \in Seq(TaskRec)
  BY <1>1, <1>2, HeadTailProperties
<1>4. \A n : On(n) = On2(n)
  OBVIOUS
<1>5. \A x \in TaskSamples(e) : x[2] \in Int
  BY <1>3, SamplesKnown
<1>6. \A n : \A x \in On(n) : x[2] \in Int
  BY <1>5
<1>7. ASSUME NEW n \in Tracks
      PROVE  \/ On(n) = {} /\ val(n) = shown[n]
             \/ \E x \in On(n) :
                  /\ val(n) = x[2]
                  /\ (\E y \in On(n) : y[1] = "util_est.ewma") => x[1] = "util_est.ewma"
  <2> HIDE DEF On
  <2>1. CASE On(n) = {}
    BY <2>1
  <2>2. CASE \E x \in On(n) : x[1] = "util_est.ewma"
    <3>1. PICK x \in On(n) : x = (CHOOSE y \in On(n) : y[1] = "util_est.ewma") /\ x[1] = "util_est.ewma"
      BY <2>2
    <3>2. val(n) = x[2]
      BY <2>2, <3>1
    <3> QED
      BY <3>1, <3>2
  <2>3. CASE On(n) # {} /\ ~\E x \in On(n) : x[1] = "util_est.ewma"
    <3>1. PICK x \in On(n) : x = (CHOOSE y \in On(n) : TRUE)
      BY <2>3
    <3>2. val(n) = x[2]
      BY <2>3, <3>1
    <3> QED
      BY <2>3, <3>1, <3>2
  <2> QED
    BY <2>1, <2>2, <2>3
<1> HIDE DEF On, val
<1>8. \A n \in Tracks : val(n) \in Int
  BY <1>2, <1>6, <1>7
<1>9. shown' \in [Tracks -> Int]
  BY <1>1, <1>8
<1>10. TaskTypeOK'
  BY <1>1, <1>3, <1>9 DEF TaskTypeOK, cmdVars
<1>11. ASSUME NEW n \in Tracks
       PROVE  \/ On2(n) = {} /\ shown'[n] = shown[n]
              \/ \E x \in On2(n) :
                   /\ shown'[n] = x[2]
                   /\ (\E y \in On2(n) : y[1] = "util_est.ewma") => x[1] = "util_est.ewma"
  <2> HIDE DEF On2
  <2>1. shown'[n] = val(n)
    BY <1>1
  <2> QED
    BY <2>1, <1>4, <1>7
<1> QED
  BY <1>1, <1>3, <1>10, <1>11 DEF On2

\* The track of a signal shows what the record has for it, and keeps what it
\* shows otherwise.
LEMMA HandleSays ==
  ASSUME TaskTypeOK, Handle, NEW p \in Pids, NEW u \in Comms, NEW s \in Signals,
         ~ignore_pid_comm(p, u), s = "util_est.enqueued" => ~Long(u)
  PROVE  LET w == Says(Head(ring), p, u, s)
             n == TrackName(u, p, s)
         IN  IF w = {} THEN shown'[n] = shown[n] ELSE shown'[n] \in w
<1> DEFINE e == Head(ring)
           n == TrackName(u, p, s)
           On == {x \in TaskSamples(e) : ~ignore_pid_comm(e.pid, e.comm)
                                           /\ TrackName(e.comm, e.pid, x[1]) = n}
<1>1. e \in TaskRec /\ n \in Tracks
  BY HandleShows, TrackKnown
<1>2. \/ On = {} /\ shown'[n] = shown[n]
      \/ \E x \in On :
           /\ shown'[n] = x[2]
           /\ (\E y \in On : y[1] = "util_est.ewma") => x[1] = "util_est.ewma"
  BY <1>1, HandleShows
<1> HIDE DEF e
<1>3. \A x \in TaskSamples(e) : x = <<x[1], x[2]>> /\ x[1] \in Signals /\ x[2] \in Int
  BY <1>1, SamplesKnown
<1>4. ASSUME NEW v \in Says(e, p, u, s) PROVE <<s, v>> \in On
  BY <1>4 DEF Says
<1>5. ASSUME NEW x \in On PROVE e.pid = p /\ e.comm = u /\ (x[1] = s \/ (Long(u) /\ {x[1], s} = {"util_est.enqueued", "util_est.ewma"}))
  <2>1. TrackName(e.comm, e.pid, x[1]) = TrackName(u, p, s) /\ x[1] \in Signals
    BY <1>3
  <2> QED
    BY <2>1, TrackApart
<1>6. ASSUME NEW x \in On PROVE \E y \in On : y[1] = s
  <2>1. CASE x[1] = s
    BY <2>1
  <2>2. CASE x[1] # s
    <3>1. s = "util_est.ewma" /\ x[1] = "util_est.enqueued" /\ Long(u)
      BY <1>5, <2>2
    <3>2. "util_est_task" \in opts /\ e.est # Absent
      BY <3>1, TaskSays
    <3>3. <<"util_est.ewma", e.ewma>> \in TaskSamples(e)
      BY <3>2, TaskSays
    <3>4. e.pid = p /\ e.comm = u
      BY <1>5
    <3>5. PICK y \in TaskSamples(e) : y = <<"util_est.ewma", e.ewma>>
      BY <3>3
    <3>6. y[1] = s /\ TrackName(e.comm, e.pid, y[1]) = n /\ ~ignore_pid_comm(e.pid, e.comm)
      BY <3>1, <3>4, <3>5
    <3> QED
      BY <3>6
  <2> QED
    BY <2>1, <2>2
<1>7. ASSUME NEW x \in On, (\E y \in On : y[1] = "util_est.ewma") => x[1] = "util_est.ewma"
      PROVE  x[2] \in Says(e, p, u, s)
  <2>1. x[1] = s
    <3>1. CASE s = "util_est.ewma"
      BY <3>1, <1>6, <1>7
    <3>2. CASE s # "util_est.ewma"
      <4>1. s = "util_est.enqueued" => ~Long(u)
        OBVIOUS
      <4> QED
        BY <3>2, <4>1, <1>5
    <3> QED
      BY <3>1, <3>2
  <2>2. x = <<s, x[2]>> /\ x[2] \in Int
    BY <2>1, <1>3
  <2> QED
    BY <2>2, <1>5 DEF Says
<1>8. CASE Says(e, p, u, s) = {}
  <2>1. On = {}
    BY <1>6, <1>8, <1>3, <1>5 DEF Says
  <2> QED
    BY <1>2, <1>8, <2>1 DEF e
<1>9. CASE Says(e, p, u, s) # {}
  <2>1. On # {}
    BY <1>4, <1>9
  <2> QED
    BY <1>2, <1>7, <1>9, <2>1 DEF e
<1> QED
  BY <1>8, <1>9

-----------------------------------------------------------------------------
(* What the programs store.                                                *)

\* A hit of task p that may store e and gives the signals of news new values.
Stores(p, e, news) ==
  /\ p \in Pids /\ e \in TaskRec /\ e.pid = p /\ e.comm = comm[p]
  /\ DOMAIN news \subseteq Signals /\ \A s \in DOMAIN news : news[s] \in Int
  /\ Store(p, e, news)
  /\ steps' = steps + 1
  /\ UNCHANGED <<cmdVars, comm, shown>>

\* The types after a hit, and what it changed.
LEMMA StoreTypes ==
  ASSUME TaskTypeOK, NEW p, NEW e, NEW news, Stores(p, e, news), alive' \subseteq Pids
  PROVE  /\ TaskTypeOK'
         /\ \A q \in Pids, s \in Signals :
              IF q = p /\ s \in DOMAIN news
              THEN kernel'[q][s] = news[s] /\ under'[q][s] = comm[p]
              ELSE kernel'[q][s] = kernel[q][s] /\ under'[q][s] = under[q][s]
<1> USE DEF TaskTypeOK
<1>1. /\ p \in Pids /\ e \in TaskRec /\ \A s \in DOMAIN news : news[s] \in Int
      /\ kernel' = [kernel EXCEPT ![p] = [s \in Signals |->
                      IF s \in DOMAIN news THEN news[s] ELSE kernel[p][s]]]
      /\ under' = [under EXCEPT ![p] = [s \in Signals |->
                     IF s \in DOMAIN news THEN comm[p] ELSE under[p][s]]]
  BY DEF Stores, Store
<1>2. /\ [s \in Signals |-> IF s \in DOMAIN news THEN news[s] ELSE kernel[p][s]] \in [Signals -> Int]
      /\ [s \in Signals |-> IF s \in DOMAIN news THEN comm[p] ELSE under[p][s]] \in [Signals -> Comms]
  BY <1>1
<1>3. kernel' \in [Pids -> [Signals -> Int]] /\ under' \in [Pids -> [Signals -> Comms]]
  BY <1>1, <1>2
<1>4. \A q \in Pids, s \in Signals :
        IF q = p /\ s \in DOMAIN news
        THEN kernel'[q][s] = news[s] /\ under'[q][s] = comm[p]
        ELSE kernel'[q][s] = kernel[q][s] /\ under'[q][s] = under[q][s]
  BY <1>1
<1>5. ring' \in Seq(TaskRec)
  <2>1. CASE Fits
    <3>1. ring' = Append(ring, e)
      BY <2>1 DEF Stores, Store
    <3> QED
      BY <1>1, <3>1, AppendProperties
  <2>2. CASE ~Fits
    BY <2>2 DEF Stores, Store
  <2> QED
    BY <2>1, <2>2
<1> QED
  BY <1>3, <1>4, <1>5 DEF Stores, cmdVars

\* The records of the three programs.
SeRecord(p, u) ==
  [pid |-> p, comm |-> comm[p], load |-> u.load, runnable |-> u.runnable,
   util |-> u.util, est |-> Absent, ewma |-> Absent,
   lo |-> Bound(u.reqlo, u.lo, u.actlo), hi |-> Bound(u.reqhi, u.hi, u.acthi)]
SeNews(u) ==
  [load_avg |-> u.load, runnable_avg |-> u.runnable, util_avg |-> u.util,
   uclamped_avg |-> InForce(u)]
EstRecord(p, v) ==
  [pid |-> p, comm |-> comm[p], load |-> Absent, runnable |-> Absent, util |-> Absent,
   lo |-> Absent, hi |-> Absent, est |-> v[1], ewma |-> v[2]]
EstNews(v) ==
  [x \in {"util_est.enqueued", "util_est.ewma"} |->
     IF x = "util_est.enqueued" THEN v[1] ELSE v[2]]
FreeNews == [s \in Signals |-> 0]

\* The clamp of the handler is the kernel's, if the bounds are in order.
LEMMA InForceKnown ==
  ASSUME uclampOn \in BOOLEAN, NEW u \in Updates
  PROVE  LET lo == Bound(u.reqlo, u.lo, u.actlo)
             hi == Bound(u.reqhi, u.hi, u.acthi)
         IN  /\ u.util \in Nat /\ lo \in Int /\ hi \in Int /\ InForce(u) \in Int
             /\ InForce(u) # None => lo # Absent /\ hi # Absent /\ clamp(u.util, lo, hi) = InForce(u)
             /\ ~uclampOn => lo = Absent
<1>1. /\ u.util \in Nat /\ u.lo \in Nat /\ u.hi \in Nat /\ u.reqlo \in Nat /\ u.reqhi \in Nat
      /\ u.actlo \in BOOLEAN /\ u.acthi \in BOOLEAN
  <2>1. u \in [load : Nat, runnable : Nat, util : Nat, lo : Nat, hi : Nat,
               reqlo : Nat, reqhi : Nat, actlo : BOOLEAN, acthi : BOOLEAN]
    BY TaskAssumption
  <2> QED
    BY <2>1
<1>2. CASE ~uclampOn
  BY <1>1, <1>2 DEF Bound, InForce, None, Absent
<1>3. CASE uclampOn
  <2>1. PICK lo \in Nat : lo = IF u.actlo THEN u.lo ELSE u.reqlo
    BY <1>1
  <2>2. PICK hi \in Nat : hi = IF u.acthi THEN u.hi ELSE u.reqhi
    BY <1>1
  <2>3. Bound(u.reqlo, u.lo, u.actlo) = lo /\ Bound(u.reqhi, u.hi, u.acthi) = hi
    BY <1>3, <2>1, <2>2 DEF Bound
  <2>4. InForce(u) = IF lo > hi THEN None
                     ELSE IF u.util < lo THEN lo ELSE IF u.util > hi THEN hi ELSE u.util
    BY <1>3, <2>1, <2>2 DEF InForce
  <2>5. lo \in Nat /\ hi \in Nat
    BY <2>1, <2>2
  <2> QED
    BY <1>1, <1>3, <2>3, <2>4, <2>5 DEF clamp, None, Absent
<1> QED
  BY <1>2, <1>3

LEMMA SeStores ==
  ASSUME TaskTypeOK, NEW p \in Pids, NEW u \in Updates, PeltSe(p, TRUE, u)
  PROVE  Stores(p, SeRecord(p, u), SeNews(u)) /\ alive' = alive
<1>1. u.load \in Int /\ u.runnable \in Int /\ u.util \in Int
  <2>1. u \in [load : Nat, runnable : Nat, util : Nat, lo : Nat, hi : Nat,
               reqlo : Nat, reqhi : Nat, actlo : BOOLEAN, acthi : BOOLEAN]
    BY TaskAssumption
  <2> QED
    BY <2>1
<1>2. /\ InForce(u) \in Int
      /\ Bound(u.reqlo, u.lo, u.actlo) \in Int /\ Bound(u.reqhi, u.hi, u.acthi) \in Int
  BY InForceKnown DEF TaskTypeOK
<1>3. SeRecord(p, u) \in TaskRec /\ SeRecord(p, u).pid = p /\ SeRecord(p, u).comm = comm[p]
  BY <1>1, <1>2 DEF SeRecord, TaskRec, TaskTypeOK, Absent
<1>4. DOMAIN SeNews(u) \subseteq Signals /\ \A s \in DOMAIN SeNews(u) : SeNews(u)[s] \in Int
  BY <1>1, <1>2 DEF SeNews, Signals
<1>5. Store(p, SeRecord(p, u), SeNews(u)) /\ steps' = steps + 1 /\ UNCHANGED <<cmdVars, comm, alive, shown>>
  BY DEF PeltSe, Step, SeRecord, SeNews
<1> QED
  BY <1>3, <1>4, <1>5 DEF Stores

LEMMA EstStores ==
  ASSUME TaskTypeOK, NEW p \in Pids, NEW v \in EstVals, NEW flag \in BOOLEAN, UtilEstSe(p, v, flag)
  PROVE  Stores(p, EstRecord(p, v), EstNews(v)) /\ alive' = alive
<1>1. /\ v[1] \in Nat /\ v[2] \in Nat /\ v[1] < UTIL_AVG_UNCHANGED
      /\ UTIL_AVG_UNCHANGED \in Nat \ {0}
  BY TaskAssumption
<1>2. StoredUtilEst(IF flag THEN v[1] + UTIL_AVG_UNCHANGED ELSE v[1]) = v[1]
  <2>1. PICK a \in Nat : a = v[1] /\ a < UTIL_AVG_UNCHANGED
    BY <1>1
  <2>2. a % UTIL_AVG_UNCHANGED = a /\ (a + UTIL_AVG_UNCHANGED) % UTIL_AVG_UNCHANGED = a
    BY <1>1, <2>1
  <2> QED
    BY <2>1, <2>2 DEF StoredUtilEst
<1>3. EstRecord(p, v) \in TaskRec /\ EstRecord(p, v).pid = p /\ EstRecord(p, v).comm = comm[p]
  BY <1>1 DEF EstRecord, TaskRec, TaskTypeOK, Absent
<1>4. DOMAIN EstNews(v) \subseteq Signals /\ \A s \in DOMAIN EstNews(v) : EstNews(v)[s] \in Int
  BY <1>1 DEF EstNews, Signals
<1>5. Store(p, EstRecord(p, v), EstNews(v)) /\ steps' = steps + 1 /\ UNCHANGED <<cmdVars, comm, alive, shown>>
  BY <1>2 DEF UtilEstSe, Step, EstRecord, EstNews
<1> QED
  BY <1>3, <1>4, <1>5 DEF Stores

LEMMA FreeStores ==
  ASSUME TaskTypeOK, NEW p \in Pids, ProcessFree(p)
  PROVE  Stores(p, FreeRecord(p), FreeNews) /\ alive' = alive \ {p}
<1>1. FreeRecord(p) \in TaskRec /\ FreeRecord(p).pid = p /\ FreeRecord(p).comm = comm[p]
  BY DEF FreeRecord, TaskRec, TaskTypeOK
<1>2. DOMAIN FreeNews \subseteq Signals /\ \A s \in DOMAIN FreeNews : FreeNews[s] \in Int
  BY DEF FreeNews
<1> QED
  BY <1>1, <1>2 DEF ProcessFree, Step, FreeNews, Stores

\* The kernel's own steps, and the group entities handle_pelt_se() skips,
\* change the names and lives of tasks only.
Quiet == UNCHANGED <<cmdVars, ring, shown, kernel, under, dropped>>

LEMMA NextSteps ==
  ASSUME TaskTypeOK, Next
  PROVE  \/ \E p \in Pids, u \in Updates : Stores(p, SeRecord(p, u), SeNews(u)) /\ p \in alive /\ alive' = alive
         \/ \E p \in Pids, v \in EstVals : Stores(p, EstRecord(p, v), EstNews(v)) /\ p \in alive /\ alive' = alive
         \/ \E p \in Pids : Stores(p, FreeRecord(p), FreeNews) /\ alive' = alive \ {p}
         \/ Quiet /\ steps' = steps + 1 /\ UNCHANGED <<comm, alive>>
         \/ /\ Quiet /\ steps' = steps + 1
            /\ \E p \in Pids, cm \in Comms : alive' = alive \cup {p} /\ comm' = [comm EXCEPT ![p] = cm]
         \/ Handle
<1>1. ASSUME NEW p \in Pids, NEW isTask \in BOOLEAN, NEW u \in Updates, PeltSe(p, isTask, u)
      PROVE  \/ Stores(p, SeRecord(p, u), SeNews(u)) /\ p \in alive /\ alive' = alive
             \/ Quiet /\ steps' = steps + 1 /\ UNCHANGED <<comm, alive>>
  <2>1. CASE isTask
    <3>1. PeltSe(p, TRUE, u)
      BY <1>1, <2>1
    <3>2. p \in alive
      BY <1>1 DEF PeltSe
    <3> QED
      BY <3>1, <3>2, SeStores
  <2>2. CASE ~isTask
    BY <1>1, <2>2 DEF PeltSe, Step, Quiet
  <2> QED
    BY <2>1, <2>2
<1>2. ASSUME NEW p \in Pids, NEW v \in EstVals, NEW flag \in BOOLEAN, UtilEstSe(p, v, flag)
      PROVE  Stores(p, EstRecord(p, v), EstNews(v)) /\ p \in alive /\ alive' = alive
  <2>1. p \in alive
    BY <1>2 DEF UtilEstSe
  <2> QED
    BY <1>2, <2>1, EstStores
<1>3. ASSUME NEW p \in Pids, ProcessFree(p) PROVE Stores(p, FreeRecord(p), FreeNews) /\ alive' = alive \ {p}
  BY <1>3, FreeStores
<1>4. ASSUME NEW p \in Pids, NEW cm \in Comms, Fork(p, cm) \/ Rename(p, cm)
      PROVE  /\ Quiet /\ steps' = steps + 1
             /\ alive' = alive \cup {p} /\ comm' = [comm EXCEPT ![p] = cm]
  BY <1>4 DEF Fork, Rename, Step, Quiet
<1> QED
  BY <1>1, <1>2, <1>3, <1>4 DEF Next

-----------------------------------------------------------------------------
(* FilterInv.                                                              *)

LEMMA FilterInit == Init => FilterInv
<1> SUFFICES ASSUME Init PROVE FilterInv
  OBVIOUS
<1>1. TaskTypeOK
  BY EmptySeq DEF Init, TaskTypeOK, None
<1>2. \A n \in Tracks : shown[n] = None
  BY DEF Init
<1> QED
  BY <1>1, <1>2, TrackKnown DEF FilterInv, OnlySelected, OnlyAsked

LEMMA FilterInductive == FilterInv /\ [Next]_vars => FilterInv'
<1> SUFFICES ASSUME FilterInv, [Next]_vars PROVE FilterInv'
  OBVIOUS
<1>0. TaskTypeOK
  BY DEF FilterInv
<1>1. ASSUME TaskTypeOK', UNCHANGED <<cmdVars, shown>> PROVE FilterInv'
  BY <1>1 DEF FilterInv, OnlySelected, OnlyAsked, Selected, cmdVars
<1>2. ASSUME NEW p, NEW e, NEW news, Stores(p, e, news), alive' \subseteq Pids PROVE FilterInv'
  <2>1. TaskTypeOK'
    BY <1>0, <1>2, StoreTypes
  <2> QED
    BY <1>1, <1>2, <2>1 DEF Stores
<1>3. CASE Handle
  <2>1. TaskTypeOK' /\ UNCHANGED cmdVars
    BY <1>0, <1>3, HandleShows
  <2>2. ASSUME NEW p \in Pids, NEW cm \in Comms, NEW s \in Signals,
               shown'[TrackName(cm, p, s)] # shown[TrackName(cm, p, s)]
        PROVE  ~ignore_pid_comm(p, cm) /\ FlagOf(s) \in opts
    <3>1. PICK e : e = Head(ring)
      OBVIOUS
    <3>2. PICK n : n = TrackName(cm, p, s)
      OBVIOUS
    <3>3. n \in Tracks /\ e \in TaskRec
      BY <1>0, <1>3, <3>1, <3>2, TrackKnown, HandleShows
    <3>4. PICK x \in TaskSamples(e) :
            ~ignore_pid_comm(e.pid, e.comm) /\ TrackName(e.comm, e.pid, x[1]) = n
      BY <1>0, <1>3, <2>2, <3>1, <3>2, <3>3, HandleShows
    <3>5. x[1] \in Signals /\ FlagOf(x[1]) \in opts
      BY <3>3, SamplesKnown
    <3>6. e.comm = cm /\ e.pid = p /\ FlagOf(x[1]) = FlagOf(s)
      BY <3>2, <3>4, <3>5, TrackApart
    <3> QED
      BY <3>4, <3>5, <3>6
  <2>3. OnlySelected'
    <3> SUFFICES ASSUME NEW p \in Pids, NEW cm \in Comms, NEW s \in Signals,
                        shown'[TrackName(cm, p, s)] # None
                 PROVE  Selected(p, cm)
      BY <2>1 DEF OnlySelected, Selected, cmdVars
    <3> QED
      BY <2>2 DEF FilterInv, OnlySelected, Selected, ignore_pid_comm
  <2>4. OnlyAsked'
    <3> SUFFICES ASSUME NEW p \in Pids, NEW cm \in Comms, NEW s \in Signals,
                        shown'[TrackName(cm, p, s)] # None
                 PROVE  FlagOf(s) \in opts
      BY <2>1 DEF OnlyAsked, cmdVars
    <3> QED
      BY <2>2 DEF FilterInv, OnlyAsked
  <2> QED
    BY <2>1, <2>3, <2>4 DEF FilterInv
<1>4. ASSUME Quiet, steps' = steps + 1, UNCHANGED <<comm, alive>> PROVE FilterInv'
  <2>1. TaskTypeOK'
    BY <1>0, <1>4 DEF TaskTypeOK, Quiet, cmdVars
  <2> QED
    BY <1>1, <1>4, <2>1 DEF Quiet
<1>5. ASSUME Quiet, steps' = steps + 1, NEW p \in Pids, NEW cm \in Comms,
             alive' = alive \cup {p}, comm' = [comm EXCEPT ![p] = cm]
      PROVE  FilterInv'
  <2>1. TaskTypeOK'
    BY <1>0, <1>5 DEF TaskTypeOK, Quiet, cmdVars
  <2> QED
    BY <1>1, <1>5, <2>1 DEF Quiet
<1>6. CASE UNCHANGED vars
  <2>1. TaskTypeOK'
    BY <1>0, <1>6 DEF TaskTypeOK, vars, cmdVars
  <2> QED
    BY <1>1, <1>6, <2>1 DEF vars
<1>7. CASE Next
  <2>1. alive \subseteq Pids
    BY <1>0 DEF TaskTypeOK
  <2> QED
    BY <1>0, <1>2, <1>3, <1>4, <1>5, <1>7, <2>1, NextSteps
<1> QED
  BY <1>6, <1>7

-----------------------------------------------------------------------------
(* The latest value.  W[1] .. W[n] are the values the records in a ring    *)
(* will put on a track that shows v: the last that puts any puts k, or     *)
(* none does and k is shown.                                               *)

LastSays(W, n, v, k) ==
  \/ (\A i \in 1..n : W[i] = {}) /\ v = k
  \/ \E i \in 1..n : W[i] = {k} /\ \A j \in (i + 1)..n : W[j] = {}

\* A record is put behind the others.
LEMMA LastAppend ==
  ASSUME NEW n \in Nat, NEW W, NEW U, NEW v, NEW k,
         \A i \in 1..n : U[i] = W[i],
         U[n + 1] = {k} \/ (U[n + 1] = {} /\ LastSays(W, n, v, k))
  PROVE  LastSays(U, n + 1, v, k)
<1>1. CASE U[n + 1] = {k}
  <2>1. n + 1 \in 1..(n + 1) /\ \A j \in ((n + 1) + 1)..(n + 1) : U[j] = {}
    OBVIOUS
  <2> QED
    BY <1>1, <2>1 DEF LastSays
<1>2. CASE U[n + 1] = {} /\ LastSays(W, n, v, k)
  <2>1. CASE (\A i \in 1..n : W[i] = {}) /\ v = k
    <3>1. \A i \in 1..(n + 1) : U[i] = {}
      <4> SUFFICES ASSUME NEW i \in 1..(n + 1) PROVE U[i] = {}
        OBVIOUS
      <4>1. i \in 1..n \/ i = n + 1
        OBVIOUS
      <4> QED
        BY <4>1, <2>1, <1>2
    <3> QED
      BY <2>1, <3>1 DEF LastSays
  <2>2. ASSUME NEW i \in 1..n, W[i] = {k}, \A j \in (i + 1)..n : W[j] = {}
        PROVE  LastSays(U, n + 1, v, k)
    <3>1. i \in 1..(n + 1) /\ U[i] = {k}
      BY <2>2
    <3>2. \A j \in (i + 1)..(n + 1) : U[j] = {}
      <4> SUFFICES ASSUME NEW j \in (i + 1)..(n + 1) PROVE U[j] = {}
        OBVIOUS
      <4>1. (j \in (i + 1)..n /\ j \in 1..n) \/ j = n + 1
        OBVIOUS
      <4> QED
        BY <4>1, <2>2, <1>2
    <3> QED
      BY <3>1, <3>2 DEF LastSays
  <2> QED
    BY <1>2, <2>1, <2>2 DEF LastSays
<1> QED
  BY <1>1, <1>2

\* The oldest record is handled.
LEMMA LastTail ==
  ASSUME NEW n \in Nat, NEW W, NEW U, NEW v, NEW w, NEW k,
         \A i \in 1..n : U[i] = W[i + 1],
         IF W[1] = {} THEN w = v ELSE w \in W[1],
         LastSays(W, n + 1, v, k)
  PROVE  LastSays(U, n, w, k)
<1>1. CASE (\A i \in 1..(n + 1) : W[i] = {}) /\ v = k
  <2>1. \A i \in 1..n : i + 1 \in 1..(n + 1)
    OBVIOUS
  <2>2. \A i \in 1..n : U[i] = {}
    BY <1>1, <2>1
  <2>3. w = k
    <3>1. 1 \in 1..(n + 1)
      OBVIOUS
    <3> QED
      BY <1>1, <3>1
  <2> QED
    BY <2>2, <2>3 DEF LastSays
<1>2. ASSUME NEW i \in 1..(n + 1), W[i] = {k}, \A j \in (i + 1)..(n + 1) : W[j] = {}
      PROVE  LastSays(U, n, w, k)
  <2>1. CASE i = 1
    <3>1. w = k
      BY <1>2, <2>1
    <3>2. \A j \in 1..n : j + 1 \in (i + 1)..(n + 1)
      BY <2>1
    <3>3. \A j \in 1..n : U[j] = {}
      BY <1>2, <3>2
    <3> QED
      BY <3>1, <3>3 DEF LastSays
  <2>2. CASE i # 1
    <3>1. i - 1 \in 1..n /\ (i - 1) + 1 = i
      BY <2>2
    <3>2. U[i - 1] = {k}
      BY <1>2, <3>1
    <3>3. \A j \in ((i - 1) + 1)..n : j \in 1..n /\ j + 1 \in (i + 1)..(n + 1)
      BY <3>1
    <3>4. \A j \in ((i - 1) + 1)..n : U[j] = {}
      BY <1>2, <3>3
    <3> QED
      BY <3>1, <3>2, <3>4 DEF LastSays
  <2> QED
    BY <2>1, <2>2
<1> QED
  BY <1>1, <1>2 DEF LastSays

-----------------------------------------------------------------------------
(* TaskTracksCurrent.                                                      *)

\* A record tells of the signals the hit was about, and of no other.
Tells(p, e, news) ==
  \A s \in Signals :
    IF s \in DOMAIN news
    THEN FlagOf(s) \in opts /\ news[s] # None => Says(e, p, comm[p], s) = {news[s]}
    ELSE \A u : Says(e, p, u, s) = {}

LEMMA SeTells ==
  ASSUME TaskTypeOK, NEW p \in Pids, NEW w \in Updates
  PROVE  Tells(p, SeRecord(p, w), SeNews(w))
<1> DEFINE e == SeRecord(p, w)
           news == SeNews(w)
<1>1. w.load \in Nat /\ w.runnable \in Nat /\ w.util \in Nat
  <2>1. w \in [load : Nat, runnable : Nat, util : Nat, lo : Nat, hi : Nat,
               reqlo : Nat, reqhi : Nat, actlo : BOOLEAN, acthi : BOOLEAN]
    BY TaskAssumption
  <2> QED
    BY <2>1
<1>2. /\ e.pid = p /\ e.comm = comm[p] /\ e.load = w.load /\ e.runnable = w.runnable
      /\ e.util = w.util /\ e.est = Absent
      /\ e.lo = Bound(w.reqlo, w.lo, w.actlo) /\ e.hi = Bound(w.reqhi, w.hi, w.acthi)
  BY DEF SeRecord
<1>3. /\ DOMAIN news = {"load_avg", "runnable_avg", "util_avg", "uclamped_avg"}
      /\ news["load_avg"] = w.load /\ news["runnable_avg"] = w.runnable
      /\ news["util_avg"] = w.util /\ news["uclamped_avg"] = InForce(w)
  BY DEF SeNews
<1>4. /\ InForce(w) \in Int
      /\ InForce(w) # None => e.lo # Absent /\ e.hi # Absent /\ clamp(e.util, e.lo, e.hi) = InForce(w)
  BY <1>2, InForceKnown DEF TaskTypeOK
<1> HIDE DEF e, news
<1>5. w.load # Absent /\ w.runnable # Absent /\ w.util # Absent
  BY <1>1 DEF Absent
<1>6. \A s, v : <<s, v>> \in TaskSamples(e) <=>
        \/ s = "load_avg" /\ "load_avg_task" \in opts /\ v = w.load
        \/ s = "runnable_avg" /\ "runnable_avg_task" \in opts /\ v = w.runnable
        \/ s = "util_avg" /\ "util_avg_task" \in opts /\ v = w.util
        \/ /\ s = "uclamped_avg" /\ "util_avg_task" \in opts /\ e.lo # Absent /\ e.hi # Absent
           /\ v = clamp(e.util, e.lo, e.hi)
  BY <1>2, <1>5, TaskSays
<1>7. ASSUME NEW s \in Signals, s \notin DOMAIN news, NEW u PROVE Says(e, p, u, s) = {}
  BY <1>3, <1>6, <1>7 DEF Says
<1>8. ASSUME NEW s \in Signals, s \in DOMAIN news, FlagOf(s) \in opts, news[s] # None
      PROVE  Says(e, p, comm[p], s) = {news[s]}
  <2>1. CASE s = "load_avg"
    BY <1>1, <1>2, <1>3, <1>6, <1>8, <2>1 DEF Says, FlagOf
  <2>2. CASE s = "runnable_avg"
    BY <1>1, <1>2, <1>3, <1>6, <1>8, <2>2 DEF Says, FlagOf
  <2>3. CASE s = "util_avg"
    BY <1>1, <1>2, <1>3, <1>6, <1>8, <2>3 DEF Says, FlagOf
  <2>4. CASE s = "uclamped_avg"
    <3>1. /\ news[s] = InForce(w) /\ "util_avg_task" \in opts /\ e.lo # Absent /\ e.hi # Absent
          /\ clamp(e.util, e.lo, e.hi) = news[s] /\ news[s] \in Int
      BY <1>3, <1>4, <1>8, <2>4 DEF FlagOf
    <3> QED
      BY <1>2, <1>6, <2>4, <3>1 DEF Says
  <2> QED
    BY <1>3, <1>8, <2>1, <2>2, <2>3, <2>4
<1>9. Tells(p, e, news)
  BY <1>7, <1>8 DEF Tells
<1> QED
  BY <1>9 DEF e, news

LEMMA EstTells ==
  ASSUME NEW p \in Pids, NEW w \in EstVals
  PROVE  Tells(p, EstRecord(p, w), EstNews(w))
<1> DEFINE e == EstRecord(p, w)
           news == EstNews(w)
<1>1. w[1] \in Int /\ w[2] \in Int /\ w[1] # Absent
  BY TaskAssumption DEF Absent
<1>2. /\ e.pid = p /\ e.comm = comm[p] /\ e.load = Absent /\ e.runnable = Absent
      /\ e.util = Absent /\ e.est = w[1] /\ e.ewma = w[2]
  BY DEF EstRecord
<1>3. /\ DOMAIN news = {"util_est.enqueued", "util_est.ewma"}
      /\ news["util_est.enqueued"] = w[1] /\ news["util_est.ewma"] = w[2]
  BY DEF EstNews
<1> HIDE DEF e, news
<1>4. \A s, v : <<s, v>> \in TaskSamples(e) <=>
        \/ s = "util_est.enqueued" /\ "util_est_task" \in opts /\ v = w[1]
        \/ s = "util_est.ewma" /\ "util_est_task" \in opts /\ v = w[2]
  BY <1>1, <1>2, TaskSays
<1>5. ASSUME NEW s \in Signals, s \notin DOMAIN news, NEW u PROVE Says(e, p, u, s) = {}
  BY <1>3, <1>4, <1>5 DEF Says
<1>6. ASSUME NEW s \in Signals, s \in DOMAIN news, FlagOf(s) \in opts
      PROVE  Says(e, p, comm[p], s) = {news[s]}
  <2>1. "util_est_task" \in opts
    BY <1>3, <1>6 DEF FlagOf
  <2>2. CASE s = "util_est.enqueued"
    BY <1>1, <1>2, <1>3, <1>4, <2>1, <2>2 DEF Says
  <2>3. CASE s = "util_est.ewma"
    BY <1>1, <1>2, <1>3, <1>4, <2>1, <2>3 DEF Says
  <2> QED
    BY <1>3, <1>6, <2>2, <2>3
<1>7. Tells(p, e, news)
  BY <1>5, <1>6 DEF Tells
<1> QED
  BY <1>7 DEF e, news

\* The last record of a task is zero for everything that was asked for.
LEMMA FreeTells ==
  ASSUME NEW p \in Pids
  PROVE  Tells(p, FreeRecord(p), FreeNews)
<1> DEFINE e == FreeRecord(p)
<1>1. /\ e.pid = p /\ e.comm = comm[p] /\ e.load = 0 /\ e.runnable = 0 /\ e.util = 0
      /\ e.lo = 0 /\ e.hi = 0 /\ e.est = 0 /\ e.ewma = 0
  BY DEF FreeRecord
<1>2. DOMAIN FreeNews = Signals /\ \A s \in Signals : FreeNews[s] = 0
  BY DEF FreeNews
<1> HIDE DEF e
<1>3. clamp(0, 0, 0) = 0 /\ 0 # Absent
  BY DEF clamp, Absent
<1>4. ASSUME NEW s \in Signals, FlagOf(s) \in opts, NEW v
      PROVE  <<s, v>> \in TaskSamples(e) <=> v = 0
  BY <1>1, <1>3, <1>4, TaskSays DEF Signals, FlagOf
<1>5. \A s \in Signals : FlagOf(s) \in opts => Says(e, p, comm[p], s) = {0}
  BY <1>1, <1>4 DEF Says
<1>6. Tells(p, e, FreeNews)
  BY <1>2, <1>5 DEF Tells
<1> QED
  BY <1>6 DEF e

\* What the ring and the track have of a signal of a task is current.
Latest(p, s) ==
  LET u == under[p][s]
  IN  /\ FlagOf(s) \in opts /\ <<p, s>> \notin dropped /\ kernel[p][s] # None
      /\ ~ignore_pid_comm(p, u)
      /\ s = "util_est.enqueued" => ~Long(u)
      => LastSays([i \in 1..Len(ring) |-> Says(ring[i], p, u, s)], Len(ring),
                  shown[TrackName(u, p, s)], kernel[p][s])

CurInv == FilterInv /\ \A p \in Pids, s \in Signals : Latest(p, s)

\* The command line never changes, and what is said depends on nothing else.
LEMMA LatestPrimed ==
  ASSUME UNCHANGED cmdVars, NEW p, NEW s, NEW R, R = ring', NEW u, u = under'[p][s],
         /\ FlagOf(s) \in opts /\ <<p, s>> \notin dropped' /\ kernel'[p][s] # None
         /\ ~ignore_pid_comm(p, u)
         /\ s = "util_est.enqueued" => ~Long(u)
         => LastSays([i \in 1..Len(R) |-> Says(R[i], p, u, s)], Len(R),
                     shown'[TrackName(u, p, s)], kernel'[p][s])
  PROVE  Latest(p, s)'
<1>1. opts' = opts /\ pidFilter' = pidFilter /\ commFilter' = commFilter
  BY DEF cmdVars
<1> QED
  BY <1>1 DEF Latest, Says, TaskSamples, If, ignore_pid_comm

\* A hit that is stored becomes the last that is said; one that is not is
\* remembered in dropped.
LEMMA StoreKeepsLatest ==
  ASSUME TaskTypeOK, \A q \in Pids, s \in Signals : Latest(q, s),
         NEW p, NEW e, NEW news, Stores(p, e, news), Tells(p, e, news), alive' \subseteq Pids
  PROVE  \A q \in Pids, s \in Signals : Latest(q, s)'
<1> SUFFICES ASSUME NEW q \in Pids, NEW s \in Signals PROVE Latest(q, s)'
  OBVIOUS
<1>1. /\ p \in Pids /\ e \in TaskRec /\ e.pid = p /\ Store(p, e, news)
      /\ UNCHANGED cmdVars /\ shown' = shown
  BY DEF Stores
<1>2. IF q = p /\ s \in DOMAIN news
      THEN kernel'[q][s] = news[s] /\ under'[q][s] = comm[p]
      ELSE kernel'[q][s] = kernel[q][s] /\ under'[q][s] = under[q][s]
  BY StoreTypes
<1>3. PICK R : R = ring'
  OBVIOUS
<1>4. PICK u : u = under'[q][s]
  OBVIOUS
<1>5. PICK n : n = Len(ring)
  OBVIOUS
<1>6. ring \in Seq(TaskRec) /\ n \in Nat
  BY <1>5 DEF TaskTypeOK
<1> SUFFICES ASSUME FlagOf(s) \in opts, <<q, s>> \notin dropped', kernel'[q][s] # None,
                    ~ignore_pid_comm(q, u), s = "util_est.enqueued" => ~Long(u)
             PROVE  LastSays([i \in 1..Len(R) |-> Says(R[i], q, u, s)], Len(R),
                             shown[TrackName(u, q, s)], kernel'[q][s])
  BY <1>1, <1>3, <1>4, LatestPrimed
<1> DEFINE W == [i \in 1..n |-> Says(ring[i], q, u, s)]
<1>7. ASSUME ~(q = p /\ s \in DOMAIN news)
      PROVE  kernel'[q][s] = kernel[q][s] /\ LastSays(W, n, shown[TrackName(u, q, s)], kernel[q][s])
  <2>1. kernel'[q][s] = kernel[q][s] /\ under[q][s] = u
    BY <1>2, <1>4, <1>7
  <2>2. <<q, s>> \notin dropped
    BY <1>1, <1>7 DEF Store
  <2> QED
    BY <1>5, <2>1, <2>2 DEF Latest
<1>8. CASE Fits
  <2>1. R = Append(ring, e)
    BY <1>1, <1>3, <1>8 DEF Store
  <2>2. /\ Len(R) = n + 1 /\ R[n + 1] = e
        /\ \A i \in 1..n : R[i] = ring[i]
    BY <1>1, <1>5, <1>6, <2>1, AppendProperties
  <2> DEFINE U == [i \in 1..Len(R) |-> Says(R[i], q, u, s)]
  <2>3. U[n + 1] = Says(e, q, u, s)
    BY <1>6, <2>2
  <2>4. \A i \in 1..n : U[i] = W[i]
    BY <1>6, <2>2
  <2>5. U[n + 1] = {kernel'[q][s]}
        \/ (U[n + 1] = {} /\ LastSays(W, n, shown[TrackName(u, q, s)], kernel'[q][s]))
    <3>1. CASE q = p /\ s \in DOMAIN news
      BY <1>2, <1>4, <2>3, <3>1 DEF Tells
    <3>2. CASE ~(q = p /\ s \in DOMAIN news)
      <4>1. Says(e, q, u, s) = {}
        <5>1. CASE q # p
          BY <1>1, <5>1 DEF Says
        <5>2. CASE q = p
          BY <3>2, <5>2 DEF Tells
        <5> QED
          BY <5>1, <5>2
      <4> QED
        BY <1>7, <2>3, <3>2, <4>1
    <3> QED
      BY <3>1, <3>2
  <2> HIDE DEF U, W
  <2>6. LastSays(U, n + 1, shown[TrackName(u, q, s)], kernel'[q][s])
    BY <1>6, <2>4, <2>5, LastAppend
  <2> QED
    BY <2>2, <2>6 DEF U
<1>9. CASE ~Fits
  <2>1. R = ring
    BY <1>1, <1>3, <1>9 DEF Store
  <2>2. ~(q = p /\ s \in DOMAIN news)
    BY <1>1, <1>9 DEF Store
  <2> QED
    BY <1>5, <1>7, <2>1, <2>2
<1> QED
  BY <1>8, <1>9

\* The record the handler takes shows what it said.
LEMMA HandleKeepsLatest ==
  ASSUME TaskTypeOK, \A q \in Pids, s \in Signals : Latest(q, s), Handle
  PROVE  \A q \in Pids, s \in Signals : Latest(q, s)'
<1> SUFFICES ASSUME NEW q \in Pids, NEW s \in Signals PROVE Latest(q, s)'
  OBVIOUS
<1>1. PICK e : e = Head(ring)
  OBVIOUS
<1>2. PICK R : R = ring'
  OBVIOUS
<1>3. PICK u : u = under[q][s]
  OBVIOUS
<1>4. /\ ring # <<>> /\ R = Tail(ring) /\ UNCHANGED <<cmdVars, kernel, under, dropped>>
      /\ ring \in Seq(TaskRec) /\ u \in Comms
  BY <1>2, <1>3, HandleShows DEF TaskTypeOK
<1> SUFFICES ASSUME FlagOf(s) \in opts, <<q, s>> \notin dropped, kernel[q][s] # None,
                    ~ignore_pid_comm(q, u), s = "util_est.enqueued" => ~Long(u)
             PROVE  LastSays([i \in 1..Len(R) |-> Says(R[i], q, u, s)], Len(R),
                             shown'[TrackName(u, q, s)], kernel[q][s])
  BY <1>2, <1>3, <1>4, LatestPrimed
<1> DEFINE n == Len(R)
           W == [i \in 1..Len(ring) |-> Says(ring[i], q, u, s)]
           U == [i \in 1..n |-> Says(R[i], q, u, s)]
<1>5. LastSays(W, Len(ring), shown[TrackName(u, q, s)], kernel[q][s])
  BY <1>3 DEF Latest
<1>6. IF Says(e, q, u, s) = {} THEN shown'[TrackName(u, q, s)] = shown[TrackName(u, q, s)]
      ELSE shown'[TrackName(u, q, s)] \in Says(e, q, u, s)
  BY <1>1, <1>4, HandleSays
<1>7. /\ n \in Nat /\ Len(ring) = n + 1 /\ ring[1] = e
      /\ \A i \in 1..n : R[i] = ring[i + 1]
  <2>1. Len(ring) \in Nat \ {0}
    BY <1>4, EmptySeq
  <2> QED
    BY <1>1, <1>4, <2>1, HeadTailProperties
<1>8. W[1] = Says(e, q, u, s)
  <2>1. 1 \in 1..Len(ring)
    BY <1>7
  <2> QED
    BY <1>7, <2>1
<1>9. \A i \in 1..n : U[i] = W[i + 1]
  <2>1. \A i \in 1..n : i + 1 \in 1..Len(ring)
    BY <1>7
  <2> QED
    BY <1>7, <2>1
<1>10. n \in Nat /\ LastSays(W, n + 1, shown[TrackName(u, q, s)], kernel[q][s])
  BY <1>5, <1>7
<1> HIDE DEF n, U, W
<1>11. LastSays(U, n, shown'[TrackName(u, q, s)], kernel[q][s])
  BY <1>6, <1>8, <1>9, <1>10, LastTail
<1> QED
  BY <1>11 DEF U, n

\* All other steps leave ring, tracks and readings alone.
LEMMA QuietKeepsLatest ==
  ASSUME \A q \in Pids, s \in Signals : Latest(q, s), Quiet
  PROVE  \A q \in Pids, s \in Signals : Latest(q, s)'
<1> SUFFICES ASSUME NEW q \in Pids, NEW s \in Signals PROVE Latest(q, s)'
  OBVIOUS
<1>1. PICK R : R = ring
  OBVIOUS
<1>2. PICK u : u = under[q][s]
  OBVIOUS
<1>3. /\ FlagOf(s) \in opts /\ <<q, s>> \notin dropped /\ kernel[q][s] # None
      /\ ~ignore_pid_comm(q, u)
      /\ s = "util_est.enqueued" => ~Long(u)
      => LastSays([i \in 1..Len(R) |-> Says(R[i], q, u, s)], Len(R),
                  shown[TrackName(u, q, s)], kernel[q][s])
  BY <1>1, <1>2 DEF Latest
<1> QED
  BY <1>1, <1>2, <1>3, LatestPrimed DEF Quiet

LEMMA CurInductive == CurInv /\ [Next]_vars => CurInv'
<1> SUFFICES ASSUME CurInv, [Next]_vars PROVE CurInv'
  OBVIOUS
<1>0. FilterInv /\ TaskTypeOK /\ alive \subseteq Pids /\ \A q \in Pids, s \in Signals : Latest(q, s)
  BY DEF CurInv, FilterInv, TaskTypeOK
<1> SUFFICES \A q \in Pids, s \in Signals : Latest(q, s)'
  BY <1>0, FilterInductive DEF CurInv
<1>1. ASSUME NEW p, NEW e, NEW news, Stores(p, e, news), Tells(p, e, news), alive' \subseteq Pids
      PROVE  \A q \in Pids, s \in Signals : Latest(q, s)'
  BY <1>0, <1>1, StoreKeepsLatest
<1>2. CASE Quiet
  BY <1>0, <1>2, QuietKeepsLatest
<1>3. CASE UNCHANGED vars
  BY <1>2, <1>3 DEF vars, Quiet
<1>4. CASE Handle
  BY <1>0, <1>4, HandleKeepsLatest
<1>5. CASE Next
  <2>1. ASSUME NEW p \in Pids, NEW u \in Updates, Stores(p, SeRecord(p, u), SeNews(u)), alive' = alive
        PROVE  \A q \in Pids, s \in Signals : Latest(q, s)'
    BY <1>0, <1>1, <2>1, SeTells
  <2>2. ASSUME NEW p \in Pids, NEW v \in EstVals, Stores(p, EstRecord(p, v), EstNews(v)), alive' = alive
        PROVE  \A q \in Pids, s \in Signals : Latest(q, s)'
    BY <1>0, <1>1, <2>2, EstTells
  <2>3. ASSUME NEW p \in Pids, Stores(p, FreeRecord(p), FreeNews), alive' = alive \ {p}
        PROVE  \A q \in Pids, s \in Signals : Latest(q, s)'
    BY <1>0, <1>1, <2>3, FreeTells
  <2> QED
    BY <1>0, <1>2, <1>4, <1>5, <2>1, <2>2, <2>3, NextSteps
<1> QED
  BY <1>3, <1>5

LEMMA CurInit == Init => CurInv
<1> SUFFICES ASSUME Init PROVE CurInv
  OBVIOUS
<1>1. \A p \in Pids, s \in Signals : kernel[p][s] = None
  BY DEF Init
<1> QED
  BY <1>1, FilterInit DEF CurInv, Latest

\* With the ring drained the latest value is on the track.
LEMMA LatestIsCurrent ==
  ASSUME NEW p, NEW s, Latest(p, s), s = "util_est.enqueued" => ~Long(under[p][s])
  PROVE  Current(p, s)
<1> SUFFICES ASSUME FlagOf(s) \in opts, ring = <<>>, <<p, s>> \notin dropped, kernel[p][s] # None,
                    ~ignore_pid_comm(p, under[p][s])
             PROVE  shown[TrackName(under[p][s], p, s)] = kernel[p][s]
  BY DEF Current, Selected, ignore_pid_comm
<1>1. Len(ring) = 0
  BY EmptySeq
<1> QED
  BY <1>1 DEF Latest, LastSays

\* Every task signal is current on its track, for any tasks, names and filters.
THEOREM TaskTracksAreCurrent == Spec => []TaskTracksCurrent
<1>1. CurInv => TaskTracksCurrent
  BY LatestIsCurrent DEF CurInv, TaskTracksCurrent
<1> QED
  BY <1>1, CurInit, CurInductive, PTL DEF Spec

-----------------------------------------------------------------------------
(* ZeroedUnderLastName.                                                    *)

\* A freed task was last hit by handle_sched_process_free(), under the name it
\* still has, for all of its signals at once.
FreedLast ==
  \A p \in Pids \ alive, s \in Signals :
    /\ kernel[p][s] = 0 /\ under[p][s] = comm[p]
    /\ \A t \in Signals : <<p, s>> \in dropped => <<p, t>> \in dropped

LEMMA FreedInductive == TaskTypeOK /\ FreedLast /\ [Next]_vars => FreedLast'
<1> SUFFICES ASSUME TaskTypeOK, FreedLast, [Next]_vars PROVE FreedLast'
  OBVIOUS
<1>1. alive \subseteq Pids /\ comm \in [Pids -> Comms]
  BY DEF TaskTypeOK
<1>2. ASSUME NEW p, NEW e, NEW news, Stores(p, e, news), p \in alive, alive' = alive
      PROVE  FreedLast'
  <2> SUFFICES ASSUME NEW q \in Pids \ alive, NEW s \in Signals
               PROVE  /\ kernel'[q][s] = 0 /\ under'[q][s] = comm'[q]
                      /\ \A t \in Signals : <<q, s>> \in dropped' => <<q, t>> \in dropped'
    BY <1>2 DEF FreedLast
  <2>1. kernel'[q][s] = kernel[q][s] /\ under'[q][s] = under[q][s] /\ comm' = comm
    BY <1>1, <1>2, StoreTypes DEF Stores
  <2>2. \A t : <<q, t>> \in dropped' <=> <<q, t>> \in dropped
    BY <1>2 DEF Stores, Store
  <2> QED
    BY <2>1, <2>2 DEF FreedLast
<1>3. ASSUME NEW p \in Pids, Stores(p, FreeRecord(p), FreeNews), alive' = alive \ {p}
      PROVE  FreedLast'
  <2>1. DOMAIN FreeNews = Signals /\ \A s \in Signals : FreeNews[s] = 0
    BY DEF FreeNews
  <2>2. comm' = comm
    BY <1>3 DEF Stores
  <2> SUFFICES ASSUME NEW q \in Pids \ alive', NEW s \in Signals
               PROVE  /\ kernel'[q][s] = 0 /\ under'[q][s] = comm[q]
                      /\ \A t \in Signals : <<q, s>> \in dropped' => <<q, t>> \in dropped'
    BY <2>2 DEF FreedLast
  <2>3. CASE q = p
    <3>1. kernel'[q][s] = 0 /\ under'[q][s] = comm[q]
      BY <1>1, <1>3, <2>1, <2>3, StoreTypes
    <3>2. \A t \in Signals : <<q, s>> \in dropped' => <<q, t>> \in dropped'
      BY <1>3, <2>1, <2>3 DEF Stores, Store
    <3> QED
      BY <3>1, <3>2
  <2>4. CASE q # p
    <3>1. q \in Pids \ alive
      BY <1>3, <2>4
    <3>2. kernel'[q][s] = kernel[q][s] /\ under'[q][s] = under[q][s]
      BY <1>1, <1>3, <2>4, StoreTypes
    <3>3. \A t : <<q, t>> \in dropped' <=> <<q, t>> \in dropped
      BY <1>3, <2>4 DEF Stores, Store
    <3> QED
      BY <3>1, <3>2, <3>3 DEF FreedLast
  <2> QED
    BY <2>3, <2>4
<1>4. CASE Handle
  BY <1>4 DEF Handle, FreedLast
<1>5. ASSUME Quiet, UNCHANGED <<comm, alive>> PROVE FreedLast'
  BY <1>5 DEF Quiet, FreedLast
<1>6. ASSUME Quiet, NEW p \in Pids, NEW cm \in Comms,
             alive' = alive \cup {p}, comm' = [comm EXCEPT ![p] = cm]
      PROVE  FreedLast'
  <2>1. \A q \in Pids \ alive' : q \in Pids \ alive /\ comm'[q] = comm[q]
    BY <1>1, <1>6
  <2> QED
    BY <1>6, <2>1 DEF Quiet, FreedLast
<1>7. CASE UNCHANGED vars
  BY <1>5, <1>7 DEF vars, Quiet
<1>8. CASE Next
  BY <1>2, <1>3, <1>4, <1>5, <1>6, <1>8, NextSteps
<1> QED
  BY <1>7, <1>8

\* Once the record of its end is handled, the tracks under the last name of a
\* task are zero, for any tasks, names and filters.
THEOREM TasksZeroed == Spec => []ZeroedUnderLastName
<1>1. Init => FreedLast
  BY DEF Init, FreedLast
<1>2. CurInv => TaskTypeOK
  BY DEF CurInv, FilterInv
<1>3. CurInv /\ FreedLast => ZeroedUnderLastName
  <2> SUFFICES ASSUME CurInv, FreedLast, NEW p \in Pids \ alive, NEW t \in Signals,
                      ring = <<>>, <<p, t>> \notin dropped
               PROVE  shown[TrackName(comm[p], p, t)] \in {None, 0}
    BY DEF ZeroedUnderLastName
  <2>1. PICK s \in Signals :
          /\ TrackName(comm[p], p, s) = TrackName(comm[p], p, t)
          /\ s = "util_est.enqueued" => ~Long(comm[p])
    <3>1. CASE t = "util_est.enqueued" /\ Long(comm[p])
      <4>1. "util_est.ewma" \in Signals
        BY DEF Signals
      <4>2. TrackName(comm[p], p, "util_est.ewma") = TrackName(comm[p], p, t)
        BY <3>1 DEF TrackName, TrackSignal, Long
      <4> QED
        BY <4>1, <4>2
    <3>2. CASE ~(t = "util_est.enqueued" /\ Long(comm[p]))
      BY <3>2
    <3> QED
      BY <3>1, <3>2
  <2>2. kernel[p][s] = 0 /\ under[p][s] = comm[p] /\ <<p, s>> \notin dropped
    BY DEF FreedLast
  <2>3. comm[p] \in Comms
    BY <1>2 DEF TaskTypeOK
  <2>4. CASE FlagOf(s) \notin opts
    BY <2>1, <2>3, <2>4 DEF CurInv, FilterInv, OnlyAsked
  <2>5. CASE ignore_pid_comm(p, comm[p])
    BY <2>1, <2>3, <2>5 DEF CurInv, FilterInv, OnlySelected, Selected, ignore_pid_comm
  <2>6. CASE FlagOf(s) \in opts /\ ~ignore_pid_comm(p, comm[p])
    <3>1. Current(p, s)
      BY <2>1, <2>2, LatestIsCurrent DEF CurInv
    <3>2. kernel[p][s] # None
      BY <2>2 DEF None
    <3> QED
      BY <2>1, <2>2, <2>6, <3>1, <3>2 DEF Current, Selected, ignore_pid_comm
  <2> QED
    BY <2>4, <2>5, <2>6
<1> QED
  BY <1>1, <1>2, <1>3, CurInit, CurInductive, FreedInductive, PTL DEF Spec
=============================================================================
