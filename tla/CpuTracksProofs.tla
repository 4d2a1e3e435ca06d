-------------------------- MODULE CpuTracksProofs --------------------------
(***************************************************************************)
(* Proofs about the per-CPU signals for any CPUs, values, command lines    *)
(* and ring sizes.  What a handler emits depends on the record and on the  *)
(* options only, which never change; so every record in a ring is known    *)
(* to say something of a track or nothing, and the last one that does says *)
(* what the kernel had at the last hit.                                    *)
(***************************************************************************)
EXTENDS CpuTracks, SequenceTheorems, TLAPS

\* The members of a record: values, or the -1 of a member that is not filled.
Member == Vals \cup {Absent}

PeltRec ==
  {e \in [cpu : Cpus, type : PeltTypes \cup {"minus1"}, load : Member, runnable : Member,
          util : Member, est : Member, lo : Member, hi : Member] :
     e.type = "THERMAL" => e.load # Absent}
NrRec == [cpu : Cpus, nr : Vals]
IdleRec == [cpu : Cpus, state : Vals \cup {-1}, miss : {-1, 0, 1}]

Rec(r) == CASE r = "rq_pelt" -> PeltRec [] r = "rq_nr_running" -> NrRec [] r = "freq_idle" -> IdleRec

CpuTypeOK ==
  /\ \A r \in Rings : rings[r] \in Seq(Rec(r))
  /\ rings = [r \in Rings |-> rings[r]]
  /\ shown \in [Cpus -> [Signals -> Int]]
  /\ kernel \in [Cpus -> [Signals -> Int]]
  /\ hits \in Nat

\* A sample may be on track s: an option that feeds it was given.
Requested(s) ==
  \/ FlagOf(s) \subseteq opts
  \/ s = "util_avg_rt" /\ {"util_avg_dl", "util_avg_irq"} \cap opts # {}

CpuInv == CpuTypeOK /\ NoAbsentShown /\ OnlyRequested

-----------------------------------------------------------------------------
(* What a handler emits for one record.                                    *)

\* The remainder is the one of the division with remainder.
LEMMA Remainder ==
  ASSUME NEW b \in Nat \ {0}, NEW q \in Int, NEW r \in 0..(b - 1), NEW a \in Int, a = b * q + r
  PROVE  a % b = r
OBVIOUS

\* The memory under the type of a util_est record is never the type of an
\* earlier one: 80 bytes per record and 256 KiB per lap leave 36 bytes of
\* shift, the upper half of an unsigned long.
LEMMA StaleTypesKnown == StaleTypes = {"CFS", "minus1"}
<1>1. ByteUnderType = 36
  <2>1. ASSUME NEW a \in Int, a = 0 - 262124 PROVE a % 80 = 36
    <3>1. PICK q \in Int : q = 0 - 3277
      BY SMT
    <3>2. PICK b \in Nat \ {0} : b = 80
      BY SMT
    <3>3. a = b * q + 36 /\ 36 \in 0..(b - 1)
      BY <2>1, <3>1, <3>2, SMT
    <3>4. a % b = 36
      BY <3>3, Remainder, SMT
    <3> QED
      BY <3>2, <3>4
  <2>2. REC_HDR + TYPE_AT - RB_BYTES = 0 - 262124 /\ REC_BYTES = 80
    BY SMT DEF REC_HDR, TYPE_AT, RB_BYTES, REC_BYTES
  <2> QED
    BY <2>1, <2>2, SMT DEF ByteUnderType
<1>2. 36 \in UpperHalves
  <2>1. 1 \in 0..6 /\ 36 = REC_HDR + 16 + 8 * 1 + 4
    BY DEF REC_HDR
  <2> QED
    BY <2>1 DEF UpperHalves
<1> QED
  BY <1>1, <1>2 DEF StaleTypes

\* Samples are pairs of a track of the ring's own and a value; a track of a
\* signal nobody asked for gets none, and the -1 of a member that was not
\* filled is none.
LEMMA SamplesKnown ==
  ASSUME NEW r \in Rings, NEW e \in Rec(r), NEW x \in Samples(r, e)
  PROVE  /\ x = <<x[1], x[2]>> /\ x[1] \in Signals /\ x[2] \in Int
         /\ RingOf(x[1]) = r
         /\ Requested(x[1])
         /\ x[1] # "idle_state" => x[2] # Absent
<1> USE DEF Signals
<1>0. Vals \subseteq Nat
  BY CpuAssumption
<1>1. CASE r = "rq_pelt"
  <2>1. /\ e \in [cpu : Cpus, type : PeltTypes \cup {"minus1"}, load : Member, runnable : Member,
                  util : Member, est : Member, lo : Member, hi : Member]
        /\ e.type = "THERMAL" => e.load # Absent
    BY <1>1 DEF Rec, PeltRec
  <2>2. /\ e.load \in Int /\ e.runnable \in Int /\ e.util \in Int /\ e.est \in Int
        /\ e.lo \in Int /\ e.hi \in Int
    <3>1. Member \subseteq Int
      BY <1>0 DEF Member, Absent
    <3> QED
      BY <2>1, <3>1
  <2>3. x \in RqPeltSamples(e)
    BY <1>1 DEF Samples
  <2>4. CASE x \in FairSamples(e)
    BY <1>1, <2>2, <2>4 DEF FairSamples, If, RingOf, Requested, FlagOf
  <2>5. CASE x \in If(e.type = "THERMAL" /\ "load_avg_thermal" \in opts, "load_avg_thermal", e.load)
    BY <1>1, <2>1, <2>2, <2>5 DEF If, RingOf, Requested, FlagOf
  <2>6. CASE e.util # Absent /\ x \in UtilSamples(e)
    <3>1. CASE e.type = "CFS"
      <4>1. \/ "util_avg_cpu" \in opts /\ x = <<"util_avg", e.util>>
            \/ /\ "util_avg_cpu" \in opts /\ e.lo # Absent /\ e.hi # Absent
               /\ x = <<"uclamped_avg", clamp(e.util, e.lo, e.hi)>>
        BY <2>6, <3>1 DEF UtilSamples, If
      <4>2. clamp(e.util, e.lo, e.hi) \in {e.util, e.lo, e.hi}
        BY DEF clamp
      <4> QED
        BY <1>1, <2>2, <2>6, <4>1, <4>2 DEF RingOf, Requested, FlagOf
    <3>2. CASE e.type \in {"RT", "DL", "IRQ"}
      <4>1. FlagOfType(e.type) \in opts /\ x = <<"util_avg_rt", e.util>>
        BY <2>6, <3>2 DEF UtilSamples, If, TrackOfType
      <4>2. FlagOfType(e.type) \in {"util_avg_rt", "util_avg_dl", "util_avg_irq"}
        BY <3>2 DEF FlagOfType
      <4> QED
        BY <1>1, <2>2, <2>6, <4>1, <4>2 DEF RingOf, Requested, FlagOf
    <3>3. CASE e.type \notin {"CFS", "RT", "DL", "IRQ"}
      BY <2>6, <3>3 DEF UtilSamples
    <3> QED
      BY <3>1, <3>2, <3>3
  <2>7. CASE x \in If("util_est_cpu" \in opts /\ e.est # Absent, "util_est", e.est)
    BY <1>1, <2>2, <2>7 DEF If, RingOf, Requested, FlagOf
  <2> QED
    BY <2>3, <2>4, <2>5, <2>6, <2>7 DEF RqPeltSamples
<1>2. CASE r = "rq_nr_running"
  <2>1. e.nr \in Nat
    BY <1>0, <1>2 DEF Rec, NrRec
  <2>2. "cpu_nr_running" \in opts /\ x = <<"nr_running", e.nr>>
    BY <1>2 DEF Samples, NrRunningSamples
  <2> QED
    BY <1>2, <2>1, <2>2 DEF RingOf, Requested, FlagOf, Absent
<1>3. CASE r = "freq_idle"
  <2>1. e.state \in Int
    BY <1>0, <1>3 DEF Rec, IdleRec
  <2>2. "cpu_idle" \in opts /\ x = <<"idle_state", e.state>>
    BY <1>3 DEF Samples, FreqIdleSamples
  <2> QED
    BY <1>3, <2>1, <2>2 DEF RingOf, Requested, FlagOf
<1> QED
  BY <1>1, <1>2, <1>3 DEF Rings

-----------------------------------------------------------------------------
(* The programs store well-formed records.                                 *)

\* What a hit changes, provided that the record and the values are sound.
LEMMA HitTypes ==
  ASSUME CpuTypeOK, NEW c \in Cpus, NEW r \in Rings, NEW e \in Rec(r), NEW news,
         \A s \in DOMAIN news : news[s] \in Int, Hit(c, r, e, news)
  PROVE  /\ CpuTypeOK'
         /\ opts' = opts /\ fields' = fields /\ shown' = shown
         /\ \A d \in Cpus, s \in Signals :
              kernel'[d][s] = IF d = c /\ s \in DOMAIN news THEN news[s] ELSE kernel[d][s]
<1>1. /\ opts' = opts /\ fields' = fields /\ shown' = shown /\ hits' = hits + 1
      /\ kernel' = [kernel EXCEPT ![c] = [s \in Signals |->
                      IF s \in DOMAIN news THEN news[s] ELSE @[s]]]
  BY DEF Hit
<1>2. kernel \in [Cpus -> [Signals -> Int]]
  BY DEF CpuTypeOK
<1>3. [s \in Signals |-> IF s \in DOMAIN news THEN news[s] ELSE kernel[c][s]] \in [Signals -> Int]
  BY <1>2
<1>4. kernel' \in [Cpus -> [Signals -> Int]]
  BY <1>1, <1>2, <1>3
<1>5. \A d \in Cpus, s \in Signals :
        kernel'[d][s] = IF d = c /\ s \in DOMAIN news THEN news[s] ELSE kernel[d][s]
  BY <1>1, <1>2
<1>6. rings' = [q \in Rings |-> rings'[q]] /\ \A q \in Rings : rings'[q] \in Seq(Rec(q))
  <2>1. rings = [q \in Rings |-> rings[q]] /\ \A q \in Rings : rings[q] \in Seq(Rec(q))
    BY DEF CpuTypeOK
  <2>2. CASE Fits(r)
    <3>1. rings' = [rings EXCEPT ![r] = Append(rings[r], e)]
      BY <2>2 DEF Hit
    <3>2. Append(rings[r], e) \in Seq(Rec(r))
      BY <2>1, AppendProperties
    <3> QED
      BY <2>1, <3>1, <3>2
  <2>3. CASE ~Fits(r)
    BY <2>1, <2>3 DEF Hit
  <2> QED
    BY <2>2, <2>3
<1> QED
  BY <1>1, <1>4, <1>5, <1>6 DEF CpuTypeOK

\* A hit on CPU c that may store e and gives the signals of news new values.
Stores(c, r, e, news) ==
  /\ c \in Cpus /\ r \in Rings /\ e \in Rec(r) /\ e.cpu = c
  /\ \A s \in DOMAIN news : news[s] \in Int
  /\ Hit(c, r, e, news)

\* Uclamped is one of its arguments, or None.
LEMMA UclampedInt ==
  ASSUME NEW v \in Nat, NEW lo \in Nat, NEW hi \in Nat
  PROVE  Uclamped(v, lo, hi) \in Int /\ (lo <= hi => Uclamped(v, lo, hi) = clamp(v, lo, hi))
<1>1. CASE lo > hi
  BY <1>1 DEF Uclamped, None
<1>2. CASE ~(lo > hi)
  <2> DEFINE P(x) == lo <= x /\ x <= hi /\ (v \in lo..hi => x = v)
                       /\ (v < lo => x = lo) /\ (v > hi => x = hi)
  <2>1. clamp(v, lo, hi) \in {v, lo, hi} /\ P(clamp(v, lo, hi))
    BY <1>2 DEF clamp
  <2>2. \A x \in {v, lo, hi} : P(x) => x = clamp(v, lo, hi)
    BY <1>2 DEF clamp
  <2>3. Uclamped(v, lo, hi) = CHOOSE x \in {v, lo, hi} : P(x)
    BY <1>2 DEF Uclamped
  <2>4. Uclamped(v, lo, hi) \in {v, lo, hi} /\ P(Uclamped(v, lo, hi))
    <3> HIDE DEF P
    <3> QED
      BY <2>1, <2>3
  <2> HIDE DEF P
  <2> QED
    BY <2>1, <2>2, <2>4
<1> QED
  BY <1>1, <1>2

\* A record of the rq_pelt ring is well-formed when its members are.
LEMMA PeltRecordOK ==
  ASSUME NEW c \in Cpus, NEW type \in PeltTypes \cup {"minus1"}, NEW load \in Member,
         NEW runnable \in Member, NEW util \in Member, NEW est \in Member, NEW lo \in Member,
         NEW hi \in Member, type = "THERMAL" => load # Absent
  PROVE  /\ PeltRecord(c, type, load, runnable, util, est, lo, hi) \in Rec("rq_pelt")
         /\ PeltRecord(c, type, load, runnable, util, est, lo, hi).cpu = c
BY DEF PeltRecord, Rec, PeltRec

\* handle_pelt_cfs()
CfsRecord(c, u) ==
  PeltRecord(c, "CFS", u.load, u.runnable, u.util, Absent,
             IF uclampOn THEN u.lo ELSE Absent, IF uclampOn THEN u.hi ELSE Absent)
CfsNews(u) ==
  [load_avg |-> u.load, runnable_avg |-> u.runnable, util_avg |-> u.util,
   uclamped_avg |-> IF uclampOn THEN Uclamped(u.util, u.lo, u.hi) ELSE None]

LEMMA CfsStores ==
  ASSUME CpuTypeOK, NEW c \in Cpus, NEW u \in CfsUpdates, PeltCfs(c, TRUE, u)
  PROVE  Stores(c, "rq_pelt", CfsRecord(c, u), CfsNews(u))
<1>1. /\ u \in [load : Vals, runnable : Vals, util : Vals, lo : Vals, hi : Vals]
      /\ Vals \subseteq Nat
  BY CpuAssumption
<1>2. u.load \in Member /\ u.runnable \in Member /\ u.util \in Member /\ u.lo \in Member
      /\ u.hi \in Member /\ Absent \in Member
  BY <1>1 DEF Member
<1>3. CfsRecord(c, u) \in Rec("rq_pelt") /\ CfsRecord(c, u).cpu = c
  <2>1. "CFS" \in PeltTypes \cup {"minus1"} /\ "CFS" # "THERMAL"
    BY DEF PeltTypes
  <2>2. PICK lo \in Member : lo = IF uclampOn THEN u.lo ELSE Absent
    BY <1>2
  <2>3. PICK hi \in Member : hi = IF uclampOn THEN u.hi ELSE Absent
    BY <1>2
  <2>4. PICK load \in Member, runnable \in Member, util \in Member, est \in Member :
          load = u.load /\ runnable = u.runnable /\ util = u.util /\ est = Absent
    BY <1>2
  <2>5. CfsRecord(c, u) = PeltRecord(c, "CFS", load, runnable, util, est, lo, hi)
    BY <2>2, <2>3, <2>4 DEF CfsRecord
  <2>6. PICK type \in PeltTypes \cup {"minus1"} : type = "CFS"
    BY <2>1
  <2>7. /\ PeltRecord(c, type, load, runnable, util, est, lo, hi) \in Rec("rq_pelt")
        /\ PeltRecord(c, type, load, runnable, util, est, lo, hi).cpu = c
    <3>1. /\ load \in Member /\ runnable \in Member /\ util \in Member /\ est \in Member
          /\ lo \in Member /\ hi \in Member /\ type \in PeltTypes \cup {"minus1"}
          /\ type # "THERMAL"
      BY <2>2, <2>3, <2>4, <2>6
    <3> QED
      BY <3>1 DEF PeltRecord, Rec, PeltRec
  <2> QED
    BY <2>5, <2>6, <2>7
<1>4. \A s \in DOMAIN CfsNews(u) : CfsNews(u)[s] \in Int
  <2>1. Uclamped(u.util, u.lo, u.hi) \in Int /\ u.load \in Int /\ u.runnable \in Int /\ u.util \in Int
    <3>1. u.load \in Nat /\ u.runnable \in Nat /\ u.util \in Nat /\ u.lo \in Nat /\ u.hi \in Nat
      BY <1>1
    <3> QED
      BY <3>1, UclampedInt
  <2> QED
    BY <2>1 DEF CfsNews, None
<1>5. Hit(c, "rq_pelt", CfsRecord(c, u), CfsNews(u))
  BY DEF PeltCfs, CfsRecord, CfsNews
<1> QED
  BY <1>3, <1>4, <1>5 DEF Stores, Rings

\* handle_util_est_cfs(): the flag is masked out again.
EstRecord(c, val, stale) == PeltRecord(c, stale, Absent, Absent, Absent, val, Absent, Absent)

LEMMA EstStores ==
  ASSUME CpuTypeOK, NEW c \in Cpus, NEW val \in Vals, NEW flag \in BOOLEAN,
         NEW stale \in StaleTypes, UtilEstCfs(c, TRUE, val, flag, stale)
  PROVE  Stores(c, "rq_pelt", EstRecord(c, val, stale), [util_est |-> val])
<1>1. val \in Nat /\ val < UTIL_AVG_UNCHANGED /\ UTIL_AVG_UNCHANGED \in Nat \ {0}
  BY CpuAssumption
<1>2. StoredUtilEst(IF flag THEN val + UTIL_AVG_UNCHANGED ELSE val) = val
  <2>1. val % UTIL_AVG_UNCHANGED = val
    BY <1>1
  <2>2. (val + UTIL_AVG_UNCHANGED) % UTIL_AVG_UNCHANGED = val
    BY <1>1
  <2> QED
    BY <2>1, <2>2 DEF StoredUtilEst
<1>3. Hit(c, "rq_pelt", EstRecord(c, val, stale), [util_est |-> val])
  BY <1>2 DEF UtilEstCfs, EstRecord
<1>4. stale \in PeltTypes \cup {"minus1"} /\ stale # "THERMAL"
  BY StaleTypesKnown DEF PeltTypes
<1>5. EstRecord(c, val, stale) \in Rec("rq_pelt") /\ EstRecord(c, val, stale).cpu = c
  <2>1. val \in Member /\ Absent \in Member
    BY DEF Member
  <2> QED
    BY <1>4, <2>1, PeltRecordOK DEF EstRecord
<1> QED
  BY <1>1, <1>3, <1>5 DEF Stores, Rings

\* handle_pelt_rt(), handle_pelt_dl(), handle_pelt_irq()
RtRecord(c, type, val) == PeltRecord(c, type, Absent, Absent, val, Absent, Absent, Absent)

LEMMA RtStores ==
  ASSUME CpuTypeOK, NEW c \in Cpus, NEW val \in Vals
  PROVE  /\ PeltRt(c, val) => PassedOver \/ Stores(c, "rq_pelt", RtRecord(c, "RT", val), [util_avg_rt |-> val])
         /\ PeltDl(c, val) => PassedOver \/ Stores(c, "rq_pelt", RtRecord(c, "DL", val), [util_avg_dl |-> val])
         /\ PeltIrq(c, val) => PassedOver \/ Stores(c, "rq_pelt", RtRecord(c, "IRQ", val), [util_avg_irq |-> val])
<1>1. val \in Int /\ val \in Member /\ Absent \in Member
  BY CpuAssumption DEF Member
<1>2. \A type \in {"RT", "DL", "IRQ"} :
        RtRecord(c, type, val) \in Rec("rq_pelt") /\ RtRecord(c, type, val).cpu = c
  <2> SUFFICES ASSUME NEW type \in {"RT", "DL", "IRQ"}
               PROVE  RtRecord(c, type, val) \in Rec("rq_pelt") /\ RtRecord(c, type, val).cpu = c
    OBVIOUS
  <2>1. type \in PeltTypes \cup {"minus1"} /\ type # "THERMAL"
    BY DEF PeltTypes
  <2> QED
    BY <1>1, <2>1, PeltRecordOK DEF RtRecord
<1>3. PeltRt(c, val) => PassedOver \/ Stores(c, "rq_pelt", RtRecord(c, "RT", val), [util_avg_rt |-> val])
  BY <1>1, <1>2 DEF PeltRt, RtRecord, Stores, Rings
<1>4. PeltDl(c, val) => PassedOver \/ Stores(c, "rq_pelt", RtRecord(c, "DL", val), [util_avg_dl |-> val])
  BY <1>1, <1>2 DEF PeltDl, RtRecord, Stores, Rings
<1>5. PeltIrq(c, val) => PassedOver \/ Stores(c, "rq_pelt", RtRecord(c, "IRQ", val), [util_avg_irq |-> val])
  BY <1>1, <1>2 DEF PeltIrq, RtRecord, Stores, Rings
<1> QED
  BY <1>3, <1>4, <1>5

\* handle_pelt_thermal()
ThermalRecord(c, val) == PeltRecord(c, "THERMAL", val, Absent, Absent, Absent, Absent, Absent)

LEMMA ThermalStores ==
  ASSUME CpuTypeOK, NEW c \in Cpus, NEW val \in Vals, PeltThermal(c, val), ~PassedOver
  PROVE  Stores(c, "rq_pelt", ThermalRecord(c, val), [load_avg_thermal |-> val])
<1>1. val \in Int /\ val \in Member /\ val # Absent /\ Absent \in Member
  BY CpuAssumption DEF Member, Absent
<1>2. "THERMAL" \in PeltTypes \cup {"minus1"}
  BY DEF PeltTypes
<1>3. ThermalRecord(c, val) \in Rec("rq_pelt") /\ ThermalRecord(c, val).cpu = c
  BY <1>1, <1>2, PeltRecordOK DEF ThermalRecord
<1> QED
  BY <1>1, <1>3 DEF PeltThermal, ThermalRecord, Stores, Rings

\* handle_sched_update_nr_running(), handle_cpu_idle(), handle_cpu_idle_miss()
LEMMA NrStores ==
  ASSUME CpuTypeOK, NEW c \in Cpus, NEW val \in Vals, NrRunning(c, val)
  PROVE  Stores(c, "rq_nr_running", [cpu |-> c, nr |-> val], [nr_running |-> val])
<1>1. val \in Int
  BY CpuAssumption
<1> QED
  BY <1>1 DEF NrRunning, Stores, Rings, Rec, NrRec

LEMMA IdleStores ==
  ASSUME CpuTypeOK, NEW c \in Cpus, NEW state \in Vals \cup {-1},
         CpuIdle(c, state) \/ \E below \in BOOLEAN : CpuIdleMiss(c, state, below)
  PROVE  \E miss \in {-1, 0, 1}, now \in Vals \cup {-1} :
           Stores(c, "freq_idle", [cpu |-> c, state |-> state, miss |-> miss], [idle_state |-> now])
<1>1. \A now \in Vals \cup {-1} : now \in Int
  BY CpuAssumption
<1>2. \A miss \in {-1, 0, 1} : [cpu |-> c, state |-> state, miss |-> miss] \in Rec("freq_idle")
  BY DEF Rec, IdleRec
<1>3. \E miss \in {-1, 0, 1}, now \in Vals \cup {-1} :
        Hit(c, "freq_idle", [cpu |-> c, state |-> state, miss |-> miss], [idle_state |-> now])
  <2>1. CASE CpuIdle(c, state)
    BY <2>1 DEF CpuIdle
  <2>2. ASSUME NEW below \in BOOLEAN, CpuIdleMiss(c, state, below) PROVE <1>3!:
    BY <2>2 DEF CpuIdleMiss
  <2> QED
    BY <2>1, <2>2
<1> QED
  BY <1>1, <1>2, <1>3 DEF Stores, Rings

-----------------------------------------------------------------------------
(* What a handler does to the tracks.                                      *)

\* The values a record puts on track s of CPU c.
Says(r, e, c, s) == {v \in Int : e.cpu = c /\ <<s, v>> \in Samples(r, e)}

\* A track shows what the record says of it, and what it showed if the record
\* says nothing.
LEMMA HandleShown ==
  ASSUME CpuTypeOK, NEW r \in Rings, Handle(r)
  PROVE  /\ rings[r] \in Seq(Rec(r)) /\ rings[r] # <<>> /\ Head(rings[r]) \in Rec(r)
         /\ \A q \in Rings : rings'[q] = IF q = r THEN Tail(rings[r]) ELSE rings[q]
         /\ opts' = opts /\ kernel' = kernel /\ dropped' = dropped
         /\ CpuTypeOK'
         /\ \A c \in Cpus, s \in Signals :
              LET w == Says(r, Head(rings[r]), c, s)
              IN  IF w = {} THEN shown'[c][s] = shown[c][s] ELSE shown'[c][s] \in w
<1> DEFINE e == Head(rings[r])
           new == Samples(r, e)
<1>1. /\ rings = [q \in Rings |-> rings[q]] /\ \A q \in Rings : rings[q] \in Seq(Rec(q))
      /\ shown \in [Cpus -> [Signals -> Int]]
  BY DEF CpuTypeOK
<1>2. /\ rings[r] # <<>> /\ rings' = [rings EXCEPT ![r] = Tail(rings[r])]
      /\ opts' = opts /\ kernel' = kernel /\ dropped' = dropped /\ hits' = hits
      /\ fields' = fields
      /\ shown' = [shown EXCEPT ![e.cpu] = [s \in Signals |->
           IF \E x \in new : x[1] = s THEN (CHOOSE x \in new : x[1] = s)[2] ELSE @[s]]]
  BY DEF Handle
<1>3. e \in Rec(r) /\ Tail(rings[r]) \in Seq(Rec(r))
  BY <1>1, <1>2, HeadTailProperties
<1>4. e.cpu \in Cpus
  BY <1>3 DEF Rec, PeltRec, NrRec, IdleRec, Rings
<1>5. \A x \in new : x = <<x[1], x[2]>> /\ x[1] \in Signals /\ x[2] \in Int
  BY <1>3, SamplesKnown
<1> HIDE DEF e, new
<1>6. \A c \in Cpus, s \in Signals :
        shown'[c][s] = IF c = e.cpu
                       THEN IF \E x \in new : x[1] = s THEN (CHOOSE x \in new : x[1] = s)[2]
                            ELSE shown[c][s]
                       ELSE shown[c][s]
  BY <1>1, <1>2, <1>4
<1>7. ASSUME NEW c \in Cpus, NEW s \in Signals
      PROVE  IF Says(r, e, c, s) = {} THEN shown'[c][s] = shown[c][s]
             ELSE shown'[c][s] \in Says(r, e, c, s)
  <2>1. CASE c # e.cpu
    BY <2>1, <1>6 DEF Says
  <2>2. CASE c = e.cpu /\ \E x \in new : x[1] = s
    <3>1. PICK x \in new : x = (CHOOSE y \in new : y[1] = s) /\ x[1] = s
      BY <2>2
    <3>2. <<s, x[2]>> \in new /\ x[2] \in Int
      BY <3>1, <1>5
    <3>3. shown'[c][s] = x[2]
      BY <2>2, <3>1, <1>6
    <3> QED
      BY <2>2, <3>2, <3>3 DEF Says, new
  <2>3. CASE c = e.cpu /\ ~\E x \in new : x[1] = s
    <3>1. shown'[c][s] = shown[c][s]
      BY <2>3, <1>6
    <3>2. ASSUME NEW v \in Int, <<s, v>> \in new PROVE FALSE
      BY <2>3, <3>2
    <3> QED
      BY <3>1, <3>2 DEF Says, new
  <2> QED
    BY <2>1, <2>2, <2>3
<1>8. CpuTypeOK'
  <2>1. \A c \in Cpus, s \in Signals : shown'[c][s] \in Int
    <3> SUFFICES ASSUME NEW c \in Cpus, NEW s \in Signals PROVE shown'[c][s] \in Int
      OBVIOUS
    <3>1. shown[c][s] \in Int /\ Says(r, e, c, s) \subseteq Int
      BY <1>1 DEF Says
    <3> QED
      BY <3>1, <1>7
  <2>2. shown' \in [Cpus -> [Signals -> Int]]
    <3> DEFINE row == [s \in Signals |->
           IF \E x \in new : x[1] = s THEN (CHOOSE x \in new : x[1] = s)[2] ELSE shown[e.cpu][s]]
    <3>1. shown' = [shown EXCEPT ![e.cpu] = row]
      BY <1>2
    <3>2. \A s \in Signals : row[s] = shown'[e.cpu][s]
      BY <1>1, <1>4, <3>1
    <3>3. row \in [Signals -> Int]
      <4>1. \A s \in Signals : row[s] \in Int
        BY <2>1, <1>4, <3>2
      <4>2. row = [s \in Signals |-> row[s]]
        OBVIOUS
      <4> HIDE DEF row
      <4> QED
        BY <4>1, <4>2
    <3> HIDE DEF row
    <3> QED
      BY <1>1, <1>4, <3>1, <3>3
  <2>3. rings' = [q \in Rings |-> rings'[q]] /\ \A q \in Rings : rings'[q] \in Seq(Rec(q))
    BY <1>1, <1>2, <1>3
  <2> QED
    BY <1>2, <2>2, <2>3 DEF CpuTypeOK
<1> QED
  BY <1>1, <1>2, <1>3, <1>7, <1>8 DEF e

-----------------------------------------------------------------------------
(* The steps of the specification, by what they store.                     *)

\* A hit of a loaded program stores a record, or, for a cfs_rq that is not
\* the root, only takes its turn.
LEMMA NextSteps ==
  ASSUME CpuTypeOK, Next
  PROVE  \/ \E c \in Cpus, u \in CfsUpdates :
              PeltCfs(c, TRUE, u) /\ Stores(c, "rq_pelt", CfsRecord(c, u), CfsNews(u))
         \/ \E c \in Cpus, v \in Vals :
              \/ \E stale \in StaleTypes :
                   Stores(c, "rq_pelt", EstRecord(c, v, stale), [util_est |-> v])
              \/ Stores(c, "rq_pelt", RtRecord(c, "RT", v), [util_avg_rt |-> v])
              \/ /\ "util_avg_dl" \in opts
                 /\ Stores(c, "rq_pelt", RtRecord(c, "DL", v), [util_avg_dl |-> v])
              \/ /\ "util_avg_irq" \in opts
                 /\ Stores(c, "rq_pelt", RtRecord(c, "IRQ", v), [util_avg_irq |-> v])
              \/ /\ "load_avg_thermal" \in opts
                 /\ Stores(c, "rq_pelt", ThermalRecord(c, v), [load_avg_thermal |-> v])
              \/ Stores(c, "rq_nr_running", [cpu |-> c, nr |-> v], [nr_running |-> v])
         \/ \E c \in Cpus, state \in Vals \cup {-1}, miss \in {-1, 0, 1}, now \in Vals \cup {-1} :
              Stores(c, "freq_idle", [cpu |-> c, state |-> state, miss |-> miss], [idle_state |-> now])
         \/ \E r \in Rings : Handle(r)
         \/ hits' \in Nat /\ UNCHANGED <<opts, fields, rings, shown, kernel, dropped>>
<1>0. PassedOver => hits' \in Nat /\ UNCHANGED <<opts, fields, rings, shown, kernel, dropped>>
  BY DEF PassedOver, CpuTypeOK
<1>1. CASE \E c \in Cpus, root \in BOOLEAN, u \in CfsUpdates : PeltCfs(c, root, u)
  <2>1. PICK c \in Cpus, root \in BOOLEAN, u \in CfsUpdates : PeltCfs(c, root, u)
    BY <1>1
  <2>2. CASE root = TRUE
    <3>1. PeltCfs(c, TRUE, u)
      BY <2>1, <2>2
    <3> QED
      BY <3>1, CfsStores
  <2>3. CASE root = FALSE
    BY <1>0, <2>1, <2>3 DEF PeltCfs
  <2> QED
    BY <2>2, <2>3
<1>2. ASSUME NEW c \in Cpus, NEW v \in Vals, NEW flag \in BOOLEAN, NEW stale \in StaleTypes,
             NEW root \in BOOLEAN, UtilEstCfs(c, root, v, flag, stale)
      PROVE  PassedOver \/ Stores(c, "rq_pelt", EstRecord(c, v, stale), [util_est |-> v])
  <2>1. CASE root = TRUE
    <3>1. UtilEstCfs(c, TRUE, v, flag, stale)
      BY <1>2, <2>1
    <3> QED
      BY <3>1, EstStores
  <2>2. CASE root = FALSE
    BY <1>2, <2>2 DEF UtilEstCfs
  <2> QED
    BY <2>1, <2>2
<1>3. ASSUME NEW c \in Cpus, NEW v \in Vals
      PROVE  /\ PeltRt(c, v) =>
                  PassedOver \/ Stores(c, "rq_pelt", RtRecord(c, "RT", v), [util_avg_rt |-> v])
             /\ PeltDl(c, v) =>
                  \/ PassedOver
                  \/ /\ "util_avg_dl" \in opts
                     /\ Stores(c, "rq_pelt", RtRecord(c, "DL", v), [util_avg_dl |-> v])
             /\ PeltIrq(c, v) =>
                  \/ PassedOver
                  \/ /\ "util_avg_irq" \in opts
                     /\ Stores(c, "rq_pelt", RtRecord(c, "IRQ", v), [util_avg_irq |-> v])
  <2>1. Loaded("pelt_dl") => "util_avg_dl" \in opts
    BY DEF Loaded
  <2>2. Loaded("pelt_irq") => "util_avg_irq" \in opts
    BY DEF Loaded
  <2> QED
    BY <2>1, <2>2, RtStores DEF PeltDl, PeltIrq
<1>4. ASSUME NEW c \in Cpus, NEW v \in Vals, PeltThermal(c, v), ~PassedOver
      PROVE  /\ "load_avg_thermal" \in opts
             /\ Stores(c, "rq_pelt", ThermalRecord(c, v), [load_avg_thermal |-> v])
  <2>1. Loaded("pelt_thermal") => "load_avg_thermal" \in opts
    BY DEF Loaded
  <2>2. "load_avg_thermal" \in opts
    BY <2>1, <1>4 DEF PeltThermal
  <2> QED
    BY <2>2, <1>4, ThermalStores
<1>5. ASSUME NEW c \in Cpus, NEW v \in Vals, NrRunning(c, v)
      PROVE  Stores(c, "rq_nr_running", [cpu |-> c, nr |-> v], [nr_running |-> v])
  BY <1>5, NrStores
<1>6. ASSUME NEW c \in Cpus, NEW state \in Vals \cup {-1},
             CpuIdle(c, state) \/ \E below \in BOOLEAN : CpuIdleMiss(c, state, below)
      PROVE  \E miss \in {-1, 0, 1}, now \in Vals \cup {-1} :
               Stores(c, "freq_idle", [cpu |-> c, state |-> state, miss |-> miss], [idle_state |-> now])
  BY <1>6, IdleStores
<1>7. CASE \E c \in Cpus, v \in Vals : \E root, flag \in BOOLEAN, stale \in StaleTypes :
             UtilEstCfs(c, root, v, flag, stale)
  BY <1>0, <1>2, <1>7
<1>8. CASE \E c \in Cpus, v \in Vals : PeltRt(c, v) \/ PeltDl(c, v) \/ PeltIrq(c, v)
  BY <1>0, <1>3, <1>8
<1>9. CASE \E c \in Cpus, v \in Vals : PeltThermal(c, v)
  BY <1>0, <1>4, <1>9
<1>10. CASE \E c \in Cpus, v \in Vals : NrRunning(c, v)
  BY <1>5, <1>10
<1>11. CASE \E c \in Cpus, state \in Vals \cup {-1} :
              CpuIdle(c, state) \/ \E below \in BOOLEAN : CpuIdleMiss(c, state, below)
  BY <1>6, <1>11
<1>12. CASE \E r \in Rings : Handle(r)
  BY <1>12
<1> QED
  BY <1>1, <1>7, <1>8, <1>9, <1>10, <1>11, <1>12 DEF Next

-----------------------------------------------------------------------------
(* CpuInv: types, no -1 on a track, no track nobody asked for.             *)

LEMMA CpuInvInit == Init => CpuInv
<1> SUFFICES ASSUME Init PROVE CpuInv
  OBVIOUS
<1>1. shown = [c \in Cpus |-> [s \in Signals |-> None]] /\ kernel = [c \in Cpus |-> [s \in Signals |-> None]]
  BY DEF Init
<1>2. None \in Int /\ None # Absent
  BY DEF None, Absent
<1>3. \A c \in Cpus, s \in Signals : shown[c][s] = None
  BY <1>1
<1>4. rings = [r \in Rings |-> rings[r]] /\ \A r \in Rings : rings[r] \in Seq(Rec(r))
  BY EmptySeq DEF Init
<1>5. shown \in [Cpus -> [Signals -> Int]] /\ kernel \in [Cpus -> [Signals -> Int]]
  BY <1>1, <1>2
<1>6. CpuTypeOK
  BY <1>4, <1>5 DEF Init, CpuTypeOK
<1> QED
  BY <1>2, <1>3, <1>6 DEF CpuInv, NoAbsentShown, OnlyRequested

\* A hit touches no track; a handler only those SamplesKnown speaks of.
LEMMA CpuInvInductive == CpuInv /\ [Next]_vars => CpuInv'
<1> SUFFICES ASSUME CpuInv, [Next]_vars PROVE CpuInv'
  OBVIOUS
<1>0. CpuTypeOK
  BY DEF CpuInv
<1>1. ASSUME shown' = shown, opts' = opts, CpuTypeOK' PROVE CpuInv'
  BY <1>1 DEF CpuInv, NoAbsentShown, OnlyRequested
<1>2. ASSUME NEW c, NEW r, NEW e, NEW news, Stores(c, r, e, news) PROVE CpuInv'
  <2>1. CpuTypeOK' /\ shown' = shown /\ opts' = opts
    BY <1>0, <1>2, HitTypes DEF Stores
  <2> QED
    BY <1>1, <2>1
<1>3. ASSUME NEW r \in Rings, Handle(r) PROVE CpuInv'
  <2>1. PICK e : e = Head(rings[r])
    OBVIOUS
  <2>2. e \in Rec(r) /\ opts' = opts /\ CpuTypeOK'
    BY <1>0, <1>3, <2>1, HandleShown
  <2>3. ASSUME NEW c \in Cpus, NEW s \in Signals
        PROVE  \/ shown'[c][s] = shown[c][s]
               \/ Requested(s) /\ (s # "idle_state" => shown'[c][s] # Absent)
    <3>1. IF Says(r, e, c, s) = {} THEN shown'[c][s] = shown[c][s]
          ELSE shown'[c][s] \in Says(r, e, c, s)
      BY <1>0, <1>3, <2>1, HandleShown
    <3>2. CASE Says(r, e, c, s) # {}
      <4>1. PICK v : v = shown'[c][s]
        OBVIOUS
      <4>2. <<s, v>> \in Samples(r, e)
        BY <3>1, <3>2, <4>1 DEF Says
      <4>3. PICK x \in Samples(r, e) : x = <<s, v>>
        BY <4>2
      <4>4. x[1] = s /\ x[2] = v
        BY <4>3
      <4>5. Requested(x[1]) /\ (x[1] # "idle_state" => x[2] # Absent)
        BY <2>2, <4>3, SamplesKnown
      <4> QED
        BY <4>1, <4>4, <4>5
    <3> QED
      BY <3>1, <3>2
  <2>4. NoAbsentShown'
    <3> SUFFICES ASSUME NEW c \in Cpus, NEW s \in Signals \ {"idle_state"} PROVE shown'[c][s] # Absent
      BY DEF NoAbsentShown
    <3> QED
      BY <2>3 DEF CpuInv, NoAbsentShown
  <2>5. OnlyRequested'
    <3> SUFFICES ASSUME NEW c \in Cpus, NEW s \in Signals, shown'[c][s] # None PROVE Requested(s)
      BY <2>2 DEF OnlyRequested, Requested
    <3> QED
      BY <2>3 DEF CpuInv, OnlyRequested, Requested
  <2> QED
    BY <2>2, <2>4, <2>5 DEF CpuInv
<1>4. ASSUME hits' \in Nat, UNCHANGED <<opts, fields, rings, shown, kernel, dropped>> PROVE CpuInv'
  <2>1. CpuTypeOK'
    BY <1>0, <1>4 DEF CpuTypeOK
  <2> QED
    BY <1>1, <1>4, <2>1
<1>5. CASE UNCHANGED vars
  <2>1. hits' \in Nat
    BY <1>0, <1>5 DEF vars, CpuTypeOK
  <2> QED
    BY <1>4, <1>5, <2>1 DEF vars
<1>6. CASE Next
  BY <1>0, <1>2, <1>3, <1>4, <1>6, NextSteps
<1> QED
  BY <1>5, <1>6

\* CpuInv holds in every state.
THEOREM CpuInvariance == Spec => []CpuInv
BY CpuInvInit, CpuInvInductive, PTL DEF Spec

\* The -1 of a member that was not filled is never shown, whatever the memory
\* of the ring held under the type of a util_est record.
THEOREM AbsentNeverShown == Spec => []NoAbsentShown
<1>1. CpuInv => NoAbsentShown
  BY DEF CpuInv
<1> QED
  BY <1>1, CpuInvariance, PTL

\* Tracks only get samples that an option asked for, for every command line.
THEOREM RequestedOnly == Spec => []OnlyRequested
<1>1. CpuInv => OnlyRequested
  BY DEF CpuInv
<1> QED
  BY <1>1, CpuInvariance, PTL

-----------------------------------------------------------------------------
(* The latest value.  W[1] .. W[n] are the values the records in a ring    *)
(* will put on a track that shows v: the last that puts any puts k, or     *)
(* none does and k is shown.                                               *)

LastSays(W, n, v, k) ==
  \/ (\A i \in 1..n : W[i] = {}) /\ v = k
  \/ \E i \in 1..n : W[i] = {k} /\ \A j \in (i + 1)..n : W[j] = {}

\* A record is put behind the others.
LEMMA LastAppend ==
  ASSUME NEW n \in Nat, NEW W, NEW U, NEW v, NEW k,
         \A i \in 1..n : U[i] = W[i],
         U[n + 1] = {k} \/ (U[n + 1] = {} /\ LastSays(W, n, v, k))
  PROVE  LastSays(U, n + 1, v, k)
<1>1. CASE U[n + 1] = {k}
  <2>1. n + 1 \in 1..(n + 1) /\ \A j \in ((n + 1) + 1)..(n + 1) : U[j] = {}
    OBVIOUS
  <2> QED
    BY <1>1, <2>1 DEF LastSays
<1>2. CASE U[n + 1] = {} /\ LastSays(W, n, v, k)
  <2>1. CASE (\A i \in 1..n : W[i] = {}) /\ v = k
    <3>1. \A i \in 1..(n + 1) : U[i] = {}
      <4> SUFFICES ASSUME NEW i \in 1..(n + 1) PROVE U[i] = {}
        OBVIOUS
      <4>1. i \in 1..n \/ i = n + 1
        OBVIOUS
      <4> QED
        BY <4>1, <2>1, <1>2
    <3> QED
      BY <2>1, <3>1 DEF LastSays
  <2>2. ASSUME NEW i \in 1..n, W[i] = {k}, \A j \in (i + 1)..n : W[j] = {}
        PROVE  LastSays(U, n + 1, v, k)
    <3>1. i \in 1..(n + 1) /\ U[i] = {k}
      BY <2>2
    <3>2. \A j \in (i + 1)..(n + 1) : U[j] = {}
      <4> SUFFICES ASSUME NEW j \in (i + 1)..(n + 1) PROVE U[j] = {}
        OBVIOUS
      <4>1. (j \in (i + 1)..n /\ j \in 1..n) \/ j = n + 1
        OBVIOUS
      <4> QED
        BY <4>1, <2>2, <1>2
    <3> QED
      BY <3>1, <3>2 DEF LastSays
  <2> QED
    BY <1>2, <2>1, <2>2 DEF LastSays
<1> QED
  BY <1>1, <1>2

\* The oldest record is handled.
LEMMA LastTail ==
  ASSUME NEW n \in Nat, NEW W, NEW U, NEW v, NEW w, NEW k,
         \A i \in 1..n : U[i] = W[i + 1],
         IF W[1] = {} THEN w = v ELSE w \in W[1],
         LastSays(W, n + 1, v, k)
  PROVE  LastSays(U, n, w, k)
<1>1. CASE (\A i \in 1..(n + 1) : W[i] = {}) /\ v = k
  <2>1. \A i \in 1..n : i + 1 \in 1..(n + 1)
    OBVIOUS
  <2>2. \A i \in 1..n : U[i] = {}
    BY <1>1, <2>1
  <2>3. w = k
    <3>1. 1 \in 1..(n + 1)
      OBVIOUS
    <3> QED
      BY <1>1, <3>1
  <2> QED
    BY <2>2, <2>3 DEF LastSays
<1>2. ASSUME NEW i \in 1..(n + 1), W[i] = {k}, \A j \in (i + 1)..(n + 1) : W[j] = {}
      PROVE  LastSays(U, n, w, k)
  <2>1. CASE i = 1
    <3>1. w = k
      BY <1>2, <2>1
    <3>2. \A j \in 1..n : j + 1 \in (i + 1)..(n + 1)
      BY <2>1
    <3>3. \A j \in 1..n : U[j] = {}
      BY <1>2, <3>2
    <3> QED
      BY <3>1, <3>3 DEF LastSays
  <2>2. CASE i # 1
    <3>1. i - 1 \in 1..n /\ (i - 1) + 1 = i
      BY <2>2
    <3>2. U[i - 1] = {k}
      BY <1>2, <3>1
    <3>3. \A j \in ((i - 1) + 1)..n : j \in 1..n /\ j + 1 \in (i + 1)..(n + 1)
      BY <3>1
    <3>4. \A j \in ((i - 1) + 1)..n : U[j] = {}
      BY <1>2, <3>3
    <3> QED
      BY <3>1, <3>2, <3>4 DEF LastSays
  <2> QED
    BY <2>1, <2>2
<1> QED
  BY <1>1, <1>2 DEF LastSays

-----------------------------------------------------------------------------
(* What the records say of the signals that TracksCurrent is about.        *)

Claimed(s) ==
  \/ s \in {"runnable_avg", "util_avg", "uclamped_avg", "util_est", "load_avg_thermal", "nr_running"}
  \/ s = "load_avg" /\ "load_avg_thermal" \notin opts
  \/ s = "util_avg_rt" /\ {"util_avg_dl", "util_avg_irq"} \cap opts = {}

\* The samples for a record of the rq_pelt ring, one by one.
LEMMA PeltSays ==
  ASSUME NEW e, NEW s, NEW v
  PROVE  <<s, v>> \in Samples("rq_pelt", e) <=>
           \/ s = "load_avg" /\ "load_avg_cpu" \in opts /\ e.load # Absent /\ v = e.load
           \/ s = "runnable_avg" /\ "runnable_avg_cpu" \in opts /\ e.runnable # Absent /\ v = e.runnable
           \/ s = "load_avg_thermal" /\ e.type = "THERMAL" /\ "load_avg_thermal" \in opts /\ v = e.load
           \/ e.util # Absent /\ <<s, v>> \in UtilSamples(e)
           \/ s = "util_est" /\ "util_est_cpu" \in opts /\ e.est # Absent /\ v = e.est
BY DEF Samples, RqPeltSamples, FairSamples, If

LEMMA UtilSays ==
  ASSUME NEW e, NEW s, NEW v
  PROVE  /\ e.type = "CFS" =>
              (<<s, v>> \in UtilSamples(e) <=>
                 /\ "util_avg_cpu" \in opts
                 /\ \/ s = "util_avg" /\ v = e.util
                    \/ /\ s = "uclamped_avg" /\ e.lo # Absent /\ e.hi # Absent
                       /\ v = clamp(e.util, e.lo, e.hi))
         /\ e.type = "RT" =>
              (<<s, v>> \in UtilSamples(e) <=> "util_avg_rt" \in opts /\ s = "util_avg_rt" /\ v = e.util)
         /\ e.type \in {"DL", "IRQ"} => (<<s, v>> \in UtilSamples(e) => s = "util_avg_rt")
         /\ e.type = "THERMAL" => <<s, v>> \notin UtilSamples(e)
<1>1. CASE e.type = "CFS"
  BY <1>1 DEF UtilSamples, If
<1>2. CASE e.type \in {"RT", "DL", "IRQ"}
  <2>1. <<s, v>> \in UtilSamples(e) <=> FlagOfType(e.type) \in opts /\ s = "util_avg_rt" /\ v = e.util
    BY <1>2 DEF UtilSamples, If, TrackOfType
  <2>2. e.type = "RT" => FlagOfType(e.type) = "util_avg_rt"
    BY DEF FlagOfType
  <2> QED
    BY <1>2, <2>1, <2>2
<1>3. CASE e.type = "THERMAL"
  BY <1>3 DEF UtilSamples
<1> QED
  BY <1>1, <1>2, <1>3

\* A record tells of the signals the hit was about, and of no other that is
\* claimed.
Tells(c, r, e, news) ==
  \A s \in Signals :
    Claimed(s) =>
      IF s \in DOMAIN news
      THEN RingOf(s) = r /\ (FlagOf(s) \subseteq opts /\ news[s] # None => Says(r, e, c, s) = {news[s]})
      ELSE RingOf(s) = r => Says(r, e, c, s) = {}

LEMMA CfsTells ==
  ASSUME CpuTypeOK, NEW c \in Cpus, NEW u \in CfsUpdates
  PROVE  Tells(c, "rq_pelt", CfsRecord(c, u), CfsNews(u))
<1> DEFINE e == CfsRecord(c, u)
<1>1. /\ u.load \in Nat /\ u.runnable \in Nat /\ u.util \in Nat /\ u.lo \in Nat /\ u.hi \in Nat
  <2>1. /\ u \in [load : Vals, runnable : Vals, util : Vals, lo : Vals, hi : Vals]
        /\ Vals \subseteq Nat
    BY CpuAssumption
  <2> QED
    BY <2>1
<1>2. /\ e.cpu = c /\ e.type = "CFS" /\ e.load = u.load /\ e.runnable = u.runnable /\ e.util = u.util
      /\ e.est = Absent /\ (uclampOn => e.lo = u.lo /\ e.hi = u.hi) /\ (~uclampOn => e.lo = Absent)
  BY DEF CfsRecord, PeltRecord
<1>3. /\ DOMAIN CfsNews(u) = {"load_avg", "runnable_avg", "util_avg", "uclamped_avg"}
      /\ CfsNews(u)["load_avg"] = u.load /\ CfsNews(u)["runnable_avg"] = u.runnable
      /\ CfsNews(u)["util_avg"] = u.util
      /\ CfsNews(u)["uclamped_avg"] = IF uclampOn THEN Uclamped(u.util, u.lo, u.hi) ELSE None
  BY DEF CfsNews
<1> HIDE DEF e
<1>4. \A s, v : <<s, v>> \in Samples("rq_pelt", e) <=>
        \/ s = "load_avg" /\ "load_avg_cpu" \in opts /\ v = u.load
        \/ s = "runnable_avg" /\ "runnable_avg_cpu" \in opts /\ v = u.runnable
        \/ /\ "util_avg_cpu" \in opts
           /\ \/ s = "util_avg" /\ v = u.util
              \/ s = "uclamped_avg" /\ uclampOn /\ v = clamp(u.util, u.lo, u.hi)
  <2> SUFFICES ASSUME NEW s, NEW v
               PROVE  <<s, v>> \in Samples("rq_pelt", e) <=>
        \/ s = "load_avg" /\ "load_avg_cpu" \in opts /\ v = u.load
        \/ s = "runnable_avg" /\ "runnable_avg_cpu" \in opts /\ v = u.runnable
        \/ /\ "util_avg_cpu" \in opts
           /\ \/ s = "util_avg" /\ v = u.util
              \/ s = "uclamped_avg" /\ uclampOn /\ v = clamp(u.util, u.lo, u.hi)
    OBVIOUS
  <2>1. <<s, v>> \in UtilSamples(e) <=>
          /\ "util_avg_cpu" \in opts
          /\ \/ s = "util_avg" /\ v = e.util
             \/ s = "uclamped_avg" /\ e.lo # Absent /\ e.hi # Absent /\ v = clamp(e.util, e.lo, e.hi)
    BY <1>2, UtilSays
  <2>2. uclampOn \in BOOLEAN
    BY DEF uclampOn
  <2>3. u.load # Absent /\ u.runnable # Absent /\ u.util # Absent /\ u.lo # Absent /\ u.hi # Absent
    BY <1>1 DEF Absent
  <2> QED
    BY <1>2, <2>1, <2>2, <2>3, PeltSays
<1>5. u.load \in Int /\ u.runnable \in Int /\ u.util \in Int /\ clamp(u.util, u.lo, u.hi) \in Int
  BY <1>1 DEF clamp
<1>6. CfsNews(u)["uclamped_avg"] # None => uclampOn /\ CfsNews(u)["uclamped_avg"] = clamp(u.util, u.lo, u.hi)
  <2>1. u.lo > u.hi => Uclamped(u.util, u.lo, u.hi) = None
    BY DEF Uclamped
  <2>2. u.lo <= u.hi => Uclamped(u.util, u.lo, u.hi) = clamp(u.util, u.lo, u.hi)
    BY <1>1, UclampedInt
  <2>3. uclampOn \in BOOLEAN
    BY DEF uclampOn
  <2> QED
    BY <1>1, <1>3, <2>1, <2>2, <2>3
<1> SUFFICES ASSUME NEW s \in Signals
             PROVE  IF s \in DOMAIN CfsNews(u)
                    THEN /\ RingOf(s) = "rq_pelt"
                         /\ FlagOf(s) \subseteq opts /\ CfsNews(u)[s] # None
                              => Says("rq_pelt", e, c, s) = {CfsNews(u)[s]}
                    ELSE Says("rq_pelt", e, c, s) = {}
  BY DEF Tells, e
<1>7. CASE s \notin DOMAIN CfsNews(u)
  BY <1>3, <1>4, <1>7 DEF Says
<1>8. CASE s = "load_avg"
  <2>1. FlagOf(s) = {"load_avg_cpu"} /\ RingOf(s) = "rq_pelt"
    BY <1>8 DEF FlagOf, RingOf
  <2> QED
    BY <1>2, <1>3, <1>4, <1>5, <1>8, <2>1 DEF Says
<1>9. CASE s = "runnable_avg"
  <2>1. FlagOf(s) = {"runnable_avg_cpu"} /\ RingOf(s) = "rq_pelt"
    BY <1>9 DEF FlagOf, RingOf
  <2> QED
    BY <1>2, <1>3, <1>4, <1>5, <1>9, <2>1 DEF Says
<1>10. CASE s = "util_avg"
  <2>1. FlagOf(s) = {"util_avg_cpu"} /\ RingOf(s) = "rq_pelt"
    BY <1>10 DEF FlagOf, RingOf
  <2> QED
    BY <1>2, <1>3, <1>4, <1>5, <1>10, <2>1 DEF Says
<1>11. CASE s = "uclamped_avg"
  <2>1. FlagOf(s) = {"util_avg_cpu"} /\ RingOf(s) = "rq_pelt"
    BY <1>11 DEF FlagOf, RingOf
  <2> QED
    BY <1>2, <1>3, <1>4, <1>5, <1>6, <1>11, <2>1 DEF Says
<1> QED
  BY <1>3, <1>7, <1>8, <1>9, <1>10, <1>11

LEMMA EstTells ==
  ASSUME NEW c \in Cpus, NEW val \in Vals, NEW stale \in StaleTypes
  PROVE  Tells(c, "rq_pelt", EstRecord(c, val, stale), [util_est |-> val])
<1> DEFINE e == EstRecord(c, val, stale)
           news == [util_est |-> val]
<1>1. val \in Int /\ val # Absent /\ stale # "THERMAL"
  BY CpuAssumption, StaleTypesKnown DEF Absent
<1>2. /\ e.cpu = c /\ e.type = stale /\ e.load = Absent /\ e.runnable = Absent /\ e.util = Absent
      /\ e.est = val
  BY DEF EstRecord, PeltRecord
<1>3. DOMAIN news = {"util_est"} /\ news["util_est"] = val
  OBVIOUS
<1> HIDE DEF e, news
<1>4. \A s, v : <<s, v>> \in Samples("rq_pelt", e) <=> s = "util_est" /\ "util_est_cpu" \in opts /\ v = val
  BY <1>1, <1>2, PeltSays
<1>5. FlagOf("util_est") = {"util_est_cpu"} /\ RingOf("util_est") = "rq_pelt"
  BY DEF FlagOf, RingOf
<1>6. ASSUME NEW s \in Signals, s \in DOMAIN news, FlagOf(s) \subseteq opts
      PROVE  Says("rq_pelt", e, c, s) = {news[s]}
  BY <1>1, <1>2, <1>3, <1>4, <1>5, <1>6 DEF Says
<1>7. ASSUME NEW s \in Signals, s \notin DOMAIN news PROVE Says("rq_pelt", e, c, s) = {}
  BY <1>3, <1>4, <1>7 DEF Says
<1>8. Tells(c, "rq_pelt", e, news)
  BY <1>3, <1>5, <1>6, <1>7 DEF Tells
<1> QED
  BY <1>8 DEF e, news

LEMMA RtTells ==
  ASSUME NEW c \in Cpus, NEW val \in Vals
  PROVE  /\ Tells(c, "rq_pelt", RtRecord(c, "RT", val), [util_avg_rt |-> val])
         /\ "util_avg_dl" \in opts => Tells(c, "rq_pelt", RtRecord(c, "DL", val), [util_avg_dl |-> val])
         /\ "util_avg_irq" \in opts => Tells(c, "rq_pelt", RtRecord(c, "IRQ", val), [util_avg_irq |-> val])
<1>1. val \in Int /\ val # Absent
  BY CpuAssumption DEF Absent
<1>2. ASSUME NEW type \in {"RT", "DL", "IRQ"}, NEW s, NEW v,
             <<s, v>> \in Samples("rq_pelt", RtRecord(c, type, val))
      PROVE  s = "util_avg_rt"
  <2> DEFINE e == RtRecord(c, type, val)
  <2>1. e.type = type /\ e.load = Absent /\ e.runnable = Absent /\ e.est = Absent
    BY DEF RtRecord, PeltRecord
  <2> HIDE DEF e
  <2>2. <<s, v>> \in Samples("rq_pelt", e)
    BY <1>2 DEF e
  <2>3. <<s, v>> \in UtilSamples(e)
    BY <2>1, <2>2, PeltSays
  <2> QED
    BY <2>1, <2>3, UtilSays
<1>3. ASSUME NEW type \in {"RT", "DL", "IRQ"}, NEW s \in Signals, s # "util_avg_rt"
      PROVE  Says("rq_pelt", RtRecord(c, type, val), c, s) = {}
  BY <1>2, <1>3 DEF Says
<1>4. ASSUME "util_avg_rt" \in opts
      PROVE  Says("rq_pelt", RtRecord(c, "RT", val), c, "util_avg_rt") = {val}
  <2> DEFINE e == RtRecord(c, "RT", val)
  <2>1. e.cpu = c /\ e.type = "RT" /\ e.util = val
    BY DEF RtRecord, PeltRecord
  <2> HIDE DEF e
  <2>2. ASSUME NEW v PROVE <<"util_avg_rt", v>> \in Samples("rq_pelt", e) <=> v = val
    BY <1>1, <1>4, <2>1, PeltSays, UtilSays
  <2>3. Says("rq_pelt", e, c, "util_avg_rt") = {val}
    BY <1>1, <2>1, <2>2 DEF Says
  <2> QED
    BY <2>3 DEF e
<1>5. Tells(c, "rq_pelt", RtRecord(c, "RT", val), [util_avg_rt |-> val])
  <2> DEFINE news == [util_avg_rt |-> val]
  <2>1. DOMAIN news = {"util_avg_rt"} /\ news["util_avg_rt"] = val
    OBVIOUS
  <2>2. FlagOf("util_avg_rt") = {"util_avg_rt"} /\ RingOf("util_avg_rt") = "rq_pelt"
    BY DEF FlagOf, RingOf
  <2> HIDE DEF news
  <2>3. Tells(c, "rq_pelt", RtRecord(c, "RT", val), news)
    BY <1>3, <1>4, <2>1, <2>2 DEF Tells
  <2> QED
    BY <2>3 DEF news
<1>6. ASSUME NEW type \in {"DL", "IRQ"}, NEW x, NEW news, x \in {"util_avg_dl", "util_avg_irq"},
             x \in opts, DOMAIN news = {x}
      PROVE  Tells(c, "rq_pelt", RtRecord(c, type, val), news)
  <2>1. ~Claimed(x) /\ ~Claimed("util_avg_rt")
    BY <1>6 DEF Claimed
  <2>2. ASSUME NEW s \in Signals, Claimed(s)
        PROVE  s \notin DOMAIN news /\ Says("rq_pelt", RtRecord(c, type, val), c, s) = {}
    BY <1>3, <1>6, <2>1, <2>2
  <2> QED
    BY <2>2 DEF Tells
<1>7. DOMAIN [util_avg_dl |-> val] = {"util_avg_dl"} /\ DOMAIN [util_avg_irq |-> val] = {"util_avg_irq"}
  OBVIOUS
<1> QED
  BY <1>5, <1>6, <1>7

LEMMA ThermalTells ==
  ASSUME NEW c \in Cpus, NEW val \in Vals, "load_avg_thermal" \in opts
  PROVE  Tells(c, "rq_pelt", ThermalRecord(c, val), [load_avg_thermal |-> val])
<1> DEFINE e == ThermalRecord(c, val)
           news == [load_avg_thermal |-> val]
<1>1. val \in Int /\ val # Absent
  BY CpuAssumption DEF Absent
<1>2. /\ e.cpu = c /\ e.type = "THERMAL" /\ e.load = val /\ e.runnable = Absent /\ e.util = Absent
      /\ e.est = Absent
  BY DEF ThermalRecord, PeltRecord
<1>3. DOMAIN news = {"load_avg_thermal"} /\ news["load_avg_thermal"] = val
  OBVIOUS
<1> HIDE DEF e, news
<1>4. \A s, v : <<s, v>> \in Samples("rq_pelt", e) <=>
        /\ s = "load_avg_thermal" \/ (s = "load_avg" /\ "load_avg_cpu" \in opts)
        /\ v = val
  BY <1>1, <1>2, PeltSays
<1>5. ~Claimed("load_avg") /\ RingOf("load_avg_thermal") = "rq_pelt"
  BY DEF Claimed, RingOf
<1>6. Says("rq_pelt", e, c, "load_avg_thermal") = {val}
  BY <1>1, <1>2, <1>4 DEF Says
<1>7. ASSUME NEW s \in Signals, s \notin {"load_avg", "load_avg_thermal"}
      PROVE  Says("rq_pelt", e, c, s) = {}
  BY <1>4, <1>7 DEF Says
<1>8. Tells(c, "rq_pelt", e, news)
  BY <1>3, <1>5, <1>6, <1>7 DEF Tells
<1> QED
  BY <1>8 DEF e, news

LEMMA NrTells ==
  ASSUME NEW c \in Cpus, NEW val \in Vals
  PROVE  Tells(c, "rq_nr_running", [cpu |-> c, nr |-> val], [nr_running |-> val])
<1> DEFINE e == [cpu |-> c, nr |-> val]
           news == [nr_running |-> val]
<1>1. val \in Int /\ e.cpu = c /\ e.nr = val
  BY CpuAssumption
<1>2. DOMAIN news = {"nr_running"} /\ news["nr_running"] = val
  OBVIOUS
<1> HIDE DEF e, news
<1>3. \A s, v : <<s, v>> \in Samples("rq_nr_running", e) <=>
        s = "nr_running" /\ "cpu_nr_running" \in opts /\ v = val
  BY <1>1 DEF Samples, NrRunningSamples
<1>4. FlagOf("nr_running") = {"cpu_nr_running"} /\ RingOf("nr_running") = "rq_nr_running"
  BY DEF FlagOf, RingOf
<1>5. "cpu_nr_running" \in opts => Says("rq_nr_running", e, c, "nr_running") = {val}
  BY <1>1, <1>3 DEF Says
<1>6. \A s \in Signals : s # "nr_running" => Says("rq_nr_running", e, c, s) = {}
  BY <1>3 DEF Says
<1>7. Tells(c, "rq_nr_running", e, news)
  BY <1>2, <1>4, <1>5, <1>6 DEF Tells
<1> QED
  BY <1>7 DEF e, news

\* The freq_idle ring has nothing on it that is claimed.
LEMMA IdleTells ==
  ASSUME NEW c, NEW e, NEW now
  PROVE  Tells(c, "freq_idle", e, [idle_state |-> now])
<1>1. ~Claimed("idle_state")
  BY DEF Claimed
<1>2. \A s \in Signals : Claimed(s) => RingOf(s) # "freq_idle"
  BY <1>1 DEF RingOf, Signals
<1>3. DOMAIN [idle_state |-> now] = {"idle_state"}
  OBVIOUS
<1> QED
  BY <1>1, <1>2, <1>3 DEF Tells

-----------------------------------------------------------------------------
(* TracksCurrent.                                                          *)

Ring(s) == rings[RingOf(s)]
Words(c, s) == [i \in 1..Len(Ring(s)) |-> Says(RingOf(s), Ring(s)[i], c, s)]

\* What the ring and the track have of a signal of a CPU is current.
Latest(c, s) ==
  Claimed(s) /\ FlagOf(s) \subseteq opts /\ <<c, s>> \notin dropped /\ kernel[c][s] # None =>
    LastSays(Words(c, s), Len(Ring(s)), shown[c][s], kernel[c][s])

CurInv == CpuInv /\ \A c \in Cpus, s \in Signals : Latest(c, s)

\* The options never change, and what is said and claimed depends on nothing
\* else.
LEMMA LatestPrimed ==
  ASSUME opts' = opts, NEW c, NEW s, NEW R, R = rings'[RingOf(s)],
         Claimed(s) /\ FlagOf(s) \subseteq opts /\ <<c, s>> \notin dropped' /\ kernel'[c][s] # None =>
           LastSays([i \in 1..Len(R) |-> Says(RingOf(s), R[i], c, s)], Len(R), shown'[c][s], kernel'[c][s])
  PROVE  Latest(c, s)'
<1>1. Words(c, s)' = [i \in 1..Len(rings'[RingOf(s)]) |-> Says(RingOf(s), rings'[RingOf(s)][i], c, s)]
  BY DEF Words, Ring, Says, Samples, RqPeltSamples, FairSamples, UtilSamples, NrRunningSamples,
     FreqIdleSamples
<1>2. Claimed(s)' <=> Claimed(s)
  BY DEF Claimed
<1>3. Ring(s)' = rings'[RingOf(s)]
  BY DEF Ring
<1> QED
  BY <1>1, <1>2, <1>3 DEF Latest

\* A hit that is stored becomes the last that is said; one that is not is
\* remembered in dropped.
LEMMA StoreKeepsLatest ==
  ASSUME CpuTypeOK, \A d \in Cpus, s \in Signals : Latest(d, s),
         NEW c, NEW r, NEW e, NEW news, Stores(c, r, e, news), Tells(c, r, e, news)
  PROVE  \A d \in Cpus, s \in Signals : Latest(d, s)'
<1> SUFFICES ASSUME NEW d \in Cpus, NEW s \in Signals PROVE Latest(d, s)'
  OBVIOUS
<1>1. c \in Cpus /\ r \in Rings /\ e \in Rec(r) /\ e.cpu = c /\ Hit(c, r, e, news)
  BY DEF Stores
<1>2. /\ opts' = opts /\ shown' = shown
      /\ kernel'[d][s] = IF d = c /\ s \in DOMAIN news THEN news[s] ELSE kernel[d][s]
  BY <1>1, HitTypes DEF Stores
<1>3. PICK R : R = rings'[RingOf(s)]
  OBVIOUS
<1>4. RingOf(s) \in Rings
  BY DEF RingOf, Rings
<1>5. Ring(s) \in Seq(Rec(RingOf(s))) /\ Len(Ring(s)) \in Nat
  BY <1>4 DEF CpuTypeOK, Ring
<1> SUFFICES ASSUME Claimed(s), FlagOf(s) \subseteq opts, <<d, s>> \notin dropped', kernel'[d][s] # None
             PROVE  LastSays([i \in 1..Len(R) |-> Says(RingOf(s), R[i], d, s)], Len(R),
                             shown[d][s], kernel'[d][s])
  BY <1>2, <1>3, LatestPrimed
<1>6. CASE Fits(r) /\ RingOf(s) = r
  <2>1. R = Append(Ring(s), e)
    BY <1>1, <1>3, <1>6 DEF Hit, Ring, CpuTypeOK
  <2>2. /\ Len(R) = Len(Ring(s)) + 1 /\ R[Len(Ring(s)) + 1] = e
        /\ \A i \in 1..Len(Ring(s)) : R[i] = Ring(s)[i]
    BY <1>1, <1>5, <1>6, <2>1, AppendProperties
  <2> DEFINE n == Len(Ring(s))
             U == [i \in 1..Len(R) |-> Says(RingOf(s), R[i], d, s)]
  <2>3. U[n + 1] = Says(r, e, d, s)
    BY <1>5, <1>6, <2>2
  <2>4. \A i \in 1..n : U[i] = Words(d, s)[i]
    BY <1>5, <2>2 DEF Words
  <2>5. U[n + 1] = {kernel'[d][s]} \/ (U[n + 1] = {} /\ LastSays(Words(d, s), n, shown[d][s], kernel'[d][s]))
    <3>1. CASE d = c /\ s \in DOMAIN news
      BY <1>2, <2>3, <3>1 DEF Tells
    <3>2. CASE ~(d = c /\ s \in DOMAIN news)
      <4>1. Says(r, e, d, s) = {}
        <5>1. CASE d # c
          BY <1>1, <5>1 DEF Says
        <5>2. CASE d = c
          BY <1>6, <3>2, <5>2 DEF Tells
        <5> QED
          BY <5>1, <5>2
      <4>2. kernel'[d][s] = kernel[d][s]
        BY <1>2, <3>2
      <4>3. <<d, s>> \notin dropped
        BY <1>1, <1>6, <3>2 DEF Hit
      <4>4. LastSays(Words(d, s), n, shown[d][s], kernel[d][s])
        BY <4>2, <4>3 DEF Latest
      <4> QED
        BY <2>3, <4>1, <4>2, <4>4
    <3> QED
      BY <3>1, <3>2
  <2>6. n \in Nat /\ Len(R) = n + 1
    BY <1>5, <2>2
  <2> HIDE DEF n, U
  <2>7. LastSays(U, n + 1, shown[d][s], kernel'[d][s])
    BY <2>4, <2>5, <2>6, LastAppend
  <2> QED
    BY <2>6, <2>7 DEF U
<1>7. CASE ~(Fits(r) /\ RingOf(s) = r)
  <2>1. R = Ring(s)
    BY <1>1, <1>3, <1>4, <1>7 DEF Hit, Ring, CpuTypeOK
  <2>2. ~(d = c /\ s \in DOMAIN news) /\ <<d, s>> \notin dropped
    <3>1. CASE Fits(r)
      <4>1. ~(d = c /\ s \in DOMAIN news)
        BY <1>7, <3>1 DEF Tells
      <4> QED
        BY <1>1, <3>1, <4>1 DEF Hit
    <3>2. CASE ~Fits(r)
      BY <1>1, <3>2 DEF Hit
    <3> QED
      BY <3>1, <3>2
  <2>3. kernel'[d][s] = kernel[d][s]
    BY <1>2, <2>2
  <2>4. LastSays(Words(d, s), Len(Ring(s)), shown[d][s], kernel[d][s])
    BY <2>2, <2>3 DEF Latest
  <2> QED
    BY <2>1, <2>3, <2>4 DEF Words
<1> QED
  BY <1>6, <1>7

\* The record a handler takes shows what it said.
LEMMA HandleKeepsLatest ==
  ASSUME CpuTypeOK, \A d \in Cpus, s \in Signals : Latest(d, s),
         NEW r \in Rings, Handle(r)
  PROVE  \A d \in Cpus, s \in Signals : Latest(d, s)'
<1> SUFFICES ASSUME NEW d \in Cpus, NEW s \in Signals PROVE Latest(d, s)'
  OBVIOUS
<1>1. PICK e : e = Head(rings[r])
  OBVIOUS
<1>2. /\ rings[r] \in Seq(Rec(r)) /\ rings[r] # <<>> /\ e \in Rec(r)
      /\ \A q \in Rings : rings'[q] = IF q = r THEN Tail(rings[r]) ELSE rings[q]
      /\ opts' = opts /\ kernel' = kernel /\ dropped' = dropped
      /\ IF Says(r, e, d, s) = {} THEN shown'[d][s] = shown[d][s] ELSE shown'[d][s] \in Says(r, e, d, s)
  BY <1>1, HandleShown
<1>3. PICK R : R = rings'[RingOf(s)]
  OBVIOUS
<1>4. RingOf(s) \in Rings
  BY DEF RingOf, Rings
<1> SUFFICES ASSUME Claimed(s), FlagOf(s) \subseteq opts, <<d, s>> \notin dropped, kernel[d][s] # None
             PROVE  LastSays([i \in 1..Len(R) |-> Says(RingOf(s), R[i], d, s)], Len(R),
                             shown'[d][s], kernel[d][s])
  BY <1>2, <1>3, LatestPrimed
<1>5. LastSays(Words(d, s), Len(Ring(s)), shown[d][s], kernel[d][s])
  BY DEF Latest
<1>6. CASE RingOf(s) = r
  <2> DEFINE n == Len(R)
             U == [i \in 1..n |-> Says(RingOf(s), R[i], d, s)]
  <2>1. /\ n \in Nat /\ Len(Ring(s)) = n + 1 /\ Ring(s)[1] = e
        /\ \A i \in 1..n : R[i] = Ring(s)[i + 1]
    <3>1. Ring(s) = rings[r] /\ R = Tail(rings[r])
      BY <1>2, <1>3, <1>6 DEF Ring
    <3>2. Len(rings[r]) \in Nat \ {0}
      BY <1>2, EmptySeq
    <3> QED
      BY <1>1, <1>2, <3>1, <3>2, HeadTailProperties
  <2>2. Words(d, s)[1] = Says(r, e, d, s)
    <3>1. 1 \in 1..Len(Ring(s))
      BY <2>1
    <3> QED
      BY <1>6, <2>1, <3>1 DEF Words
  <2>3. \A i \in 1..n : U[i] = Words(d, s)[i + 1]
    <3>1. \A i \in 1..n : i + 1 \in 1..Len(Ring(s))
      BY <2>1
    <3> QED
      BY <2>1, <3>1 DEF Words
  <2>4. LastSays(Words(d, s), n + 1, shown[d][s], kernel[d][s])
    BY <1>5, <2>1
  <2>5. n \in Nat
    BY <2>1
  <2> HIDE DEF n, U
  <2>6. LastSays(U, n, shown'[d][s], kernel[d][s])
    BY <1>2, <2>2, <2>3, <2>4, <2>5, LastTail
  <2> QED
    BY <2>6 DEF U, n
<1>7. CASE RingOf(s) # r
  <2>1. Says(r, e, d, s) = {}
    <3> SUFFICES ASSUME NEW v \in Int, <<s, v>> \in Samples(r, e) PROVE FALSE
      BY DEF Says
    <3>1. PICK x \in Samples(r, e) : x = <<s, v>>
      OBVIOUS
    <3>2. x[1] = s /\ RingOf(x[1]) = r
      BY <1>2, <3>1, SamplesKnown
    <3> QED
      BY <1>7, <3>2
  <2>2. shown'[d][s] = shown[d][s] /\ R = Ring(s)
    BY <1>2, <1>3, <1>4, <1>7, <2>1 DEF Ring
  <2> QED
    BY <1>5, <2>2 DEF Words
<1> QED
  BY <1>6, <1>7

LEMMA CurInductive == CurInv /\ [Next]_vars => CurInv'
<1> SUFFICES ASSUME CurInv, [Next]_vars PROVE CurInv'
  OBVIOUS
<1>0. CpuInv /\ CpuTypeOK /\ \A c \in Cpus, s \in Signals : Latest(c, s)
  BY DEF CurInv, CpuInv
<1> SUFFICES \A c \in Cpus, s \in Signals : Latest(c, s)'
  BY <1>0, CpuInvInductive DEF CurInv
<1>1. ASSUME NEW c, NEW r, NEW e, NEW news, Stores(c, r, e, news), Tells(c, r, e, news)
      PROVE  \A d \in Cpus, s \in Signals : Latest(d, s)'
  BY <1>0, <1>1, StoreKeepsLatest
<1>2. ASSUME NEW r \in Rings, Handle(r) PROVE \A c \in Cpus, s \in Signals : Latest(c, s)'
  BY <1>0, <1>2, HandleKeepsLatest
<1>3. ASSUME UNCHANGED <<opts, fields, rings, shown, kernel, dropped>>
      PROVE  \A c \in Cpus, s \in Signals : Latest(c, s)'
  <2> SUFFICES ASSUME NEW c \in Cpus, NEW s \in Signals PROVE Latest(c, s)'
    OBVIOUS
  <2>1. PICK R : R = Ring(s)
    OBVIOUS
  <2>2. R = rings'[RingOf(s)]
    BY <1>3, <2>1 DEF Ring
  <2>3. Claimed(s) /\ FlagOf(s) \subseteq opts /\ <<c, s>> \notin dropped /\ kernel[c][s] # None =>
          LastSays([i \in 1..Len(R) |-> Says(RingOf(s), R[i], c, s)], Len(R), shown[c][s], kernel[c][s])
    BY <1>0, <2>1 DEF Latest, Words
  <2> QED
    BY <1>3, <2>2, <2>3, LatestPrimed
<1>4. CASE UNCHANGED vars
  BY <1>3, <1>4 DEF vars
<1>5. CASE Next
  <2>1. ASSUME NEW c \in Cpus, NEW u \in CfsUpdates, Stores(c, "rq_pelt", CfsRecord(c, u), CfsNews(u))
        PROVE  \A d \in Cpus, s \in Signals : Latest(d, s)'
    BY <1>0, <1>1, <2>1, CfsTells
  <2>2. ASSUME NEW c \in Cpus, NEW v \in Vals,
               \/ \E stale \in StaleTypes :
                    Stores(c, "rq_pelt", EstRecord(c, v, stale), [util_est |-> v])
               \/ Stores(c, "rq_pelt", RtRecord(c, "RT", v), [util_avg_rt |-> v])
               \/ /\ "util_avg_dl" \in opts
                  /\ Stores(c, "rq_pelt", RtRecord(c, "DL", v), [util_avg_dl |-> v])
               \/ /\ "util_avg_irq" \in opts
                  /\ Stores(c, "rq_pelt", RtRecord(c, "IRQ", v), [util_avg_irq |-> v])
               \/ /\ "load_avg_thermal" \in opts
                  /\ Stores(c, "rq_pelt", ThermalRecord(c, v), [load_avg_thermal |-> v])
               \/ Stores(c, "rq_nr_running", [cpu |-> c, nr |-> v], [nr_running |-> v])
        PROVE  \A d \in Cpus, s \in Signals : Latest(d, s)'
    BY <1>1, <2>2, EstTells, RtTells, ThermalTells, NrTells
  <2>3. ASSUME NEW c \in Cpus, NEW state \in Vals \cup {-1}, NEW miss \in {-1, 0, 1},
               NEW now \in Vals \cup {-1},
               Stores(c, "freq_idle", [cpu |-> c, state |-> state, miss |-> miss], [idle_state |-> now])
        PROVE  \A d \in Cpus, s \in Signals : Latest(d, s)'
    BY <1>1, <2>3, IdleTells
  <2> QED
    BY <1>0, <1>2, <1>3, <1>5, <2>1, <2>2, <2>3, NextSteps
<1> QED
  BY <1>4, <1>5

\* Every track of a signal that is not mixed up with another shows the latest
\* value once its ring is drained, for any CPUs, values and command lines.
THEOREM TracksAreCurrent == Spec => []TracksCurrent
<1>1. Init => CurInv
  <2> SUFFICES ASSUME Init PROVE CurInv
    OBVIOUS
  <2>1. \A c \in Cpus, s \in Signals : kernel[c][s] = None
    BY DEF Init
  <2> QED
    BY <2>1, CpuInvInit DEF CurInv, Latest
<1>2. CurInv => TracksCurrent
  <2> SUFFICES ASSUME CurInv, NEW c \in Cpus PROVE
         /\ \A s \in {"runnable_avg", "util_avg", "uclamped_avg", "util_est",
                      "load_avg_thermal", "nr_running"} : Current(c, s)
         /\ "load_avg_thermal" \notin opts => Current(c, "load_avg")
         /\ {"util_avg_dl", "util_avg_irq"} \cap opts = {} => Current(c, "util_avg_rt")
    BY DEF TracksCurrent
  <2>1. ASSUME NEW s \in Signals, Claimed(s) PROVE Current(c, s)
    <3> SUFFICES ASSUME FlagOf(s) \subseteq opts, rings[RingOf(s)] = <<>>, <<c, s>> \notin dropped,
                        kernel[c][s] # None
                 PROVE  shown[c][s] = kernel[c][s]
      BY DEF Current
    <3>1. LastSays(Words(c, s), Len(Ring(s)), shown[c][s], kernel[c][s])
      BY <2>1 DEF CurInv, Latest
    <3>2. Len(Ring(s)) = 0
      BY EmptySeq DEF Ring
    <3> QED
      BY <3>1, <3>2 DEF LastSays
  <2> QED
    BY <2>1 DEF Claimed, Signals
<1> QED
  BY <1>1, <1>2, CurInductive, PTL DEF Spec
=============================================================================
