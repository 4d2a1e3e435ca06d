-------------------------- MODULE LoadBalanceProofs --------------------------
(***************************************************************************)
(* Proofs about load balance tracing, for any number of CPUs, calls, sched *)
(* domains and any capacity of the ring.                                   *)
(***************************************************************************)
EXTENDS LoadBalance, SequenceTheorems, TLAPS

Frame == [f : PhaseSet, lb : Cpus, id : Nat \ {0}, begun : BOOLEAN, hooked : BOOLEAN]

SdSet == {<<>>} \cup {gen_sched_domain_stats(r.chain, r.busy) : r \in Readings}
Fields == [this_cpu : Cpus, lb_cpu : Cpus, phase : PhaseSet, entry : BOOLEAN, id : Nat \ {0},
           done : BOOLEAN, overloaded : Int, overutilized : Int, misfit : Int, sd : SdSet]

\* Exit records say nothing of the counters.
Records ==
  {e \in Fields : ~e.entry => e.overloaded = Absent /\ e.overutilized = Absent /\ e.misfit = Absent}

Progs == [stage : {"begun", "reserved"}, e : Records, with : SUBSET Nat]
Reserved(p) == p # Idle /\ p.stage = "reserved"

LbTypeOK ==
  /\ attached \in Nat
  /\ calls \in [Cpus -> Seq(Frame)]
  /\ lb_map \in [PhaseSet \X Cpus -> Cpus \cup {None}]
  /\ prog \in [Cpus -> {Idle} \cup Progs]
  /\ ring \in Seq(Records)
  /\ ncalls \in Nat

\* The busy records are those of the programs between reserve and submit.
ProgOK ==
  /\ \A c \in Cpus : prog[c] # Idle => prog[c].e.this_cpu = c /\ ~prog[c].e.done
  /\ \A c \in Cpus : Reserved(prog[c]) => \E k \in 1..Len(ring) : ring[k] = prog[c].e
  /\ \A k \in 1..Len(ring) : ~ring[k].done =>
       Reserved(prog[ring[k].this_cpu]) /\ ring[k] = prog[ring[k].this_cpu].e

\* The place of a function in the calls of a CPU follows from which function
\* calls which; a call the exit program will see was seen to begin.
Level(i) ==
  CASE i = 1 -> {"run_rebalance_domains", "balance_fair", "pick_next_task_fair"}
    [] i = 2 -> {"rebalance_domains", "newidle_balance"}
    [] i = 3 -> {"load_balance"}
    [] OTHER -> {}

CallsOK ==
  \A c \in Cpus : \A i \in 1..Len(calls[c]) :
    /\ calls[c][i].f \in Level(i)
    /\ calls[c][i].hooked => calls[c][i].begun

\* v is what lb_map should say of function f when the calls of the CPU are s.
Entry(s, f, v) ==
  /\ (\A i \in 1..Len(s) : ~(s[i].f = f /\ s[i].begun)) => v = None
  /\ \A i \in 1..Len(s) : s[i].f = f /\ s[i].begun => v = s[i].lb

MapInv == LbTypeOK /\ ProgOK /\ CallsOK /\ LbMapExact

-----------------------------------------------------------------------------
(* lb_map.                                                                 *)

\* No function has two places.
LEMMA LevelsApart ==
  ASSUME NEW i \in Nat, NEW j \in Nat, NEW f, f \in Level(i), f \in Level(j)
  PROVE  i = j
  BY DEF Level

\* The exit program of a function is attached after its entry program.
LEMMA ExitAfterEntry ==
  ASSUME LbTypeOK, NEW f \in PhaseSet, ExitOn(f)
  PROVE  EntryOn(f)
<1>1. Index(f) \in DOMAIN Phases
  BY DEF Index, PhaseSet
<1>2. DOMAIN Phases = 1..6
  BY DEF Phases
<1>3. Index(f) \in Nat /\ attached \in Nat
  BY <1>1, <1>2 DEF LbTypeOK
<1> QED
  BY <1>3 DEF ExitOn, EntryOn

\* The entries of lb_map one by one: of a state and of the next one.
LEMMA MapByEntry ==
  ASSUME LbTypeOK, LbMapExact, NEW c \in Cpus \ unpaired,
         NEW f \in PhaseSet \ {"run_rebalance_domains"}
  PROVE  Entry(calls[c], f, lb_map[<<f, c>>])
<1>1. DOMAIN calls[c] = 1..Len(calls[c])
  BY DEF LbTypeOK
<1> QED
  BY <1>1 DEF LbMapExact, Entry

LEMMA MapFromEntries ==
  ASSUME LbTypeOK',
         \A c \in (Cpus \ unpaired') : \A f \in PhaseSet \ {"run_rebalance_domains"} :
           Entry(calls'[c], f, lb_map'[<<f, c>>])
  PROVE  LbMapExact'
<1> SUFFICES ASSUME NEW c \in Cpus \ unpaired', NEW f \in PhaseSet \ {"run_rebalance_domains"}
             PROVE  LET mine == {i \in DOMAIN calls'[c] : calls'[c][i].f = f /\ calls'[c][i].begun}
                    IN  /\ mine = {} => lb_map'[<<f, c>>] = None
                        /\ \A i \in mine : lb_map'[<<f, c>>] = calls'[c][i].lb
  BY DEF LbMapExact
<1>1. DOMAIN calls'[c] = 1..Len(calls'[c])
  BY DEF LbTypeOK
<1>2. Entry(calls'[c], f, lb_map'[<<f, c>>])
  OBVIOUS
<1> QED
  BY <1>1, <1>2 DEF Entry

\* Nothing runs yet.
LEMMA MapInit == Init => MapInv
<1> SUFFICES ASSUME Init PROVE MapInv
  OBVIOUS
<1>1. \A c \in Cpus : calls[c] = <<>>
  BY DEF Init
<1>2. LbTypeOK
  BY DEF Init, LbTypeOK
<1>3. ProgOK
  BY DEF Init, ProgOK, Reserved
<1> QED
  BY <1>1, <1>2, <1>3 DEF Init, MapInv, CallsOK, LbMapExact

\* The fields of a record, and of a program that runs.
LEMMA RecordFields ==
  ASSUME NEW e \in Records
  PROVE  /\ e.this_cpu \in Cpus /\ e.lb_cpu \in Cpus /\ e.phase \in PhaseSet
         /\ e.entry \in BOOLEAN /\ e.done \in BOOLEAN /\ e.id \in Nat /\ e.id > 0
         /\ e \in Fields
         /\ ~e.entry => e.overloaded = Absent /\ e.overutilized = Absent /\ e.misfit = Absent
<1>1. e \in Fields
  BY DEF Records
<1>2. ~e.entry => e.overloaded = Absent /\ e.overutilized = Absent /\ e.misfit = Absent
  BY DEF Records
<1> QED
  BY <1>1, <1>2 DEF Fields

LEMMA ProgFields ==
  ASSUME LbTypeOK, NEW c \in Cpus, prog[c] # Idle
  PROVE  /\ prog[c] \in Progs /\ prog[c].e \in Records /\ prog[c].with \subseteq Nat
         /\ prog[c].stage \in {"begun", "reserved"}
<1>1. prog[c] \in Progs
  BY DEF LbTypeOK
<1> QED
  BY <1>1 DEF Progs

LEMMA EntryHeader ==
  ASSUME NEW c \in Cpus, NEW f \in PhaseSet, NEW lb \in Cpus, NEW id \in Nat \ {0}
  PROVE  LET h == Header(c, f, lb, TRUE, id)
         IN  /\ h \in Records /\ h.this_cpu = c /\ h.phase = f /\ h.lb_cpu = lb
             /\ h.entry /\ h.id = id /\ h.done = FALSE
<1>1. <<>> \in SdSet /\ Absent \in Int
  BY DEF SdSet, Absent
<1>2. Header(c, f, lb, TRUE, id) \in Fields
  BY <1>1 DEF Header, Fields
<1> QED
  BY <1>2 DEF Header, Records

LEMMA ExitHeader ==
  ASSUME NEW c \in Cpus, NEW f \in PhaseSet, NEW lb \in Cpus, NEW id \in Nat \ {0}
  PROVE  LET h == Header(c, f, lb, FALSE, id)
         IN  /\ h \in Records /\ h.this_cpu = c /\ h.phase = f /\ h.lb_cpu = lb
             /\ ~h.entry /\ h.id = id /\ h.done = FALSE
<1>1. <<>> \in SdSet /\ Absent \in Int
  BY DEF SdSet, Absent
<1>2. Header(c, f, lb, FALSE, id) \in Fields
  BY <1>1 DEF Header, Fields
<1> QED
  BY <1>2 DEF Header, Records

\* A program starts.
LEMMA BeginTypes ==
  ASSUME LbTypeOK, ProgOK, NEW c \in Cpus, prog[c] = Idle, NEW h \in Records,
         h.this_cpu = c, h.done = FALSE, Begin(c, h), ring' = ring
  PROVE  /\ prog' \in [Cpus -> {Idle} \cup Progs] /\ ProgOK'
         /\ prog'[c] # Idle /\ prog'[c].stage = "begun" /\ prog'[c].e = h
         /\ prog'[c].with = {prog[d].e.id : d \in Running}
         /\ \A d \in Cpus : d # c => prog'[d] = prog[d]
<1> DEFINE w == {prog[d].e.id : d \in Running}
           p == [stage |-> "begun", e |-> h, with |-> w]
<1>1. w \subseteq Nat
  <2> SUFFICES ASSUME NEW d \in Cpus, prog[d] # Idle PROVE prog[d].e.id \in Nat
    BY DEF Running
  <2> QED
    BY ProgFields, RecordFields
<1>2. prog' = [prog EXCEPT ![c] = p] /\ prog \in [Cpus -> {Idle} \cup Progs]
  BY DEF Begin, LbTypeOK
<1> HIDE DEF w
<1>3. p \in Progs /\ p # Idle /\ p.stage = "begun" /\ p.e = h /\ p.with = w
  BY <1>1 DEF Progs, Idle
<1> HIDE DEF p
<1>4. prog' \in [Cpus -> {Idle} \cup Progs] /\ prog'[c] = p /\ \A d \in Cpus : d # c => prog'[d] = prog[d]
  BY <1>2, <1>3
<1>5. ProgOK'
  <2>1. ASSUME NEW d \in Cpus, prog'[d] # Idle PROVE prog'[d].e.this_cpu = d /\ ~prog'[d].e.done
    BY <1>3, <1>4, <2>1 DEF ProgOK
  <2>2. ASSUME NEW d \in Cpus, Reserved(prog'[d]) PROVE \E k \in 1..Len(ring) : ring[k] = prog'[d].e
    <3>1. d # c
      BY <1>3, <1>4, <2>2 DEF Reserved
    <3> QED
      BY <1>4, <2>2, <3>1 DEF ProgOK, Reserved
  <2>3. ASSUME NEW k \in 1..Len(ring), ~ring[k].done
        PROVE  Reserved(prog'[ring[k].this_cpu]) /\ ring[k] = prog'[ring[k].this_cpu].e
    <3>1. Reserved(prog[ring[k].this_cpu]) /\ ring[k] = prog[ring[k].this_cpu].e
      BY <2>3 DEF ProgOK
    <3>2. ring[k].this_cpu \in Cpus
      BY RecordFields DEF LbTypeOK
    <3>3. ring[k].this_cpu # c
      BY <3>1 DEF Reserved
    <3> QED
      BY <1>4, <3>1, <3>2, <3>3 DEF Reserved
  <2> QED
    BY <2>1, <2>2, <2>3 DEF ProgOK
<1> QED
  BY <1>3, <1>4, <1>5 DEF w

\* A busy record enters the ring, or the program gives up.
LEMMA ReserveTypes ==
  ASSUME LbTypeOK, ProgOK, NEW c \in Cpus, Reserve(c)
  PROVE  /\ LbTypeOK' /\ ProgOK'
         /\ prog[c] # Idle /\ prog[c].stage = "begun" /\ prog[c].e \in Records
         /\ \A d \in Cpus : d # c => prog'[d] = prog[d]
         /\ \/ /\ ring' = Append(ring, prog[c].e) /\ lost' = lost
               /\ Reserved(prog'[c]) /\ prog'[c].e = prog[c].e /\ prog'[c].with = prog[c].with
            \/ ring' = ring /\ lost' = lost \cup {c} /\ prog'[c] = Idle
<1>1. prog[c] # Idle /\ prog[c].stage = "begun" /\ ~Reserved(prog[c])
  BY DEF Reserve, Reserved
<1>2. prog[c] \in Progs /\ prog[c].e \in Records
  BY <1>1, ProgFields
<1>3. prog \in [Cpus -> {Idle} \cup Progs] /\ ring \in Seq(Records)
      /\ UNCHANGED <<attached, calls, lb_map, ncalls>>
  BY DEF Reserve, LbTypeOK
<1>4. \A k \in 1..Len(ring) : ring[k].this_cpu \in Cpus /\ (~ring[k].done => ring[k].this_cpu # c)
  <2> SUFFICES ASSUME NEW k \in 1..Len(ring)
               PROVE  ring[k].this_cpu \in Cpus /\ (~ring[k].done => ring[k].this_cpu # c)
    OBVIOUS
  <2>1. ring[k].this_cpu \in Cpus
    BY <1>3, RecordFields
  <2> QED
    BY <1>1, <2>1 DEF ProgOK
<1>5. CASE HasRoom
  <2> DEFINE p == [prog[c] EXCEPT !.stage = "reserved"]
  <2>1. ring' = Append(ring, prog[c].e) /\ prog' = [prog EXCEPT ![c] = p] /\ lost' = lost
    BY <1>5 DEF Reserve
  <2>2. p \in Progs /\ p # Idle /\ p.stage = "reserved" /\ p.e = prog[c].e /\ p.with = prog[c].with
    BY <1>2 DEF Progs, Idle
  <2> HIDE DEF p
  <2>3. prog' \in [Cpus -> {Idle} \cup Progs] /\ prog'[c] = p /\ \A d \in Cpus : d # c => prog'[d] = prog[d]
    BY <1>3, <2>1, <2>2
  <2>4. /\ Len(ring) \in Nat /\ Len(ring') = Len(ring) + 1 /\ ring'[Len(ring) + 1] = prog[c].e
        /\ \A k \in 1..Len(ring) : ring'[k] = ring[k]
    BY <1>2, <1>3, <2>1, AppendProperties
  <2>5. LbTypeOK'
    BY <1>2, <1>3, <2>1, <2>3 DEF LbTypeOK
  <2>6. ASSUME NEW d \in Cpus, prog'[d] # Idle PROVE prog'[d].e.this_cpu = d /\ ~prog'[d].e.done
    BY <1>1, <2>2, <2>3, <2>6 DEF ProgOK
  <2>7. ASSUME NEW d \in Cpus, Reserved(prog'[d]) PROVE \E k \in 1..Len(ring') : ring'[k] = prog'[d].e
    <3>1. CASE d = c
      BY <2>2, <2>3, <2>4, <3>1
    <3>2. CASE d # c
      <4>1. PICK k \in 1..Len(ring) : ring[k] = prog[d].e
        BY <2>3, <2>7, <3>2 DEF ProgOK, Reserved
      <4> QED
        BY <2>3, <2>4, <3>2, <4>1
    <3> QED
      BY <3>1, <3>2
  <2>8. ASSUME NEW k \in 1..Len(ring'), ~ring'[k].done
        PROVE  Reserved(prog'[ring'[k].this_cpu]) /\ ring'[k] = prog'[ring'[k].this_cpu].e
    <3>1. CASE k = Len(ring) + 1
      BY <1>1, <2>2, <2>3, <2>4, <3>1 DEF ProgOK, Reserved
    <3>2. CASE k # Len(ring) + 1
      <4>1. k \in 1..Len(ring) /\ ring'[k] = ring[k]
        BY <2>4, <3>2
      <4>2. ring[k].this_cpu \in Cpus /\ ring[k].this_cpu # c
        BY <1>4, <2>8, <4>1
      <4>3. Reserved(prog[ring[k].this_cpu]) /\ ring[k] = prog[ring[k].this_cpu].e
        BY <2>8, <4>1 DEF ProgOK
      <4> QED
        BY <2>3, <4>1, <4>2, <4>3 DEF Reserved
    <3> QED
      BY <3>1, <3>2
  <2>9. ProgOK'
    BY <2>6, <2>7, <2>8 DEF ProgOK
  <2> QED
    BY <1>1, <1>2, <2>1, <2>2, <2>3, <2>5, <2>9 DEF Reserved
<1>6. CASE ~HasRoom
  <2>1. ring' = ring /\ prog' = [prog EXCEPT ![c] = Idle] /\ lost' = lost \cup {c}
    BY <1>6 DEF Reserve
  <2>2. prog' \in [Cpus -> {Idle} \cup Progs] /\ prog'[c] = Idle /\ \A d \in Cpus : d # c => prog'[d] = prog[d]
    BY <1>3, <2>1
  <2>3. LbTypeOK'
    BY <1>3, <2>1, <2>2 DEF LbTypeOK
  <2>4. ASSUME NEW d \in Cpus, prog'[d] # Idle PROVE prog'[d].e.this_cpu = d /\ ~prog'[d].e.done
    BY <2>2, <2>4 DEF ProgOK
  <2>5. ASSUME NEW d \in Cpus, Reserved(prog'[d]) PROVE \E k \in 1..Len(ring') : ring'[k] = prog'[d].e
    BY <2>1, <2>2, <2>5 DEF ProgOK, Reserved
  <2>6. ASSUME NEW k \in 1..Len(ring), ~ring[k].done
        PROVE  Reserved(prog'[ring[k].this_cpu]) /\ ring[k] = prog'[ring[k].this_cpu].e
    <3>1. ring[k].this_cpu \in Cpus /\ ring[k].this_cpu # c
      BY <1>4, <2>6
    <3> QED
      BY <2>2, <2>6, <3>1 DEF ProgOK, Reserved
  <2>7. ProgOK'
    BY <2>1, <2>4, <2>5, <2>6 DEF ProgOK
  <2> QED
    BY <1>1, <1>2, <2>1, <2>2, <2>3, <2>7
<1> QED
  BY <1>5, <1>6

\* A filled record is a record, and what the slices need of it was in the busy one.
LEMMA FilledKnown ==
  ASSUME NEW h \in Records, NEW r \in Readings, NEW stale \in Cpus,
         NEW e, h.entry => e = EntryRecord(h, r), ~h.entry => e = ExitRecord(h, stale)
  PROVE  /\ e \in Records /\ e.done /\ e.this_cpu = h.this_cpu /\ (e.entry <=> h.entry)
         /\ e.phase = h.phase /\ e.id = h.id /\ (h.entry => e.lb_cpu = h.lb_cpu)
<1>1. /\ h \in Fields /\ h.entry \in BOOLEAN /\ h.phase \in PhaseSet
      /\ ~h.entry => h.overloaded = Absent /\ h.overutilized = Absent /\ h.misfit = Absent
  BY RecordFields
<1>2. CASE h.entry
  <2>1. r.over \in Int /\ r.util \in Int /\ r.misfit \in Int /\ Absent \in Int
    BY LbAssumption DEF Absent
  <2> DEFINE sd == IF h.phase = "rebalance_domains" THEN gen_sched_domain_stats(r.chain, r.busy) ELSE <<>>
             reads == h.phase # "run_rebalance_domains"
             o == IF reads THEN r.over ELSE Absent
             u == IF reads THEN r.util ELSE Absent
             m == IF reads THEN r.misfit ELSE Absent
  <2>2. sd \in SdSet
    BY DEF SdSet
  <2>3. o \in Int /\ u \in Int /\ m \in Int
    BY <2>1
  <2>4. e = [h EXCEPT !.done = TRUE, !.overloaded = o, !.overutilized = u, !.misfit = m, !.sd = sd]
    BY <1>2 DEF EntryRecord
  <2> HIDE DEF sd, o, u, m
  <2>5. e \in Fields /\ e.entry = h.entry
    BY <1>1, <2>2, <2>3, <2>4 DEF Fields
  <2>6. e \in Records
    BY <1>2, <2>5 DEF Records
  <2> QED
    BY <1>1, <2>4, <2>6 DEF Fields
<1>3. CASE ~h.entry
  <2> DEFINE l == IF h.phase = "run_rebalance_domains" THEN h.lb_cpu ELSE stale
  <2>1. l \in Cpus
    BY RecordFields
  <2>2. e = [h EXCEPT !.done = TRUE, !.lb_cpu = l]
    BY <1>3 DEF ExitRecord
  <2> HIDE DEF l
  <2>3. /\ e \in Fields /\ e.entry = h.entry /\ e.overloaded = h.overloaded
        /\ e.overutilized = h.overutilized /\ e.misfit = h.misfit
    BY <1>1, <2>1, <2>2 DEF Fields
  <2>4. e \in Records
    BY <1>1, <1>3, <2>3 DEF Records
  <2> QED
    BY <1>1, <1>3, <2>2, <2>4 DEF Fields
<1> QED
  BY <1>1, <1>2, <1>3

\* A busy record is filled and released.
LEMMA SubmitTypes ==
  ASSUME LbTypeOK, ProgOK, NEW c \in Cpus, NEW r \in Readings, NEW stale \in Cpus, Submit(c, r, stale)
  PROVE  LET h == prog[c].e
             e == IF h.entry THEN EntryRecord(h, r) ELSE ExitRecord(h, stale)
         IN  /\ LbTypeOK' /\ ProgOK' /\ Reserved(prog[c]) /\ h \in Records
             /\ prog'[c] = Idle /\ \A d \in Cpus : d # c => prog'[d] = prog[d]
             /\ Len(ring') = Len(ring)
             /\ \A k \in 1..Len(ring) :
                  \/ ~ring[k].done /\ ring[k].this_cpu = c /\ ring[k] = h /\ ring'[k] = e
                  \/ (ring[k].done \/ ring[k].this_cpu # c) /\ ring'[k] = ring[k]
<1> DEFINE h == prog[c].e
           e == IF h.entry THEN EntryRecord(h, r) ELSE ExitRecord(h, stale)
           Mine(k) == ~ring[k].done /\ ring[k].this_cpu = c
<1>1. Reserved(prog[c])
  BY DEF Submit, Reserved
<1>2. h \in Records
  BY <1>1, ProgFields DEF Reserved
<1>3. e \in Records /\ e.done
  <2>1. PICK x : x = e
    OBVIOUS
  <2>2. (h.entry => x = EntryRecord(h, r)) /\ (~h.entry => x = ExitRecord(h, stale))
    BY <2>1
  <2> HIDE DEF h, e
  <2>3. x \in Records /\ x.done
    BY <1>2, <2>2, FilledKnown
  <2> QED
    BY <2>1, <2>3
<1>4. /\ prog \in [Cpus -> {Idle} \cup Progs] /\ ring \in Seq(Records) /\ Len(ring) \in Nat
      /\ UNCHANGED <<attached, calls, lb_map, ncalls>>
      /\ prog' = [prog EXCEPT ![c] = Idle]
  BY DEF Submit, LbTypeOK
<1>5. ring' = [k \in 1..Len(ring) |-> IF Mine(k) THEN e ELSE ring[k]]
  BY DEF Submit
<1> HIDE DEF e, h
<1>6. \A k \in 1..Len(ring) : ring[k] \in Records /\ ring[k].this_cpu \in Cpus
  BY <1>4, RecordFields
<1>7. ring' \in Seq(Records) /\ Len(ring') = Len(ring)
      /\ \A k \in 1..Len(ring) : ring'[k] = IF Mine(k) THEN e ELSE ring[k]
  BY <1>3, <1>4, <1>5, <1>6
<1>8. prog' \in [Cpus -> {Idle} \cup Progs] /\ prog'[c] = Idle /\ \A d \in Cpus : d # c => prog'[d] = prog[d]
  BY <1>4
<1>9. LbTypeOK'
  BY <1>4, <1>7, <1>8 DEF LbTypeOK
<1>10. \A k \in 1..Len(ring) :
         \/ Mine(k) /\ ring[k] = h /\ ring'[k] = e
         \/ (ring[k].done \/ ring[k].this_cpu # c) /\ ring'[k] = ring[k]
  BY <1>7 DEF ProgOK, h
<1>11. ProgOK'
  <2>1. ASSUME NEW d \in Cpus, prog'[d] # Idle PROVE prog'[d].e.this_cpu = d /\ ~prog'[d].e.done
    BY <1>8, <2>1 DEF ProgOK
  <2>2. ASSUME NEW d \in Cpus, Reserved(prog'[d]) PROVE \E k \in 1..Len(ring') : ring'[k] = prog'[d].e
    <3>1. d # c /\ prog'[d] = prog[d]
      BY <1>8, <2>2 DEF Reserved
    <3>2. PICK k \in 1..Len(ring) : ring[k] = prog[d].e
      BY <2>2, <3>1 DEF ProgOK
    <3>3. ring[k].this_cpu = d
      BY <2>2, <3>1, <3>2 DEF ProgOK, Reserved
    <3> QED
      BY <1>7, <1>10, <3>1, <3>2, <3>3
  <2>3. ASSUME NEW k \in 1..Len(ring'), ~ring'[k].done
        PROVE  Reserved(prog'[ring'[k].this_cpu]) /\ ring'[k] = prog'[ring'[k].this_cpu].e
    <3>1. k \in 1..Len(ring) /\ ring'[k] = ring[k] /\ ring[k].this_cpu # c /\ ring[k].this_cpu \in Cpus
      BY <1>3, <1>6, <1>7, <1>10, <2>3
    <3> QED
      BY <1>8, <2>3, <3>1 DEF ProgOK
  <2> QED
    BY <2>1, <2>2, <2>3 DEF ProgOK
<1> QED
  BY <1>1, <1>2, <1>7, <1>8, <1>9, <1>10, <1>11 DEF e, h

\* The oldest record leaves the ring.
LEMMA HandleTypes ==
  ASSUME LbTypeOK, ProgOK, Handle
  PROVE  /\ LbTypeOK' /\ ProgOK' /\ UNCHANGED prog
         /\ Len(ring) \in Nat /\ Len(ring) # 0 /\ Len(ring') = Len(ring) - 1
         /\ Head(ring) = ring[1] /\ ring[1] \in Records /\ ring[1].done
         /\ \A k \in 1..(Len(ring) - 1) : ring'[k] = ring[k + 1]
<1>1. ring # <<>> /\ ring' = Tail(ring) /\ ring \in Seq(Records) /\ Head(ring).done
      /\ UNCHANGED <<attached, calls, lb_map, prog, ncalls>>
  BY DEF Handle, LbTypeOK
<1>2. Len(ring) \in Nat /\ Len(ring) # 0
  BY <1>1, EmptySeq
<1>3. /\ Len(ring') = Len(ring) - 1 /\ Head(ring) = ring[1]
      /\ \A k \in 1..(Len(ring) - 1) : ring'[k] = ring[k + 1]
  BY <1>1, <1>2, HeadTailProperties
<1>4. LbTypeOK'
  BY <1>1 DEF LbTypeOK
<1>5. 1 \in 1..Len(ring) /\ ring[1] \in Records
  BY <1>1, <1>2
<1>6. ASSUME NEW d \in Cpus, Reserved(prog[d]) PROVE \E k \in 1..Len(ring') : ring'[k] = prog[d].e
  <2>1. PICK k \in 1..Len(ring) : ring[k] = prog[d].e /\ ~prog[d].e.done
    BY <1>6 DEF ProgOK, Reserved
  <2>2. k # 1
    BY <1>1, <1>3, <2>1
  <2>3. k - 1 \in 1..(Len(ring) - 1) /\ (k - 1) + 1 = k
    BY <1>2, <2>2
  <2> QED
    BY <1>3, <2>1, <2>3
<1>7. ASSUME NEW k \in 1..Len(ring'), ~ring'[k].done
      PROVE  Reserved(prog[ring'[k].this_cpu]) /\ ring'[k] = prog[ring'[k].this_cpu].e
  <2>1. k + 1 \in 1..Len(ring) /\ ring'[k] = ring[k + 1]
    BY <1>2, <1>3
  <2> QED
    BY <1>7, <2>1 DEF ProgOK
<1>8. ProgOK'
  BY <1>1, <1>6, <1>7 DEF ProgOK
<1> QED
  BY <1>1, <1>2, <1>3, <1>4, <1>5, <1>8

\* A call begins.
LEMMA EnterKeepsMap ==
  ASSUME MapInv, NEW c \in Cpus, NEW lb \in Cpus, NEW f \in PhaseSet,
         Enter(c, f, lb)
  PROVE  MapInv'
<1>1. PICK fr : fr = [f |-> f, lb |-> lb, id |-> ncalls + 1, begun |-> EntryOn(f), hooked |-> ExitOn(f)]
  OBVIOUS
<1>2. PICK n : n = Len(calls[c]) + 1
  OBVIOUS
<1>3. /\ ncalls' = ncalls + 1 /\ calls' = [calls EXCEPT ![c] = Append(@, fr)]
      /\ UNCHANGED <<attached, unpaired, ring>> /\ ncalls \in Nat /\ prog[c] = Idle
  BY <1>1 DEF Enter, MapInv, LbTypeOK
<1>4. EntryOn(f) \in BOOLEAN /\ ExitOn(f) \in BOOLEAN
  BY DEF EntryOn, ExitOn
<1>5. fr \in Frame /\ fr.f = f /\ fr.lb = lb /\ fr.begun = EntryOn(f) /\ fr.hooked = ExitOn(f)
  BY <1>1, <1>3, <1>4 DEF Frame
<1>6. calls \in [Cpus -> Seq(Frame)] /\ calls[c] \in Seq(Frame)
  BY DEF MapInv, LbTypeOK
<1>7. /\ calls' \in [Cpus -> Seq(Frame)] /\ calls'[c] = Append(calls[c], fr)
      /\ \A d \in Cpus : d # c => calls'[d] = calls[d]
  BY <1>3, <1>5, <1>6
<1>8. /\ Len(calls[c]) \in Nat /\ Len(calls'[c]) = n /\ calls'[c][n] = fr
      /\ \A i \in 1..Len(calls[c]) : calls'[c][i] = calls[c][i]
  BY <1>2, <1>5, <1>6, <1>7, AppendProperties
<1>9. f \in Level(n)
  <2>1. CASE calls[c] = <<>>
    <3>1. n = 1
      BY <1>2, <2>1
    <3> QED
      BY <2>1, <3>1 DEF Enter, MayCall, Level
  <2>2. CASE calls[c] # <<>>
    <3>1. Len(calls[c]) \in 1..Len(calls[c])
      BY <1>6, <1>8, <2>2, EmptySeq
    <3>2. calls[c][Len(calls[c])].f \in Level(Len(calls[c]))
      BY <3>1 DEF MapInv, CallsOK
    <3>3. CASE f = "rebalance_domains" /\ calls[c][Len(calls[c])].f = "run_rebalance_domains"
      <4>1. Len(calls[c]) = 1
        BY <1>8, <3>2, <3>3 DEF Level
      <4> QED
        BY <1>2, <3>3, <4>1 DEF Level
    <3>4. CASE f = "newidle_balance" /\ calls[c][Len(calls[c])].f \in {"balance_fair", "pick_next_task_fair"}
      <4>1. Len(calls[c]) = 1
        BY <1>8, <3>2, <3>4 DEF Level
      <4> QED
        BY <1>2, <3>4, <4>1 DEF Level
    <3>5. CASE f = "load_balance" /\ calls[c][Len(calls[c])].f \in {"rebalance_domains", "newidle_balance"}
      <4>1. Len(calls[c]) = 2
        BY <1>8, <3>2, <3>5 DEF Level
      <4> QED
        BY <1>2, <3>5, <4>1 DEF Level
    <3> QED
      BY <2>2, <3>3, <3>4, <3>5 DEF Enter, MayCall
  <2> QED
    BY <2>1, <2>2
<1>10. fr.hooked => fr.begun
  BY <1>5, ExitAfterEntry DEF MapInv
<1>11. CallsOK'
  <2> SUFFICES ASSUME NEW d \in Cpus, NEW i \in 1..Len(calls'[d])
               PROVE  calls'[d][i].f \in Level(i) /\ (calls'[d][i].hooked => calls'[d][i].begun)
    BY DEF CallsOK
  <2>1. CASE d = c /\ i = n
    BY <1>5, <1>8, <1>9, <1>10, <2>1
  <2>2. CASE ~(d = c /\ i = n)
    <3>1. i \in 1..Len(calls[d]) /\ calls'[d][i] = calls[d][i]
      <4>1. CASE d = c
        BY <1>2, <1>8, <2>2, <4>1
      <4>2. CASE d # c
        BY <1>7, <4>2
      <4> QED
        BY <4>1, <4>2
    <3> QED
      BY <3>1 DEF MapInv, CallsOK
  <2> QED
    BY <2>1, <2>2
<1>12. lb_map' = IF EntryOn(f) /\ f # "run_rebalance_domains" THEN [lb_map EXCEPT ![<<f, c>>] = lb] ELSE lb_map
  BY DEF Enter, Key
<1>15. prog' \in [Cpus -> {Idle} \cup Progs] /\ ProgOK'
  <2>1. CASE EntryOn(f)
    <3>1. PICK h : h = Header(c, f, lb, TRUE, ncalls + 1)
      OBVIOUS
    <3>2. h \in Records /\ h.this_cpu = c /\ h.done = FALSE
      <4>1. ncalls + 1 \in Nat \ {0}
        BY <1>3
      <4> QED
        BY <3>1, <4>1, EntryHeader DEF Header
    <3>3. Begin(c, h)
      BY <1>3, <2>1, <3>1 DEF Enter
    <3> QED
      BY <1>3, <3>2, <3>3, BeginTypes DEF MapInv
  <2>2. CASE ~EntryOn(f)
    <3>1. UNCHANGED <<prog, ring>>
      BY <1>3, <2>2 DEF Enter
    <3> QED
      BY <3>1 DEF MapInv, LbTypeOK, ProgOK
  <2> QED
    BY <2>1, <2>2
<1>13. LbTypeOK' /\ ProgOK'
  <2>1. prog' \in [Cpus -> {Idle} \cup Progs] /\ ProgOK'
    BY <1>3, <1>15 DEF MapInv
  <2>2. lb_map' \in [PhaseSet \X Cpus -> Cpus \cup {None}]
    BY <1>12 DEF MapInv, LbTypeOK
  <2> QED
    BY <1>3, <1>7, <2>1, <2>2 DEF MapInv, LbTypeOK
<1>14. LbMapExact'
  <2> SUFFICES ASSUME NEW d \in Cpus \ unpaired, NEW g \in PhaseSet \ {"run_rebalance_domains"}
               PROVE  Entry(calls'[d], g, lb_map'[<<g, d>>])
    BY <1>3, <1>13, MapFromEntries
  <2>1. Entry(calls[d], g, lb_map[<<g, d>>])
    BY MapByEntry DEF MapInv
  <2>2. lb_map \in [PhaseSet \X Cpus -> Cpus \cup {None}]
    BY DEF MapInv, LbTypeOK
  <2>3. CASE d # c
    <3>1. lb_map'[<<g, d>>] = lb_map[<<g, d>>]
      BY <1>12, <2>2, <2>3
    <3> QED
      BY <1>7, <2>1, <2>3, <3>1
  <2>4. CASE d = c /\ ~(g = f /\ EntryOn(f))
    <3>1. lb_map'[<<g, d>>] = lb_map[<<g, d>>]
      BY <1>12, <2>2, <2>4
    <3>2. ~(calls'[c][n].f = g /\ calls'[c][n].begun)
      BY <1>5, <1>8, <2>4
    <3>3. \A i \in 1..Len(calls'[c]) : i # n => i \in 1..Len(calls[c]) /\ calls'[c][i] = calls[c][i]
      BY <1>2, <1>8
    <3>4. \A i \in 1..Len(calls[c]) : i \in 1..Len(calls'[c]) /\ calls'[c][i] = calls[c][i]
      BY <1>2, <1>8
    <3>5. Entry(calls[c], g, lb_map'[<<g, d>>])
      BY <2>1, <2>4, <3>1
    <3> QED
      BY <2>4, <3>2, <3>3, <3>4, <3>5, ZenonT(60) DEF Entry
  <2>5. CASE d = c /\ g = f /\ EntryOn(f)
    <3>1. lb_map'[<<g, d>>] = lb
      BY <1>12, <2>2, <2>5
    <3>2. n \in 1..Len(calls'[c])
      BY <1>2, <1>8
    <3>3. calls'[c][n].f = g /\ calls'[c][n].begun /\ calls'[c][n].lb = lb
      BY <1>5, <1>8, <2>5
    <3>4. ASSUME NEW i \in 1..Len(calls'[c]), calls'[c][i].f = g PROVE i = n
      <4>1. calls'[c][i].f \in Level(i) /\ i \in Nat /\ n \in Nat
        BY <1>2, <1>8, <1>11 DEF CallsOK
      <4> QED
        BY <1>9, <2>5, <3>4, <4>1, LevelsApart
    <3> QED
      BY <2>5, <3>1, <3>2, <3>3, <3>4 DEF Entry
  <2> QED
    BY <2>3, <2>4, <2>5
<1> QED
  BY <1>11, <1>13, <1>14 DEF MapInv

\* A call returns.
LEMMA ReturnKeepsMap ==
  ASSUME MapInv, NEW c \in Cpus, Return(c)
  PROVE  MapInv'
<1>1. PICK n : n = Len(calls[c])
  OBVIOUS
<1>2. PICK fr : fr = calls[c][n]
  OBVIOUS
<1>3. calls \in [Cpus -> Seq(Frame)] /\ calls[c] \in Seq(Frame) /\ calls[c] # <<>>
  BY DEF MapInv, LbTypeOK, Return
<1>4. n \in Nat /\ n >= 1 /\ n \in 1..Len(calls[c]) /\ fr \in Frame
  BY <1>1, <1>2, <1>3
<1>5. calls' = [calls EXCEPT ![c] = SubSeq(@, 1, n - 1)] /\ UNCHANGED <<attached, ncalls, ring>> /\ prog[c] = Idle
  BY <1>1 DEF Return
<1>6. SubSeq(calls[c], 1, n - 1) \in Seq(Frame) /\ Len(SubSeq(calls[c], 1, n - 1)) = n - 1
      /\ \A i \in 1..(n - 1) : SubSeq(calls[c], 1, n - 1)[i] = calls[c][i]
  BY <1>1, <1>3, <1>4
<1>7. /\ calls' \in [Cpus -> Seq(Frame)]
      /\ Len(calls'[c]) = n - 1 /\ \A i \in 1..(n - 1) : calls'[c][i] = calls[c][i]
      /\ \A d \in Cpus : d # c => calls'[d] = calls[d]
  BY <1>3, <1>5, <1>6
<1>8. CallsOK'
  <2> SUFFICES ASSUME NEW d \in Cpus, NEW i \in 1..Len(calls'[d])
               PROVE  calls'[d][i].f \in Level(i) /\ (calls'[d][i].hooked => calls'[d][i].begun)
    BY DEF CallsOK
  <2>1. i \in 1..Len(calls[d]) /\ calls'[d][i] = calls[d][i]
    <3>1. CASE d = c
      BY <1>1, <1>4, <1>7, <3>1
    <3>2. CASE d # c
      BY <1>7, <3>2
    <3> QED
      BY <3>1, <3>2
  <2> QED
    BY <2>1 DEF MapInv, CallsOK
<1>9. fr.f \in PhaseSet /\ fr.f \in Level(n) /\ (fr.hooked => fr.begun) /\ fr.lb \in Cpus
      /\ fr.begun \in BOOLEAN /\ fr.hooked \in BOOLEAN
  BY <1>2, <1>4 DEF MapInv, CallsOK, Frame
<1>10. /\ unpaired' = IF fr.begun /\ ~fr.hooked THEN unpaired \cup {c} ELSE unpaired
       /\ \/ ~fr.hooked /\ UNCHANGED <<lb_map, prog>>
          \/ /\ fr.hooked /\ fr.f = "run_rebalance_domains"
             /\ Begin(c, Header(c, fr.f, c, FALSE, fr.id)) /\ UNCHANGED lb_map
          \/ fr.hooked /\ fr.f # "run_rebalance_domains" /\ lb_map[<<fr.f, c>>] = None /\ UNCHANGED <<lb_map, prog>>
          \/ /\ fr.hooked /\ fr.f # "run_rebalance_domains"
             /\ lb_map' = [lb_map EXCEPT ![<<fr.f, c>>] = None]
             /\ Begin(c, Header(c, fr.f, c, FALSE, fr.id))
  BY <1>1, <1>2, <1>9 DEF Return, Key, Forget
<1>11. LbTypeOK' /\ ProgOK'
  <2>1. prog' \in [Cpus -> {Idle} \cup Progs] /\ ProgOK'
    <3>1. PICK h : h = Header(c, fr.f, c, FALSE, fr.id)
      OBVIOUS
    <3>2. h \in Records /\ h.this_cpu = c /\ h.done = FALSE
      <4>1. fr.f \in PhaseSet /\ fr.id \in Nat \ {0}
        BY <1>4 DEF Frame
      <4> QED
        BY <3>1, <4>1, ExitHeader DEF Header
    <3>3. CASE Begin(c, h)
      BY <1>5, <3>2, <3>3, BeginTypes DEF MapInv
    <3>4. CASE prog' = prog
      BY <1>5, <3>4 DEF MapInv, LbTypeOK, ProgOK
    <3> QED
      BY <1>10, <3>1, <3>3, <3>4
  <2>2. lb_map' \in [PhaseSet \X Cpus -> Cpus \cup {None}]
    BY <1>10 DEF MapInv, LbTypeOK
  <2> QED
    BY <1>5, <1>7, <2>1, <2>2 DEF MapInv, LbTypeOK
<1>12. LbMapExact'
  <2> SUFFICES ASSUME NEW d \in Cpus \ unpaired', NEW g \in PhaseSet \ {"run_rebalance_domains"}
               PROVE  Entry(calls'[d], g, lb_map'[<<g, d>>])
    BY <1>11, MapFromEntries
  <2>0. d \in Cpus \ unpaired /\ (d = c => (fr.begun <=> fr.hooked))
    BY <1>9, <1>10
  <2>1. Entry(calls[d], g, lb_map[<<g, d>>])
    BY <2>0, MapByEntry DEF MapInv
  <2>2. lb_map \in [PhaseSet \X Cpus -> Cpus \cup {None}]
    BY DEF MapInv, LbTypeOK
  <2>3. CASE d # c
    <3>1. lb_map'[<<g, d>>] = lb_map[<<g, d>>]
      BY <1>10, <2>2, <2>3
    <3> QED
      BY <1>7, <2>1, <2>3, <3>1
  <2>4. CASE d = c /\ ~(g = fr.f /\ fr.begun)
    <3>1. lb_map'[<<g, d>>] = lb_map[<<g, d>>]
      BY <1>10, <2>0, <2>2, <2>4
    <3>2. \A i \in 1..Len(calls[c]) : i # n => i \in 1..Len(calls'[c]) /\ calls'[c][i] = calls[c][i]
      <4>1. \A i \in 1..n : i # n => i \in 1..(n - 1)
        BY <1>4
      <4> QED
        BY <1>1, <1>7, <4>1
    <3>3. \A i \in 1..Len(calls'[c]) : i \in 1..Len(calls[c]) /\ calls'[c][i] = calls[c][i]
      BY <1>1, <1>4, <1>7
    <3>4. ~(calls[c][n].f = g /\ calls[c][n].begun)
      BY <1>2, <2>4
    <3> QED
      BY <2>1, <2>4, <3>1, <3>2, <3>3, <3>4, SMTT(60) DEF Entry
  <2>5. CASE d = c /\ g = fr.f /\ fr.begun
    <3>1. lb_map[<<g, d>>] = fr.lb
      BY <1>2, <1>4, <2>1, <2>5 DEF Entry
    <3>2. fr.lb # None
      BY <1>9, LbAssumption DEF None
    <3>3. lb_map'[<<g, d>>] = None
      BY <1>10, <2>0, <2>2, <2>5, <3>1, <3>2
    <3>4. ASSUME NEW i \in 1..Len(calls'[c]) PROVE calls'[c][i].f # g
      <4>1. i \in 1..(n - 1)
        BY <1>7
      <4>2. i \in Nat /\ i # n /\ calls'[c][i].f \in Level(i)
        BY <1>4, <1>8, <4>1 DEF CallsOK
      <4> QED
        BY <1>4, <1>9, <2>5, <4>2, LevelsApart
    <3> QED
      BY <2>5, <3>3, <3>4 DEF Entry
  <2> QED
    BY <2>3, <2>4, <2>5
<1> QED
  BY <1>8, <1>11, <1>12 DEF MapInv

\* No step breaks MapInv.
LEMMA MapInductive == MapInv /\ [Next]_vars => MapInv'
<1> SUFFICES ASSUME MapInv, [Next]_vars PROVE MapInv'
  OBVIOUS
<1>1. ASSUME NEW c \in Cpus, NEW lb \in Cpus, NEW f \in PhaseSet, Enter(c, f, lb) PROVE MapInv'
  BY <1>1, EnterKeepsMap
<1>2. ASSUME NEW c \in Cpus, Return(c) PROVE MapInv'
  BY <1>2, ReturnKeepsMap
<1>3. ASSUME LbTypeOK', ProgOK', UNCHANGED <<calls, lb_map, unpaired>> PROVE MapInv'
  BY <1>3 DEF MapInv, CallsOK, LbMapExact
<1>4. ASSUME NEW c \in Cpus, Reserve(c) PROVE MapInv'
  <2>1. UNCHANGED <<calls, lb_map, unpaired>>
    BY <1>4 DEF Reserve
  <2> QED
    BY <1>3, <1>4, <2>1, ReserveTypes DEF MapInv
<1>5. ASSUME NEW c \in Cpus, NEW r \in Readings, NEW stale \in Cpus, Submit(c, r, stale) PROVE MapInv'
  <2>1. UNCHANGED <<calls, lb_map, unpaired>>
    BY <1>5 DEF Submit
  <2> QED
    BY <1>3, <1>5, <2>1, SubmitTypes DEF MapInv
<1>6. CASE Handle
  <2>1. UNCHANGED <<calls, lb_map, unpaired>>
    BY <1>6 DEF Handle
  <2> QED
    BY <1>3, <1>6, <2>1, HandleTypes DEF MapInv
<1>7. CASE Attach \/ StartTrace \/ UNCHANGED vars
  <2>1. UNCHANGED <<calls, lb_map, prog, ring, unpaired, ncalls>>
    BY <1>7 DEF Attach, StartTrace, vars
  <2>2. attached' \in Nat
    <3>1. attached \in Nat
      BY DEF MapInv, LbTypeOK
    <3> QED
      BY <1>7, <3>1 DEF Attach, StartTrace, vars
  <2>3. LbTypeOK' /\ ProgOK'
    BY <2>1, <2>2 DEF MapInv, LbTypeOK, ProgOK
  <2> QED
    BY <1>3, <2>1, <2>3
<1> QED
  BY <1>1, <1>2, <1>4, <1>5, <1>6, <1>7 DEF Next

\* lb_map holds exactly the calls in progress, on any number of CPUs and
\* whatever the ring refuses.
THEOREM LbMapIsExact == Spec => []LbMapExact
<1>1. MapInv => LbMapExact
  BY DEF MapInv
<1> QED
  BY <1>1, MapInit, MapInductive, PTL DEF Spec

-----------------------------------------------------------------------------
(* The counters: of a reading that was traced or is in the ring either no  *)
(* later program read the counter, or the record of one that did is behind *)
(* it in the ring.                                                         *)

\* The words of lb_sd_stats that are looked at, up to the terminating entry.
LEMMA SdWords ==
  ASSUME NEW r \in Readings, NEW n, n = (IF Len(r.chain) < MAX_SD_LEVELS THEN Len(r.chain) ELSE MAX_SD_LEVELS)
  PROVE  LET m == gen_sched_domain_stats(r.chain, r.busy)
         IN  /\ n \in 0..MAX_SD_LEVELS
             /\ \A i \in 0..(n - 1) : m[LevelAt(i)] = r.chain[i + 1].level
             /\ \A i \in 0..(n - 1) : n < MAX_SD_LEVELS \/ i > 0 =>
                  m[IntervalAt(i)] = r.chain[i + 1].interval * (IF r.busy THEN BUSY_FACTOR ELSE 1)
             /\ n < MAX_SD_LEVELS => m[LevelAt(n)] = Absent /\ m[IntervalAt(n)] = 0
<1> DEFINE m == gen_sched_domain_stats(r.chain, r.busy)
           b == IF r.busy THEN BUSY_FACTOR ELSE 1
           M == MAX_SD_LEVELS
           iv(i) == r.chain[i].interval * b
<1>1. r.chain \in Seq([level : Nat, interval : Nat]) /\ M \in Nat /\ M >= 1
  BY LbAssumption
<1>2. n \in Nat /\ n <= M
  BY <1>1
<1>3. m = [i \in 0..(2 * M) |->
             CASE i = n -> Absent
               [] i = M + n -> 0
               [] i < n -> r.chain[i + 1].level
               [] i \in (M + 0)..((M + n) - 1) /\ i # n -> iv((i - (M + 0)) + 1)
               [] OTHER -> Garbage]
  BY DEF gen_sched_domain_stats, LevelAt, IntervalAt
<1> HIDE DEF m, iv, M
<1>4. \A i \in 0..(n - 1) : m[i] = r.chain[i + 1].level
  <2> SUFFICES ASSUME NEW i \in 0..(n - 1) PROVE m[i] = r.chain[i + 1].level
    OBVIOUS
  <2>1. i \in 0..(2 * M) /\ i # n /\ i # M + n /\ i < n /\ ~(i \in (M + 0)..((M + n) - 1))
    BY <1>1, <1>2
  <2> QED
    BY <1>3, <2>1
<1>5. \A i \in 0..(n - 1) : n < M \/ i > 0 => m[M + i] = iv(i + 1)
  <2> SUFFICES ASSUME NEW i \in 0..(n - 1), n < M \/ i > 0 PROVE m[M + i] = iv(i + 1)
    OBVIOUS
  <2>1. /\ M + i \in 0..(2 * M) /\ M + i # n /\ M + i # M + n /\ ~(M + i < n)
        /\ M + i \in (M + 0)..((M + n) - 1) /\ ((M + i) - (M + 0)) + 1 = i + 1
    BY <1>1, <1>2, SMTT(60)
  <2> QED
    BY <1>3, <2>1
<1>6. n < M => m[n] = Absent /\ m[M + n] = 0
  <2> SUFFICES ASSUME n < M PROVE m[n] = Absent /\ m[M + n] = 0
    OBVIOUS
  <2>1. n \in 0..(2 * M)
    BY <1>1, <1>2
  <2>2. n # M + n /\ ~(n \in (M + 0)..((M + n) - 1)) /\ ~(n < n)
    BY <1>1, <1>2
  <2>3. M + n \in 0..(2 * M) /\ M + n # n
    BY <1>1, <1>2
  <2>4. ~(M + n < n) /\ ~(M + n \in (M + 0)..((M + n) - 1))
    BY <1>1, <1>2
  <2> QED
    BY <1>3, <2>1, <2>2, <2>3, <2>4
<1> QED
  BY <1>1, <1>2, <1>4, <1>5, <1>6 DEF m, iv, M, LevelAt, IntervalAt

\* The samples of lb_sd_stats.
LEMMA SdSamples ==
  ASSUME NEW r \in Readings, NEW lb \in Cpus
  PROVE  LET n == IF Len(r.chain) < MAX_SD_LEVELS THEN Len(r.chain) ELSE MAX_SD_LEVELS
             m == gen_sched_domain_stats(r.chain, r.busy)
         IN  trace_lb_sd_stats(lb, m)
               = {<<Interval(lb, r.chain[i + 1].level), m[IntervalAt(i)]>> : i \in 0..(n - 1)}
<1> DEFINE n == IF Len(r.chain) < MAX_SD_LEVELS THEN Len(r.chain) ELSE MAX_SD_LEVELS
           m == gen_sched_domain_stats(r.chain, r.busy)
           Ends(i) == m[LevelAt(i)] = Absent /\ m[IntervalAt(i)] = 0
           up == {j \in 0..(MAX_SD_LEVELS - 1) : \A k \in 0..j : ~Ends(k)}
<1>1. /\ n \in 0..MAX_SD_LEVELS
      /\ \A i \in 0..(n - 1) : m[LevelAt(i)] = r.chain[i + 1].level
      /\ n < MAX_SD_LEVELS => m[LevelAt(n)] = Absent /\ m[IntervalAt(n)] = 0
  BY SdWords
<1>2. r.chain \in Seq([level : Nat, interval : Nat]) /\ MAX_SD_LEVELS \in Nat
  BY LbAssumption
<1>3. n <= Len(r.chain) /\ Len(r.chain) \in Nat
  BY <1>2
<1>4. trace_lb_sd_stats(lb, m) = {<<Interval(lb, m[LevelAt(i)]), m[IntervalAt(i)]>> : i \in up}
  BY DEF trace_lb_sd_stats
<1> HIDE DEF n, m
<1>5. \A i \in 0..(n - 1) : ~Ends(i)
  <2> SUFFICES ASSUME NEW i \in 0..(n - 1) PROVE m[LevelAt(i)] # Absent
    OBVIOUS
  <2>1. i + 1 \in 1..Len(r.chain)
    BY <1>1, <1>2, <1>3
  <2>2. r.chain[i + 1] \in [level : Nat, interval : Nat]
    BY <1>2, <2>1, ElementOfSeq
  <2> QED
    BY <1>1, <2>2 DEF Absent
<1>6. up = 0..(n - 1)
  <2>1. \A j \in 0..(n - 1) : j \in 0..(MAX_SD_LEVELS - 1) /\ \A k \in 0..j : k \in 0..(n - 1)
    BY <1>1, <1>2
  <2>2. \A j \in 0..(MAX_SD_LEVELS - 1) : j \in 0..(n - 1) \/ (n < MAX_SD_LEVELS /\ n \in 0..j)
    BY <1>1, <1>2
  <2>3. n < MAX_SD_LEVELS => Ends(n)
    BY <1>1
  <2> HIDE DEF Ends
  <2> QED
    BY <1>5, <2>1, <2>2, <2>3
<1> HIDE DEF up
<1>7. \A i \in 0..(n - 1) : m[LevelAt(i)] = r.chain[i + 1].level
  BY <1>1
<1>8. trace_lb_sd_stats(lb, m)
        = {<<Interval(lb, r.chain[i + 1].level), m[IntervalAt(i)]>> : i \in 0..(n - 1)}
  BY <1>4, <1>6, <1>7
<1> QED
  BY <1>8 DEF n, m

\* An exit record says nothing.
LEMMA ExitSilent ==
  ASSUME NEW e \in Records, ~e.entry, NEW x
  PROVE  ~Touches(e, x)
<1>1. e.overloaded = Absent /\ e.overutilized = Absent /\ e.misfit = Absent
  BY RecordFields
<1> QED
  BY <1>1 DEF Touches, CounterSamples, If

\* An entry record speaks of the counters it has a reading of, and says of
\* each what was read, the overwritten interval excepted.
LEMMA EntryTells ==
  ASSUME NEW h \in Records, h.entry, NEW r \in Readings
  PROVE  LET e == EntryRecord(h, r)
             truth == Truth(h.phase, h.lb_cpu, r)
         IN  /\ \A s \in CounterSamples(e) : \E t \in truth : t[1] = s[1]
             /\ \A t \in truth : \E s \in CounterSamples(e) : t[1] = s[1]
             /\ \A s \in CounterSamples(e), t \in truth : s[1] = t[1] => t[2] = None \/ s[2] = t[2]
<1> DEFINE f == h.phase
           lb == h.lb_cpu
           e == EntryRecord(h, r)
           truth == Truth(f, lb, r)
           n == IF Len(r.chain) < MAX_SD_LEVELS THEN Len(r.chain) ELSE MAX_SD_LEVELS
           m == gen_sched_domain_stats(r.chain, r.busy)
           iv(i) == r.chain[i].interval * (IF r.busy THEN BUSY_FACTOR ELSE 1)
           flat == {<<RdTrack("overloaded"), r.over>>, <<RdTrack("overutilized"), r.util>>,
                    <<Misfit(lb), r.misfit>>}
           sd == {<<Interval(lb, r.chain[i + 1].level), m[IntervalAt(i)]>> : i \in 0..(n - 1)}
           tsd == {<<Interval(lb, r.chain[i].level),
                     IF Len(r.chain) >= MAX_SD_LEVELS /\ i = 1 THEN None ELSE iv(i)>> :
                     i \in {j \in DOMAIN r.chain : j <= MAX_SD_LEVELS}}
<1> SUFFICES /\ \A s \in CounterSamples(e) : \E t \in truth : t[1] = s[1]
             /\ \A t \in truth : \E s \in CounterSamples(e) : t[1] = s[1]
             /\ \A s \in CounterSamples(e), t \in truth : s[1] = t[1] => t[2] = None \/ s[2] = t[2]
  OBVIOUS
<1>0. /\ e.phase = f /\ e.entry /\ e.lb_cpu = lb /\ lb \in Cpus /\ f \in PhaseSet
      /\ e.overloaded = IF f # "run_rebalance_domains" THEN r.over ELSE Absent
      /\ e.overutilized = IF f # "run_rebalance_domains" THEN r.util ELSE Absent
      /\ e.misfit = IF f # "run_rebalance_domains" THEN r.misfit ELSE Absent
      /\ f = "rebalance_domains" => e.sd = m
  <2>1. h \in Fields /\ lb \in Cpus /\ f \in PhaseSet
    BY RecordFields
  <2> HIDE DEF m
  <2> QED
    BY <2>1 DEF EntryRecord, Fields, m
<1> HIDE DEF f, lb, e
<1>1. r.over \in Nat /\ r.util \in Nat /\ r.misfit \in Nat
  BY LbAssumption
<1>2. CASE f = "run_rebalance_domains"
  <2>1. CounterSamples(e) = {} /\ truth = {}
    BY <1>0, <1>2 DEF CounterSamples, Truth, If
  <2> QED
    BY <2>1
<1>3. CASE f # "run_rebalance_domains" /\ f # "rebalance_domains"
  <2>1. CounterSamples(e) = flat /\ truth = flat
    BY <1>0, <1>1, <1>3 DEF CounterSamples, Truth, If, Absent
  <2>2. \A s, t \in flat : s[1] = t[1] => s = t
    BY DEF RdTrack, Misfit
  <2> HIDE DEF flat
  <2> QED
    BY <2>1, <2>2
<1>4. CASE f = "rebalance_domains"
  <2>1. truth = flat \cup tsd
    BY <1>4 DEF Truth
  <2>2. CounterSamples(e) = trace_lb_sd_stats(lb, m) \cup flat
    BY <1>0, <1>1, <1>4 DEF CounterSamples, If, Absent
  <2>3. CounterSamples(e) = sd \cup flat
    BY <1>0, <2>2, SdSamples
  <2>4. \A s, t \in flat : s[1] = t[1] => s = t
    BY DEF RdTrack, Misfit
  <2>5. \A s \in flat : \A t \in sd \cup tsd : s[1] # t[1]
    BY DEF RdTrack, Misfit, Interval
  <2>6. r.chain \in Seq([level : Nat, interval : Nat]) /\ MAX_SD_LEVELS \in Nat /\ MAX_SD_LEVELS >= 1
    BY LbAssumption
  <2>7. n \in Nat /\ n <= Len(r.chain) /\ Len(r.chain) \in Nat /\ n <= MAX_SD_LEVELS
        /\ DOMAIN r.chain = 1..Len(r.chain)
        /\ (n < MAX_SD_LEVELS \/ Len(r.chain) >= MAX_SD_LEVELS)
        /\ \A j \in 1..Len(r.chain) : j <= MAX_SD_LEVELS => j <= n
    BY <2>6
  <2>8. \A i \in 0..(n - 1) : n < MAX_SD_LEVELS \/ i > 0 => m[IntervalAt(i)] = iv(i + 1)
    BY SdWords
  <2>9. \A i, j \in 1..Len(r.chain) : i < j => r.chain[i].level < r.chain[j].level
    BY <2>7, LbAssumption
  <2>10. \A i \in 1..Len(r.chain) : r.chain[i].level \in Nat
    <3>1. \A i \in 1..Len(r.chain) : r.chain[i] \in [level : Nat, interval : Nat]
      BY <2>6, ElementOfSeq
    <3> QED
      BY <3>1
  <2> HIDE DEF n, m, iv, flat
  <2>11. \A s \in sd : \E t \in tsd : t[1] = s[1]
    <3> SUFFICES ASSUME NEW i \in 0..(n - 1)
                 PROVE  \E t \in tsd : t[1] = Interval(lb, r.chain[i + 1].level)
      OBVIOUS
    <3>1. i + 1 \in {j \in DOMAIN r.chain : j <= MAX_SD_LEVELS}
      BY <2>6, <2>7
    <3> DEFINE v == IF Len(r.chain) >= MAX_SD_LEVELS /\ i + 1 = 1 THEN None ELSE iv(i + 1)
    <3>2. <<Interval(lb, r.chain[i + 1].level), v>> \in tsd
      BY <3>1
    <3> HIDE DEF tsd, v
    <3> QED
      BY <3>2
  <2>12. \A t \in tsd : \E s \in sd : t[1] = s[1]
    <3> SUFFICES ASSUME NEW i \in {j \in DOMAIN r.chain : j <= MAX_SD_LEVELS}
                 PROVE  \E s \in sd : s[1] = Interval(lb, r.chain[i].level)
      OBVIOUS
    <3>1. i - 1 \in 0..(n - 1) /\ (i - 1) + 1 = i
      BY <2>6, <2>7
    <3>2. <<Interval(lb, r.chain[(i - 1) + 1].level), m[IntervalAt(i - 1)]>> \in sd
      BY <3>1
    <3> HIDE DEF sd
    <3> QED
      BY <3>1, <3>2
  <2>13. \A s \in sd, t \in tsd : s[1] = t[1] => t[2] = None \/ s[2] = t[2]
    <3> SUFFICES ASSUME NEW i \in 0..(n - 1), NEW j \in DOMAIN r.chain, j <= MAX_SD_LEVELS,
                        Interval(lb, r.chain[i + 1].level) = Interval(lb, r.chain[j].level),
                        ~(Len(r.chain) >= MAX_SD_LEVELS /\ j = 1)
                 PROVE  m[IntervalAt(i)] = iv(j)
      OBVIOUS
    <3>1. r.chain[i + 1].level = r.chain[j].level
      BY DEF Interval
    <3>2. i + 1 \in 1..Len(r.chain) /\ j \in 1..Len(r.chain)
      <4>1. n \in Nat /\ n <= Len(r.chain) /\ Len(r.chain) \in Nat
        BY <2>7
      <4>2. i + 1 \in 1..Len(r.chain)
        BY <4>1
      <4> QED
        BY <2>7, <4>2
    <3>3. i + 1 = j
      BY <2>7, <2>9, <2>10, <3>1, <3>2
    <3>4. n < MAX_SD_LEVELS \/ i > 0
      BY <2>6, <2>7, <3>3
    <3> QED
      BY <2>8, <3>3, <3>4
  <2> HIDE DEF sd, tsd, truth
  <2>14. \A s \in CounterSamples(e) : \E t \in truth : t[1] = s[1]
    BY <2>1, <2>3, <2>11
  <2>15. \A t \in truth : \E s \in CounterSamples(e) : t[1] = s[1]
    BY <2>1, <2>3, <2>12
  <2>16. \A s \in CounterSamples(e), t \in truth : s[1] = t[1] => t[2] = None \/ s[2] = t[2]
    BY <2>1, <2>3, <2>4, <2>5, <2>13
  <2> QED
    BY <2>14, <2>15, <2>16
<1> QED
  BY <1>0, <1>2, <1>3, <1>4

\* Programs that run at once know of each other: the later one, by the clock,
\* knows that the other ran when it started.
OrderOK ==
  /\ \A c \in Running : prog[c].e.id <= ncalls
  /\ \A c, d \in Running : c # d =>
       prog[d].e.id > prog[c].e.id \/ prog[d].e.id \in prog[c].with
  /\ \A k \in 1..Len(ring) : ~ring[k].done /\ ring[k].entry =>
       \A n \in (k + 1)..Len(ring) : ring[n].entry =>
         ring[n].id > ring[k].id \/ ring[n].id \in prog[ring[k].this_cpu].with

\* A program starts.
LEMMA BeginOrder ==
  ASSUME MapInv, OrderOK, NEW c \in Cpus, prog[c] = Idle, NEW h \in Records,
         h.this_cpu = c, h.done = FALSE, Begin(c, h), ring' = ring,
         ncalls' \in Nat, ncalls <= ncalls', h.entry => h.id = ncalls' /\ ncalls < ncalls'
  PROVE  OrderOK'
<1>1. /\ prog'[c] # Idle /\ prog'[c].e = h /\ prog'[c].with = {prog[d].e.id : d \in Running}
      /\ \A d \in Cpus : d # c => prog'[d] = prog[d]
  BY BeginTypes DEF MapInv
<1>2. /\ Running \subseteq Cpus /\ c \notin Running /\ (c \in Running' => h.entry)
      /\ \A d \in Cpus : d # c => (d \in Running' <=> d \in Running)
      /\ Running' \subseteq Cpus
  BY <1>1 DEF Running
<1>3. \A d \in Running : prog[d].e.id \in Nat /\ prog[d].e.id <= ncalls
  <2> SUFFICES ASSUME NEW d \in Running PROVE prog[d].e.id \in Nat /\ prog[d].e.id <= ncalls
    OBVIOUS
  <2>1. d \in Cpus /\ prog[d] # Idle
    BY DEF Running
  <2>2. prog[d].e.id \in Nat
    BY <2>1, ProgFields, RecordFields DEF MapInv
  <2> QED
    BY <2>2 DEF OrderOK
<1>4. ncalls \in Nat
  BY DEF MapInv, LbTypeOK
<1>5. ASSUME NEW d \in Running' PROVE prog'[d].e.id <= ncalls'
  <2>1. CASE d = c
    BY <1>1, <1>2, <1>5, <2>1
  <2>2. CASE d # c
    <3>1. prog'[d] = prog[d] /\ d \in Running
      BY <1>1, <1>2, <1>5, <2>2
    <3> QED
      BY <1>3, <1>4, <3>1
  <2> QED
    BY <2>1, <2>2
<1>6. ASSUME NEW a \in Running', NEW d \in Running', a # d
      PROVE  prog'[d].e.id > prog'[a].e.id \/ prog'[d].e.id \in prog'[a].with
  <2>1. CASE a = c
    <3>1. d \in Running /\ prog'[d] = prog[d]
      BY <1>1, <1>2, <1>6, <2>1
    <3>2. prog[d].e.id \in {prog[b].e.id : b \in Running}
      BY <3>1
    <3> QED
      BY <1>1, <2>1, <3>1, <3>2
  <2>2. CASE d = c
    <3>1. a \in Running /\ prog'[a] = prog[a] /\ prog'[d].e.id = ncalls' /\ ncalls < ncalls'
      BY <1>1, <1>2, <1>6, <2>2
    <3>2. prog[a].e.id \in Nat /\ prog[a].e.id <= ncalls
      BY <1>3, <3>1
    <3> QED
      BY <1>4, <3>1, <3>2
  <2>3. CASE a # c /\ d # c
    <3>1. a \in Running /\ prog'[a] = prog[a] /\ d \in Running /\ prog'[d] = prog[d]
      BY <1>1, <1>2, <1>6, <2>3
    <3> QED
      BY <1>6, <3>1 DEF OrderOK
  <2> QED
    BY <2>1, <2>2, <2>3
<1>7. ASSUME NEW k \in 1..Len(ring), ~ring[k].done, ring[k].entry, NEW n \in (k + 1)..Len(ring), ring[n].entry
      PROVE  ring[n].id > ring[k].id \/ ring[n].id \in prog'[ring[k].this_cpu].with
  <2>1. Reserved(prog[ring[k].this_cpu])
    BY <1>7 DEF MapInv, ProgOK
  <2>2. ring[k].this_cpu \in Cpus
    BY RecordFields DEF MapInv, LbTypeOK
  <2>3. prog'[ring[k].this_cpu] = prog[ring[k].this_cpu]
    BY <1>1, <2>1, <2>2 DEF Reserved
  <2> QED
    BY <1>7, <2>3 DEF OrderOK
<1> QED
  BY <1>5, <1>6, <1>7 DEF OrderOK

\* A program goes on or ends; the ring may get its record.
LEMMA ReserveOrder ==
  ASSUME MapInv, OrderOK, NEW c \in Cpus, Reserve(c)
  PROVE  OrderOK'
<1> DEFINE L == Len(ring)
<1>1. /\ prog[c] # Idle /\ prog[c].stage = "begun" /\ prog[c].e \in Records
      /\ \A d \in Cpus : d # c => prog'[d] = prog[d]
      /\ \/ /\ ring' = Append(ring, prog[c].e)
            /\ Reserved(prog'[c]) /\ prog'[c].e = prog[c].e /\ prog'[c].with = prog[c].with
         \/ ring' = ring /\ prog'[c] = Idle
  BY ReserveTypes DEF MapInv
<1>2. ncalls' = ncalls /\ ring \in Seq(Records) /\ L \in Nat
  BY DEF Reserve, MapInv, LbTypeOK
<1>3. \A d \in Running' : d \in Running /\ prog'[d].e = prog[d].e /\ prog'[d].with = prog[d].with
  BY <1>1 DEF Running, Reserved
<1>4. \A k \in 1..L : ~ring[k].done =>
        /\ ring[k].this_cpu \in Cpus /\ ring[k].this_cpu # c /\ prog'[ring[k].this_cpu] = prog[ring[k].this_cpu]
        /\ prog[ring[k].this_cpu] # Idle /\ ring[k] = prog[ring[k].this_cpu].e
  <2> SUFFICES ASSUME NEW k \in 1..L, ~ring[k].done
               PROVE  /\ ring[k].this_cpu \in Cpus /\ ring[k].this_cpu # c /\ prog'[ring[k].this_cpu] = prog[ring[k].this_cpu]
                      /\ prog[ring[k].this_cpu] # Idle /\ ring[k] = prog[ring[k].this_cpu].e
    OBVIOUS
  <2>1. Reserved(prog[ring[k].this_cpu]) /\ ring[k] = prog[ring[k].this_cpu].e
    BY DEF MapInv, ProgOK
  <2>2. ring[k].this_cpu \in Cpus
    BY <1>2, RecordFields
  <2>3. ring[k].this_cpu # c
    BY <1>1, <2>1 DEF Reserved
  <2> QED
    BY <1>1, <2>1, <2>2, <2>3 DEF Reserved
<1>5. ASSUME NEW a \in Running', NEW d \in Running', a # d
      PROVE  prog'[d].e.id > prog'[a].e.id \/ prog'[d].e.id \in prog'[a].with
  BY <1>3, <1>5 DEF OrderOK
<1>6. \A d \in Running' : prog'[d].e.id <= ncalls'
  BY <1>2, <1>3 DEF OrderOK
<1>7. ASSUME NEW k \in 1..Len(ring'), ~ring'[k].done, ring'[k].entry,
             NEW n \in (k + 1)..Len(ring'), ring'[n].entry
      PROVE  ring'[n].id > ring'[k].id \/ ring'[n].id \in prog'[ring'[k].this_cpu].with
  <2>1. CASE ring' = ring
    BY <1>4, <1>7, <2>1 DEF OrderOK
  <2>2. CASE ring' = Append(ring, prog[c].e)
    <3>1. /\ Len(ring') = L + 1 /\ ring'[L + 1] = prog[c].e
          /\ \A i \in 1..L : ring'[i] = ring[i]
      BY <1>1, <1>2, <2>2, AppendProperties
    <3> HIDE DEF L
    <3>2. k \in 1..L /\ ring'[k] = ring[k]
      BY <1>2, <1>7, <3>1
    <3>3. CASE n = L + 1
      <4>1. /\ ring[k].this_cpu \in Running /\ c \in Running /\ ring[k].this_cpu # c
            /\ ring[k] = prog[ring[k].this_cpu].e
            /\ prog'[ring[k].this_cpu] = prog[ring[k].this_cpu]
        BY <1>1, <1>4, <1>7, <3>1, <3>2, <3>3 DEF Running
      <4>2. prog[c].e.id > prog[ring[k].this_cpu].e.id \/ prog[c].e.id \in prog[ring[k].this_cpu].with
        BY <4>1 DEF OrderOK
      <4> QED
        BY <3>1, <3>2, <3>3, <4>1, <4>2
    <3>4. CASE n # L + 1
      <4>1. n \in (k + 1)..L /\ n \in 1..L /\ ring'[n] = ring[n]
        BY <1>2, <1>7, <3>1, <3>2, <3>4
      <4> QED
        BY <1>4, <1>7, <3>2, <4>1 DEF OrderOK, L
    <3> QED
      BY <3>3, <3>4
  <2> QED
    BY <1>1, <2>1, <2>2
<1> QED
  BY <1>5, <1>6, <1>7 DEF OrderOK


\* What a submission leaves of each record of the ring.
LEMMA SubmitKnown ==
  ASSUME LbTypeOK, ProgOK, NEW c \in Cpus, NEW r \in Readings, NEW stale \in Cpus, Submit(c, r, stale)
  PROVE  /\ Len(ring') = Len(ring)
         /\ \A k \in 1..Len(ring) :
              /\ ring[k] \in Records /\ ring'[k] \in Records
              /\ ring'[k].this_cpu = ring[k].this_cpu /\ (ring'[k].entry <=> ring[k].entry)
              /\ ring'[k].phase = ring[k].phase /\ ring'[k].id = ring[k].id
              /\ ring[k].entry => ring'[k].lb_cpu = ring[k].lb_cpu
              /\ ring[k].done => ring'[k] = ring[k]
              /\ ~ring'[k].done => ring'[k] = ring[k] /\ ring[k].this_cpu # c
<1> DEFINE h == prog[c].e
           e == IF h.entry THEN EntryRecord(h, r) ELSE ExitRecord(h, stale)
<1>1. /\ LbTypeOK' /\ h \in Records /\ Len(ring') = Len(ring)
      /\ \A k \in 1..Len(ring) :
           \/ ~ring[k].done /\ ring[k].this_cpu = c /\ ring[k] = h /\ ring'[k] = e
           \/ (ring[k].done \/ ring[k].this_cpu # c) /\ ring'[k] = ring[k]
  BY SubmitTypes
<1>2. (h.entry => e = EntryRecord(h, r)) /\ (~h.entry => e = ExitRecord(h, stale))
  OBVIOUS
<1> HIDE DEF e, h
<1>3. /\ e \in Records /\ e.done /\ e.this_cpu = h.this_cpu /\ (e.entry <=> h.entry)
      /\ e.phase = h.phase /\ e.id = h.id /\ (h.entry => e.lb_cpu = h.lb_cpu)
  BY <1>1, <1>2, FilledKnown
<1> SUFFICES ASSUME NEW k \in 1..Len(ring)
             PROVE  /\ ring[k] \in Records /\ ring'[k] \in Records
                    /\ ring'[k].this_cpu = ring[k].this_cpu /\ (ring'[k].entry <=> ring[k].entry)
                    /\ ring'[k].phase = ring[k].phase /\ ring'[k].id = ring[k].id
                    /\ ring[k].entry => ring'[k].lb_cpu = ring[k].lb_cpu
                    /\ ring[k].done => ring'[k] = ring[k]
                    /\ ~ring'[k].done => ring'[k] = ring[k] /\ ring[k].this_cpu # c
  BY <1>1
<1>4. ring[k] \in Records
  BY DEF LbTypeOK
<1>5. CASE ~ring[k].done /\ ring[k].this_cpu = c /\ ring[k] = h /\ ring'[k] = e
  BY <1>3, <1>4, <1>5
<1>6. CASE (ring[k].done \/ ring[k].this_cpu # c) /\ ring'[k] = ring[k]
  BY <1>4, <1>6
<1> QED
  BY <1>1, <1>5, <1>6

\* A program ends.
LEMMA SubmitOrder ==
  ASSUME MapInv, OrderOK, NEW c \in Cpus, NEW r \in Readings, NEW stale \in Cpus, Submit(c, r, stale)
  PROVE  OrderOK'
<1>1. LbTypeOK /\ ProgOK
  BY DEF MapInv
<1>2. prog'[c] = Idle /\ (\A d \in Cpus : d # c => prog'[d] = prog[d]) /\ ncalls' = ncalls
  <2>1. prog' = [prog EXCEPT ![c] = Idle] /\ ncalls' = ncalls
    BY DEF Submit
  <2> QED
    BY <1>1, <2>1 DEF LbTypeOK
<1>3. /\ Len(ring') = Len(ring)
      /\ \A k \in 1..Len(ring) :
           /\ ring[k] \in Records /\ (ring'[k].entry <=> ring[k].entry) /\ ring'[k].id = ring[k].id
           /\ ~ring'[k].done => ring'[k] = ring[k] /\ ring[k].this_cpu # c
  BY <1>1, SubmitKnown
<1>4. \A d \in Running' : d \in Running /\ prog'[d] = prog[d]
  BY <1>2 DEF Running
<1>5. ASSUME NEW k \in 1..Len(ring'), ~ring'[k].done, ring'[k].entry,
             NEW n \in (k + 1)..Len(ring'), ring'[n].entry
      PROVE  ring'[n].id > ring'[k].id \/ ring'[n].id \in prog'[ring'[k].this_cpu].with
  <2>1. k \in 1..Len(ring) /\ ring'[k] = ring[k] /\ ring[k].this_cpu # c /\ ring[k].this_cpu \in Cpus
    BY <1>3, <1>5, RecordFields
  <2>2. n \in (k + 1)..Len(ring) /\ n \in 1..Len(ring)
    BY <1>3, <1>5
  <2>3. ring[n].entry /\ ring'[n].id = ring[n].id
    BY <1>3, <1>5, <2>2
  <2> QED
    BY <1>2, <1>5, <2>1, <2>2, <2>3 DEF OrderOK
<1> QED
  BY <1>2, <1>4, <1>5 DEF OrderOK

\* The ring moves on.
LEMMA HandleOrder ==
  ASSUME MapInv, OrderOK, Handle
  PROVE  OrderOK'
<1>1. /\ UNCHANGED <<prog, ncalls>>
      /\ Len(ring) \in Nat /\ Len(ring) # 0 /\ Len(ring') = Len(ring) - 1
      /\ \A k \in 1..(Len(ring) - 1) : ring'[k] = ring[k + 1]
  BY HandleTypes DEF MapInv, Handle
<1>2. ASSUME NEW k \in 1..Len(ring'), ~ring'[k].done, ring'[k].entry,
             NEW n \in (k + 1)..Len(ring'), ring'[n].entry
      PROVE  ring'[n].id > ring'[k].id \/ ring'[n].id \in prog[ring'[k].this_cpu].with
  <2>1. k + 1 \in 1..Len(ring) /\ n + 1 \in ((k + 1) + 1)..Len(ring) /\ n \in 1..(Len(ring) - 1)
    BY <1>1
  <2>2. ring'[k] = ring[k + 1] /\ ring'[n] = ring[n + 1]
    BY <1>1, <2>1
  <2> QED
    BY <1>2, <2>1, <2>2 DEF OrderOK
<1> QED
  BY <1>1, <1>2 DEF OrderOK, Running

\* No step breaks the order.
LEMMA OrderInductive ==
  ASSUME MapInv, OrderOK, [Next]_vars
  PROVE  OrderOK'
<1>0. ASSUME UNCHANGED <<prog, ring>>, ncalls' \in Nat, ncalls <= ncalls' PROVE OrderOK'
  <2>1. Running' = Running
    BY <1>0 DEF Running
  <2>2. ASSUME NEW d \in Running PROVE prog[d].e.id <= ncalls'
    <3>1. d \in Cpus /\ prog[d] # Idle
      BY DEF Running
    <3>2. prog[d].e.id \in Nat /\ ncalls \in Nat
      BY <3>1, ProgFields, RecordFields DEF MapInv, LbTypeOK
    <3> QED
      BY <1>0, <3>2 DEF OrderOK
  <2> QED
    BY <1>0, <2>1, <2>2 DEF OrderOK
<1>1. ASSUME NEW c \in Cpus, NEW lb \in Cpus, NEW f \in PhaseSet, Enter(c, f, lb) PROVE OrderOK'
  <2>1. ncalls \in Nat /\ ncalls' = ncalls + 1 /\ ring' = ring /\ prog[c] = Idle
    BY <1>1 DEF Enter, MapInv, LbTypeOK
  <2>2. PICK h : h = Header(c, f, lb, TRUE, ncalls')
    OBVIOUS
  <2>3. h \in Records /\ h.this_cpu = c /\ h.done = FALSE /\ h.id = ncalls'
    <3>1. ncalls' \in Nat \ {0}
      BY <2>1
    <3> QED
      BY <2>2, <3>1, EntryHeader DEF Header
  <2>4. CASE Begin(c, h)
    <3>1. ncalls' \in Nat /\ ncalls <= ncalls' /\ ncalls < ncalls'
      BY <2>1
    <3> QED
      BY <2>1, <2>3, <2>4, <3>1, BeginOrder
  <2>5. CASE prog' = prog
    BY <1>0, <2>1, <2>5
  <2> QED
    BY <1>1, <2>2, <2>4, <2>5 DEF Enter
<1>2. ASSUME NEW c \in Cpus, Return(c) PROVE OrderOK'
  <2>1. ncalls \in Nat /\ ncalls' = ncalls /\ ring' = ring /\ prog[c] = Idle /\ calls[c] # <<>>
        /\ calls[c] \in Seq(Frame)
    BY <1>2 DEF Return, MapInv, LbTypeOK
  <2>2. PICK fr : fr = calls[c][Len(calls[c])]
    OBVIOUS
  <2>3. fr \in Frame
    BY <2>1, <2>2
  <2>4. PICK h : h = Header(c, fr.f, c, FALSE, fr.id)
    OBVIOUS
  <2>5. h \in Records /\ h.this_cpu = c /\ h.done = FALSE /\ ~h.entry
    <3>1. fr.f \in PhaseSet /\ fr.id \in Nat \ {0}
      BY <2>3 DEF Frame
    <3> QED
      BY <2>4, <3>1, ExitHeader DEF Header
  <2>6. CASE Begin(c, h)
    <3>1. ncalls' \in Nat /\ ncalls <= ncalls'
      BY <2>1
    <3> QED
      BY <2>1, <2>5, <2>6, <3>1, BeginOrder
  <2>7. CASE prog' = prog
    BY <1>0, <2>1, <2>7
  <2> QED
    BY <1>2, <2>2, <2>4, <2>6, <2>7 DEF Return
<1>3. ASSUME NEW c \in Cpus, Reserve(c) PROVE OrderOK'
  BY <1>3, ReserveOrder
<1>4. ASSUME NEW c \in Cpus, NEW r \in Readings, NEW stale \in Cpus, Submit(c, r, stale) PROVE OrderOK'
  BY <1>4, SubmitOrder
<1>5. CASE Handle
  BY <1>5, HandleOrder
<1>6. CASE Attach \/ StartTrace \/ UNCHANGED vars
  <2>1. UNCHANGED <<prog, ring, ncalls>> /\ ncalls \in Nat
    BY <1>6 DEF Attach, StartTrace, vars, MapInv, LbTypeOK
  <2> QED
    BY <1>0, <2>1
<1> QED
  BY <1>1, <1>2, <1>3, <1>4, <1>5, <1>6 DEF Next

\* Record e was submitted and has a sample of counter x.
Told(e, x) == e.done /\ Touches(e, x)

\* K, readings of a counter, has the one of time ts; v is what was recorded.
InKernel(K, ts, v) == \E q \in K : q.ts = ts /\ q.val \in {None, v}

\* From place k on ring r has a sample of x that replaces one of time ts.
Replaced(r, x, ts, k) == \E j \in k..Len(r) : Told(r[j], x) /\ r[j].id >= ts

\* sh, the sample of x shown, and each one in ring r is a reading that none
\* superseded, or is replaced later; each such reading was handled or is there.
ReadAt(x, sh, K, u, r) ==
  /\ sh.ts \in Nat
  /\ \A q \in K : q.ts \in u \/ sh.ts > 0 \/ \E k \in 1..Len(r) : Told(r[k], x) /\ r[k].id = q.ts
  /\ sh.ts # 0 => InKernel(K, sh.ts, sh.val) \/ Replaced(r, x, sh.ts, 1)
  /\ \A k \in 1..Len(r) : Told(r[k], x) =>
       InKernel(K, r[k].id, Value(r[k], x)) \/ Replaced(r, x, r[k].id, k + 1)

ReadOK ==
  \A x \in Counters :
    /\ ReadAt(x, shown[x], kernel[x], unseen, ring)
    /\ ~tracing => shown[x].ts = 0

CountersInv == MapInv /\ OrderOK /\ ReadOK

\* A busy record says nothing yet.
LEMMA ReadReserve ==
  ASSUME NEW rg \in Seq(Records), NEW e \in Records, ~e.done, NEW x, NEW sh, NEW K, NEW u,
         ReadAt(x, sh, K, u, rg)
  PROVE  ReadAt(x, sh, K, u, Append(rg, e))
<1> DEFINE r2 == Append(rg, e)
           L == Len(rg)
<1>1. /\ L \in Nat /\ Len(r2) = L + 1 /\ r2[L + 1] = e
      /\ \A k \in 1..L : r2[k] = rg[k]
  BY AppendProperties
<1> HIDE DEF r2, L
<1>2. ~Told(r2[L + 1], x)
  BY <1>1 DEF Told
<1>3. \A k \in 1..Len(r2) : k = L + 1 \/ (k \in 1..L /\ r2[k] = rg[k])
  BY <1>1
<1>4. \A k \in 1..L : k \in 1..Len(r2)
  BY <1>1
<1>5. ASSUME NEW ts, NEW k \in Nat, k > 0, Replaced(rg, x, ts, k) PROVE Replaced(r2, x, ts, k)
  <2>1. PICK j \in k..L : Told(rg[j], x) /\ rg[j].id >= ts
    BY <1>5 DEF Replaced, L
  <2>2. j \in 1..L /\ j \in k..Len(r2)
    BY <1>1, <1>5
  <2> QED
    BY <1>1, <2>1, <2>2 DEF Replaced
<1>6. ASSUME NEW k \in 1..Len(r2), Told(r2[k], x)
      PROVE  InKernel(K, r2[k].id, Value(r2[k], x)) \/ Replaced(r2, x, r2[k].id, k + 1)
  <2>1. k \in 1..L /\ r2[k] = rg[k]
    BY <1>2, <1>3, <1>6
  <2>2. InKernel(K, rg[k].id, Value(rg[k], x)) \/ Replaced(rg, x, rg[k].id, k + 1)
    BY <1>6, <2>1 DEF ReadAt, L
  <2>3. k + 1 \in Nat /\ k + 1 > 0
    BY <2>1
  <2> QED
    BY <1>5, <2>1, <2>2, <2>3
<1>7. sh.ts # 0 => InKernel(K, sh.ts, sh.val) \/ Replaced(r2, x, sh.ts, 1)
  BY <1>5 DEF ReadAt
<1>8. ASSUME NEW q \in K
      PROVE  q.ts \in u \/ sh.ts > 0 \/ \E k \in 1..Len(r2) : Told(r2[k], x) /\ r2[k].id = q.ts
  <2>1. q.ts \in u \/ sh.ts > 0 \/ \E k \in 1..L : Told(rg[k], x) /\ rg[k].id = q.ts
    BY DEF ReadAt, L
  <2> QED
    BY <1>1, <1>4, <2>1
<1> QED
  BY <1>6, <1>7, <1>8 DEF ReadAt, r2

\* What submitting does to the readings of a counter the record speaks of and
\* to those of one it says nothing about.
LEMMA SubmitReadings ==
  ASSUME MapInv, NEW c \in Cpus, NEW r \in Readings, NEW stale \in Cpus, Submit(c, r, stale),
         NEW x \in Counters, NEW h, h = prog[c].e,
         NEW e, e = IF h.entry THEN EntryRecord(h, r) ELSE ExitRecord(h, stale)
  PROVE  \/ ~Touches(e, x) /\ kernel'[x] = kernel[x]
         \/ /\ Touches(e, x) /\ h.entry
            /\ InKernel(kernel'[x], h.id, Value(e, x))
            /\ \A q \in kernel'[x] : q.ts = h.id \/ q \in kernel[x]
            /\ \A q \in kernel[x] : q.ts > h.id \/ q.ts \in prog[c].with => q \in kernel'[x]
<1> DEFINE truth == IF h.entry THEN Truth(h.phase, h.lb_cpu, r) ELSE {}
           new == {t \in truth : t[1] = x}
           kept == {q \in kernel[x] : q.ts > h.id \/ q.ts \in prog[c].with}
           made == {[ts |-> h.id, val |-> t[2]] : t \in new}
<1>1. h \in Records
  BY SubmitTypes DEF MapInv
<1>2. kernel'[x] = IF new = {} THEN kernel[x] ELSE made \cup kept
  BY DEF Submit, Supersede
<1>3. CASE ~h.entry
  <2>1. e = ExitRecord(h, stale)
    BY <1>3
  <2>2. e \in Records /\ ~e.entry
    BY <1>1, <1>3, <2>1, FilledKnown
  <2>3. new = {}
    BY <1>3
  <2> QED
    BY <1>2, <2>2, <2>3, ExitSilent
<1>4. CASE h.entry
  <2>1. e = EntryRecord(h, r) /\ truth = Truth(h.phase, h.lb_cpu, r)
    BY <1>4
  <2> HIDE DEF truth
  <2>2. /\ \A s \in CounterSamples(e) : \E t \in truth : t[1] = s[1]
        /\ \A t \in truth : \E s \in CounterSamples(e) : t[1] = s[1]
        /\ \A s \in CounterSamples(e), t \in truth : s[1] = t[1] => t[2] = None \/ s[2] = t[2]
    BY <1>1, <1>4, <2>1, EntryTells
  <2>3. CASE new = {}
    <3>1. ~Touches(e, x)
      BY <2>2, <2>3 DEF Touches
    <3> QED
      BY <1>2, <2>3, <3>1
  <2>4. CASE new # {}
    <3>1. PICK t \in truth : t[1] = x
      BY <2>4
    <3>2. Touches(e, x)
      BY <2>2, <3>1 DEF Touches
    <3>3. PICK s : s = CHOOSE z \in CounterSamples(e) : z[1] = x
      OBVIOUS
    <3>4. s \in CounterSamples(e) /\ s[1] = x
      BY <3>2, <3>3 DEF Touches
    <3>5. Value(e, x) = s[2]
      BY <3>3 DEF Value
    <3>6. t[2] = None \/ s[2] = t[2]
      BY <2>2, <3>1, <3>4
    <3>7. PICK q : q = [ts |-> h.id, val |-> t[2]]
      OBVIOUS
    <3>8. q \in made /\ q.ts = h.id /\ q.val = t[2]
      BY <3>1, <3>7
    <3>9. \A z \in made : z.ts = h.id
      OBVIOUS
    <3> HIDE DEF made, kept, new
    <3>10. kernel'[x] = made \cup kept
      BY <1>2, <2>4
    <3>11. InKernel(kernel'[x], h.id, Value(e, x))
      BY <3>5, <3>6, <3>8, <3>10 DEF InKernel
    <3>12. \A z \in kernel'[x] : z.ts = h.id \/ z \in kernel[x]
      BY <3>9, <3>10 DEF kept
    <3>13. \A z \in kernel[x] : z.ts > h.id \/ z.ts \in prog[c].with => z \in kernel'[x]
      BY <3>10 DEF kept
    <3> QED
      BY <1>4, <3>2, <3>11, <3>12, <3>13
  <2> QED
    BY <2>3, <2>4
<1> QED
  BY <1>3, <1>4

\* The readings a program supersedes are before its record in the ring.
LEMMA ReadSubmit ==
  ASSUME MapInv, OrderOK, NEW c \in Cpus, NEW r \in Readings, NEW stale \in Cpus, Submit(c, r, stale),
         NEW x \in Counters, NEW sh, NEW u, ReadAt(x, sh, kernel[x], u, ring)
  PROVE  ReadAt(x, sh, kernel'[x], u, ring')
<1>1. PICK h : h = prog[c].e
  OBVIOUS
<1>2. PICK e : e = IF h.entry THEN EntryRecord(h, r) ELSE ExitRecord(h, stale)
  OBVIOUS
<1>3. /\ Reserved(prog[c]) /\ h \in Records /\ Len(ring') = Len(ring)
      /\ \A k \in 1..Len(ring) :
           \/ ~ring[k].done /\ ring[k].this_cpu = c /\ ring[k] = h /\ ring'[k] = e
           \/ (ring[k].done \/ ring[k].this_cpu # c) /\ ring'[k] = ring[k]
  BY <1>1, <1>2, SubmitTypes DEF MapInv
<1>4. PICK j \in 1..Len(ring) : ring[j] = h /\ ~ring[j].done /\ ring[j].this_cpu = c
  BY <1>1, <1>3 DEF MapInv, ProgOK, Reserved
<1>5. ring'[j] = e /\ e.done /\ e.id = h.id /\ h.id \in Nat
  <2>1. ring'[j] = e
    BY <1>3, <1>4
  <2>2. e.done /\ e.id = h.id
    BY <1>2, <1>3, FilledKnown
  <2> QED
    BY <1>3, <2>1, <2>2, RecordFields
<1>6. \A k \in 1..Len(ring) : ring[k] \in Records /\ ring[k].id \in Nat
  <2>1. \A k \in 1..Len(ring) : ring[k] \in Records
    BY DEF MapInv, LbTypeOK
  <2> QED
    BY <2>1, RecordFields
<1>7. \A k \in 1..Len(ring) : Told(ring[k], x) => ring'[k] = ring[k]
  BY <1>3 DEF Told
<1>8. \A k \in 1..Len(ring) : Told(ring'[k], x) =>
        Told(ring[k], x) \/ (Touches(e, x) /\ ring'[k] = e)
  BY <1>3 DEF Told
<1>9. Len(ring) \in Nat
  BY DEF MapInv, LbTypeOK
<1>10. ASSUME NEW ts, NEW k \in Nat, k > 0, Replaced(ring, x, ts, k) PROVE Replaced(ring', x, ts, k)
  <2>1. PICK i \in k..Len(ring) : Told(ring[i], x) /\ ring[i].id >= ts
    BY <1>10 DEF Replaced
  <2>2. i \in 1..Len(ring)
    BY <1>9, <1>10
  <2> QED
    BY <1>3, <1>7, <2>1, <2>2 DEF Replaced
<1>11. CASE ~Touches(e, x) /\ kernel'[x] = kernel[x]
  <2>1. ASSUME NEW k \in 1..Len(ring'), Told(ring'[k], x)
        PROVE  InKernel(kernel'[x], ring'[k].id, Value(ring'[k], x)) \/ Replaced(ring', x, ring'[k].id, k + 1)
    <3>1. k \in 1..Len(ring) /\ Told(ring[k], x) /\ ring'[k] = ring[k] /\ k + 1 \in Nat /\ k + 1 > 0
      BY <1>3, <1>7, <1>8, <1>11, <2>1
    <3>2. InKernel(kernel[x], ring[k].id, Value(ring[k], x)) \/ Replaced(ring, x, ring[k].id, k + 1)
      BY <3>1 DEF ReadAt
    <3> QED
      BY <1>10, <1>11, <3>1, <3>2
  <2>2. sh.ts # 0 => InKernel(kernel'[x], sh.ts, sh.val) \/ Replaced(ring', x, sh.ts, 1)
    BY <1>10, <1>11 DEF ReadAt
  <2>3. ASSUME NEW q \in kernel'[x]
        PROVE  q.ts \in u \/ sh.ts > 0 \/ \E k \in 1..Len(ring') : Told(ring'[k], x) /\ ring'[k].id = q.ts
    <3>1. q.ts \in u \/ sh.ts > 0 \/ \E k \in 1..Len(ring) : Told(ring[k], x) /\ ring[k].id = q.ts
      BY <1>11 DEF ReadAt
    <3> QED
      BY <1>3, <1>7, <3>1
  <2> QED
    BY <2>1, <2>2, <2>3 DEF ReadAt
<1>12. CASE /\ Touches(e, x) /\ h.entry
            /\ InKernel(kernel'[x], h.id, Value(e, x))
            /\ \A q \in kernel'[x] : q.ts = h.id \/ q \in kernel[x]
            /\ \A q \in kernel[x] : q.ts > h.id \/ q.ts \in prog[c].with => q \in kernel'[x]
  <2>0. Told(ring'[j], x) /\ ring'[j].id = h.id
    BY <1>5, <1>12 DEF Told
  <2>1. ASSUME NEW ts \in Nat, NEW v, InKernel(kernel[x], ts, v)
        PROVE  InKernel(kernel'[x], ts, v) \/ (h.id >= ts /\ ts \notin prog[c].with)
    <3>1. PICK q \in kernel[x] : q.ts = ts /\ q.val \in {None, v}
      BY <2>1 DEF InKernel
    <3>2. CASE ts > h.id \/ ts \in prog[c].with
      <4>1. q \in kernel'[x]
        BY <1>12, <3>1, <3>2
      <4> QED
        BY <3>1, <4>1 DEF InKernel
    <3> QED
      BY <1>5, <3>2
  <2>2. ASSUME NEW k \in 1..Len(ring'), Told(ring'[k], x)
        PROVE  InKernel(kernel'[x], ring'[k].id, Value(ring'[k], x)) \/ Replaced(ring', x, ring'[k].id, k + 1)
    <3>0. k \in 1..Len(ring) /\ k + 1 \in Nat /\ k + 1 > 0
      BY <1>3
    <3>1. CASE ring'[k] = e
      BY <1>5, <1>12, <3>1
    <3>2. CASE ring'[k] # e
      <4>1. Told(ring[k], x) /\ ring'[k] = ring[k] /\ ring[k].id \in Nat /\ ring[k] \in Records
        BY <1>6, <1>7, <1>8, <2>2, <3>0, <3>2
      <4>2. InKernel(kernel[x], ring[k].id, Value(ring[k], x)) \/ Replaced(ring, x, ring[k].id, k + 1)
        BY <3>0, <4>1 DEF ReadAt
      <4>3. CASE Replaced(ring, x, ring[k].id, k + 1)
        BY <1>10, <3>0, <4>1, <4>3
      <4>4. CASE h.id >= ring[k].id /\ ring[k].id \notin prog[c].with
        <5>1. ring[k].entry
          BY <4>1, ExitSilent DEF Told
        <5>2. j # k
          BY <1>4, <4>1 DEF Told
        <5>3. ~(k \in (j + 1)..Len(ring))
          <6> SUFFICES ASSUME k \in (j + 1)..Len(ring) PROVE FALSE
            OBVIOUS
          <6>1. ring[k].id > ring[j].id \/ ring[k].id \in prog[ring[j].this_cpu].with
            BY <1>4, <1>12, <5>1 DEF OrderOK
          <6>2. ring[k].id > h.id
            BY <1>4, <4>4, <6>1
          <6> QED
            BY <1>5, <4>1, <4>4, <6>2
        <5>4. j \in (k + 1)..Len(ring')
          BY <1>3, <1>9, <3>0, <5>2, <5>3
        <5> QED
          BY <2>0, <4>1, <4>4, <5>4 DEF Replaced
      <4>5. CASE InKernel(kernel[x], ring[k].id, Value(ring[k], x))
        BY <2>1, <4>1, <4>4, <4>5
      <4> QED
        BY <4>2, <4>3, <4>5
    <3> QED
      BY <3>1, <3>2
  <2>3. ASSUME sh.ts # 0 PROVE InKernel(kernel'[x], sh.ts, sh.val) \/ Replaced(ring', x, sh.ts, 1)
    <3>1. sh.ts \in Nat /\ (InKernel(kernel[x], sh.ts, sh.val) \/ Replaced(ring, x, sh.ts, 1))
      BY <2>3 DEF ReadAt
    <3>2. CASE Replaced(ring, x, sh.ts, 1)
      BY <1>10, <3>2
    <3>3. CASE h.id >= sh.ts
      BY <1>3, <2>0, <3>3 DEF Replaced
    <3>4. CASE InKernel(kernel[x], sh.ts, sh.val)
      BY <2>1, <3>1, <3>3, <3>4
    <3> QED
      BY <3>1, <3>2, <3>4
  <2>4. ASSUME NEW q \in kernel'[x]
        PROVE  q.ts \in u \/ sh.ts > 0 \/ \E k \in 1..Len(ring') : Told(ring'[k], x) /\ ring'[k].id = q.ts
    <3>1. CASE q.ts = h.id
      BY <1>3, <2>0, <3>1
    <3>2. CASE q \in kernel[x]
      <4>1. q.ts \in u \/ sh.ts > 0 \/ \E k \in 1..Len(ring) : Told(ring[k], x) /\ ring[k].id = q.ts
        BY <3>2 DEF ReadAt
      <4> QED
        BY <1>3, <1>7, <4>1
    <3> QED
      BY <1>12, <3>1, <3>2
  <2>5. sh.ts \in Nat
    BY DEF ReadAt
  <2> QED
    BY <2>2, <2>3, <2>4, <2>5 DEF ReadAt
<1> QED
  BY <1>1, <1>2, <1>11, <1>12, SubmitReadings

\* The oldest record is handled: its samples are shown unless later ones are.
LEMMA ReadHandle ==
  ASSUME MapInv, Handle, NEW x \in Counters,
         ReadAt(x, shown[x], kernel[x], unseen, ring), ~tracing => shown[x].ts = 0
  PROVE  ReadAt(x, shown'[x], kernel[x], unseen', ring') /\ (~tracing => shown'[x].ts = 0)
<1> DEFINE L == Len(ring)
<1>1. PICK e : e = ring[1]
  OBVIOUS
<1>2. /\ L \in Nat /\ L # 0 /\ Len(ring') = L - 1 /\ Head(ring) = e /\ e \in Records /\ e.done
      /\ \A k \in 1..(L - 1) : ring'[k] = ring[k + 1]
  BY <1>1, HandleTypes DEF MapInv
<1>3. e.id \in Nat /\ e.id > 0
  BY <1>2, RecordFields
<1>4. Told(e, x) <=> Touches(e, x)
  BY <1>2 DEF Told
<1>0. ASSUME NEW k \in 1..Len(ring'), Told(ring'[k], x)
      PROVE  InKernel(kernel[x], ring'[k].id, Value(ring'[k], x)) \/ Replaced(ring', x, ring'[k].id, k + 1)
  <2>1. k + 1 \in 1..L /\ ring'[k] = ring[k + 1]
    BY <1>2
  <2>2. InKernel(kernel[x], ring'[k].id, Value(ring'[k], x)) \/ Replaced(ring, x, ring'[k].id, (k + 1) + 1)
    BY <1>0, <2>1 DEF ReadAt
  <2>3. CASE Replaced(ring, x, ring'[k].id, (k + 1) + 1)
    <3>1. PICK j \in ((k + 1) + 1)..L : Told(ring[j], x) /\ ring[j].id >= ring'[k].id
      BY <2>3 DEF Replaced
    <3>2. j - 1 \in 1..(L - 1) /\ (j - 1) + 1 = j /\ j - 1 \in (k + 1)..Len(ring')
      BY <1>2, <1>0
    <3> QED
      BY <1>2, <3>1, <3>2 DEF Replaced
  <2> QED
    BY <2>2, <2>3
<1>5. PICK sh : sh = shown[x]
  OBVIOUS
<1>6. PICK sh2 : sh2 = shown'[x]
  OBVIOUS
<1>7. CASE tracing
  <2>1. unseen' = unseen /\ sh2 = IF Touches(e, x) /\ e.id >= sh.ts
                                  THEN [ts |-> e.id, val |-> Value(e, x)] ELSE sh
    BY <1>2, <1>5, <1>6, <1>7 DEF Handle
  <2>2. sh.ts \in Nat
    BY <1>5 DEF ReadAt
  <2>3. sh2.ts \in Nat /\ sh2.ts >= sh.ts /\ (Touches(e, x) => sh2.ts > 0)
    BY <1>3, <2>1, <2>2
  <2> QED
    <3>1. sh2.ts # 0 => InKernel(kernel[x], sh2.ts, sh2.val) \/ Replaced(ring', x, sh2.ts, 1)
      <4> SUFFICES ASSUME sh2.ts # 0
                   PROVE  InKernel(kernel[x], sh2.ts, sh2.val) \/ Replaced(ring', x, sh2.ts, 1)
        OBVIOUS
      <4>1. CASE Touches(e, x) /\ e.id >= sh.ts
        <5>1. sh2.ts = e.id /\ sh2.val = Value(e, x)
          BY <2>1, <4>1
        <5>2. InKernel(kernel[x], e.id, Value(e, x)) \/ Replaced(ring, x, e.id, 1 + 1)
          BY <1>1, <1>2, <1>4, <4>1 DEF ReadAt
        <5>3. CASE Replaced(ring, x, e.id, 1 + 1)
          <6>1. PICK j \in 2..L : Told(ring[j], x) /\ ring[j].id >= e.id
            BY <5>3 DEF Replaced
          <6>2. j - 1 \in 1..(L - 1) /\ (j - 1) + 1 = j
            BY <1>2
          <6> QED
            BY <1>2, <5>1, <6>1, <6>2 DEF Replaced
        <5> QED
          BY <5>1, <5>2, <5>3
      <4>2. CASE ~(Touches(e, x) /\ e.id >= sh.ts)
        <5>1. sh2 = sh
          BY <2>1, <4>2
        <5>2. InKernel(kernel[x], sh.ts, sh.val) \/ Replaced(ring, x, sh.ts, 1)
          BY <1>5, <5>1 DEF ReadAt
        <5>3. CASE Replaced(ring, x, sh.ts, 1)
          <6>1. PICK j \in 1..L : Told(ring[j], x) /\ ring[j].id >= sh.ts
            BY <5>3 DEF Replaced
          <6>2. j # 1
            BY <1>1, <1>4, <4>2, <6>1
          <6>3. j - 1 \in 1..(L - 1) /\ (j - 1) + 1 = j
            BY <1>2, <6>2
          <6> QED
            BY <1>2, <5>1, <6>1, <6>3 DEF Replaced
        <5> QED
          BY <5>1, <5>2, <5>3
      <4> QED
        BY <4>1, <4>2
    <3>2. ASSUME NEW q \in kernel[x]
          PROVE  q.ts \in unseen' \/ sh2.ts > 0 \/ \E k \in 1..Len(ring') : Told(ring'[k], x) /\ ring'[k].id = q.ts
      <4>1. q.ts \in unseen \/ sh.ts > 0 \/ \E k \in 1..L : Told(ring[k], x) /\ ring[k].id = q.ts
        BY <1>5 DEF ReadAt
      <4>2. ASSUME NEW k \in 1..L, Told(ring[k], x), ring[k].id = q.ts
            PROVE  sh2.ts > 0 \/ \E i \in 1..Len(ring') : Told(ring'[i], x) /\ ring'[i].id = q.ts
        <5>1. CASE k = 1
          BY <1>1, <1>4, <2>3, <4>2, <5>1
        <5>2. CASE k # 1
          <6>1. k - 1 \in 1..(L - 1) /\ (k - 1) + 1 = k
            BY <1>2, <5>2
          <6> QED
            BY <1>2, <4>2, <6>1
        <5> QED
          BY <5>1, <5>2
      <4> QED
        BY <2>1, <2>2, <2>3, <4>1, <4>2
    <3> QED
      BY <1>0, <1>6, <1>7, <2>3, <3>1, <3>2 DEF ReadAt
<1>8. CASE ~tracing
  <2>1. sh2 = sh /\ sh.ts = 0 /\ unseen' = IF e.entry THEN unseen \cup {e.id} ELSE unseen
    BY <1>2, <1>5, <1>6, <1>8 DEF Handle
  <2>2. Touches(e, x) => e.entry
    BY <1>2, ExitSilent
  <2>3. ASSUME NEW q \in kernel[x]
        PROVE  q.ts \in unseen' \/ sh2.ts > 0 \/ \E k \in 1..Len(ring') : Told(ring'[k], x) /\ ring'[k].id = q.ts
    <3>1. q.ts \in unseen \/ \E k \in 1..L : Told(ring[k], x) /\ ring[k].id = q.ts
      BY <1>5, <2>1 DEF ReadAt
    <3>2. ASSUME NEW k \in 1..L, Told(ring[k], x), ring[k].id = q.ts
          PROVE  q.ts \in unseen' \/ \E i \in 1..Len(ring') : Told(ring'[i], x) /\ ring'[i].id = q.ts
      <4>1. CASE k = 1
        BY <1>1, <1>4, <2>1, <2>2, <3>2, <4>1
      <4>2. CASE k # 1
        <5>1. k - 1 \in 1..(L - 1) /\ (k - 1) + 1 = k
          BY <1>2, <4>2
        <5> QED
          BY <1>2, <3>2, <5>1
      <4> QED
        BY <4>1, <4>2
    <3> QED
      BY <2>1, <3>1, <3>2
  <2> QED
    BY <1>0, <1>6, <2>1, <2>3 DEF ReadAt
<1> QED
  BY <1>7, <1>8

\* Nothing was read, nothing is shown.
LEMMA CountersInit == Init => CountersInv
<1> SUFFICES ASSUME Init PROVE CountersInv
  OBVIOUS
<1>1. MapInv
  BY MapInit
<1>2. ring = <<>> /\ Len(ring) = 0 /\ 1..0 = {} /\ Running = {}
  BY DEF Init, Running
<1>3. OrderOK
  BY <1>2 DEF OrderOK
<1>4. \A x \in Counters : kernel[x] = {} /\ shown[x].ts = 0
  BY DEF Init
<1>5. ReadOK
  BY <1>2, <1>4 DEF ReadOK, ReadAt
<1> QED
  BY <1>1, <1>3, <1>5 DEF CountersInv

\* No step breaks CountersInv.
LEMMA CountersInductive == CountersInv /\ [Next]_vars => CountersInv'
<1> SUFFICES ASSUME CountersInv, [Next]_vars PROVE CountersInv'
  OBVIOUS
<1>1. MapInv' /\ OrderOK' /\ MapInv /\ OrderOK
  BY MapInductive, OrderInductive DEF CountersInv
<1>2. ASSUME NEW x \in Counters
      PROVE  ReadAt(x, shown[x], kernel[x], unseen, ring) /\ (~tracing => shown[x].ts = 0)
  BY DEF CountersInv, ReadOK
<1>3. ASSUME UNCHANGED <<ring, shown, kernel, unseen>>, ~tracing' => ~tracing PROVE ReadOK'
  BY <1>2, <1>3 DEF ReadOK
<1>4. ASSUME NEW c \in Cpus, NEW lb \in Cpus, NEW f \in PhaseSet, Enter(c, f, lb) PROVE ReadOK'
  <2>1. UNCHANGED <<ring, shown, kernel, unseen, tracing>>
    BY <1>4 DEF Enter, traceVars
  <2> QED
    BY <1>3, <2>1
<1>5. ASSUME NEW c \in Cpus, Return(c) PROVE ReadOK'
  <2>1. UNCHANGED <<ring, shown, kernel, unseen, tracing>>
    BY <1>5 DEF Return, traceVars
  <2> QED
    BY <1>3, <2>1
<1>6. ASSUME NEW c \in Cpus, Reserve(c) PROVE ReadOK'
  <2>1. UNCHANGED <<shown, kernel, unseen, tracing>>
    BY <1>6 DEF Reserve, traceVars
  <2>2. ring' = ring \/ ring' = Append(ring, prog[c].e)
    BY <1>6 DEF Reserve
  <2>3. prog[c].e \in Records /\ ~prog[c].e.done /\ ring \in Seq(Records)
    <3>1. prog[c] # Idle
      BY <1>6 DEF Reserve
    <3> QED
      BY <1>1, <3>1, ProgFields DEF MapInv, ProgOK, LbTypeOK
  <2>4. \A x \in Counters : ReadAt(x, shown[x], kernel[x], unseen, Append(ring, prog[c].e))
    BY <1>2, <2>3, ReadReserve
  <2> QED
    BY <1>2, <2>1, <2>2, <2>4 DEF ReadOK
<1>7. ASSUME NEW c \in Cpus, NEW r \in Readings, NEW stale \in Cpus, Submit(c, r, stale) PROVE ReadOK'
  <2>1. UNCHANGED <<shown, unseen, tracing>>
    BY <1>7 DEF Submit, traceVars
  <2>2. \A x \in Counters : ReadAt(x, shown[x], kernel'[x], unseen, ring')
    BY <1>1, <1>2, <1>7, ReadSubmit
  <2> QED
    BY <1>2, <2>1, <2>2 DEF ReadOK
<1>8. ASSUME Handle PROVE ReadOK'
  <2>1. UNCHANGED <<kernel, tracing>>
    BY <1>8 DEF Handle
  <2>2. \A x \in Counters : ReadAt(x, shown'[x], kernel[x], unseen', ring') /\ (~tracing => shown'[x].ts = 0)
    BY <1>1, <1>2, <1>8, ReadHandle
  <2> QED
    BY <2>1, <2>2 DEF ReadOK
<1>9. ASSUME Attach \/ StartTrace \/ UNCHANGED vars PROVE ReadOK'
  <2>1. UNCHANGED <<ring, shown, kernel, unseen>> /\ (~tracing' => ~tracing)
    BY <1>9 DEF Attach, StartTrace, vars, traceVars
  <2> QED
    BY <1>3, <2>1
<1>10. ReadOK'
  BY <1>4, <1>5, <1>6, <1>7, <1>8, <1>9 DEF Next
<1> QED
  BY <1>1, <1>10 DEF CountersInv

\* Once the ring is drained a counter shows a reading that is not out of date,
\* however many CPUs read it at once and in whichever order their programs
\* reserve, read and submit.
THEOREM CountersAreCurrent == Spec => []CountersCurrent
<1>1. CountersInv => CountersCurrent
  <2> SUFFICES ASSUME CountersInv, ring = <<>>, NEW x \in Counters
               PROVE  \/ \A q \in kernel[x] : q.ts \in unseen
                      \/ \E q \in kernel[x] : shown[x].ts = q.ts /\ q.val \in {None, shown[x].val}
    BY DEF CountersCurrent
  <2>1. Len(ring) = 0 /\ 1..0 = {}
    OBVIOUS
  <2>2. ReadAt(x, shown[x], kernel[x], unseen, ring)
    BY DEF CountersInv, ReadOK
  <2>3. CASE shown[x].ts > 0
    <3>1. shown[x].ts # 0
      BY <2>2, <2>3 DEF ReadAt
    <3>2. InKernel(kernel[x], shown[x].ts, shown[x].val)
      BY <2>1, <2>2, <3>1 DEF ReadAt, Replaced
    <3> QED
      BY <3>2 DEF InKernel
  <2>4. CASE ~(shown[x].ts > 0)
    BY <2>1, <2>2, <2>4 DEF ReadAt
  <2> QED
    BY <2>3, <2>4
<1> QED
  BY <1>1, CountersInit, CountersInductive, PTL DEF Spec

-----------------------------------------------------------------------------
(* The slices: the records in the ring lead from the calls whose BEGIN was *)
(* handled to the calls that run.                                          *)

\* What record e does to the calls t of CPU c that are known.
Step(c, e, t, t2) ==
  IF e.this_cpu # c THEN t2 = t
  ELSE IF e.entry
       THEN \E fr \in Frame : t2 = Append(t, fr) /\ fr.f = e.phase /\ fr.lb = e.lb_cpu /\ fr.id = e.id
       ELSE t # <<>> /\ t2 = SubSeq(t, 1, Len(t) - 1)

\* The records of r, one after the other, lead from t to t2.
Path(c, r, t, t2) ==
  \E T \in [1..(Len(r) + 1) -> Seq(Frame)] :
    /\ T[1] = t /\ T[Len(r) + 1] = t2
    /\ \A n \in 1..Len(r) : Step(c, r[n], T[n], T[n + 1])

\* The slices o are those of t, the ones at the bottom excepted that were
\* handled before the session began.
SliceOf(fr) == [f |-> fr.f, cpu |-> fr.lb]

ShowsAt(o, l, u, t, n, m) ==
  /\ m \in 0..n /\ l = n - m
  /\ \A i \in 1..l : o[i] = SliceOf(t[m + i])
  /\ \A i \in 1..n : t[i].id \in u <=> i <= m

Shows(o, u, t) == \E m : ShowsAt(o, Len(o), u, t, Len(t), m)

\* t are the calls of s that were seen to begin; at says where they are.
BegunAt(s, n, t, m, at) ==
  /\ at \in [1..m -> 1..n]
  /\ \A i, j \in 1..m : i < j => at[i] < at[j]
  /\ \A i \in 1..m : t[i] = s[at[i]] /\ s[at[i]].begun
  /\ \A k \in 1..n : s[k].begun => \E i \in 1..m : at[i] = k

Begun(s, t) == \E at : BegunAt(s, Len(s), t, Len(t), at)

\* A program that has not reserved yet takes its step later.
Started(p) == p # Idle /\ p.stage = "begun"
Pend(c, p, t, t2) == IF Started(p) THEN Step(c, p.e, t, t2) ELSE t2 = t

SlicesOf(c, p, r, o, u, s) ==
  \E t, t2, t3 \in Seq(Frame) :
    Path(c, r, t, t2) /\ Shows(o, u, t) /\ Pend(c, p, t2, t3) /\ Begun(s, t3)

\* No two entry records are of the same call, and none is of a call whose
\* BEGIN was handled before.
Fresh(p) == Started(p) /\ p.e.entry

IdsOK ==
  /\ \A u \in unseen : u \in Nat /\ u <= ncalls
  /\ \A k \in 1..Len(ring) : ring[k].entry => ring[k].id <= ncalls /\ ring[k].id \notin unseen
  /\ \A k, n \in 1..Len(ring) : ring[k].entry /\ ring[n].entry /\ k # n => ring[k].id # ring[n].id
  /\ \A c \in Cpus : Fresh(prog[c]) => prog[c].e.id <= ncalls /\ prog[c].e.id \notin unseen
  /\ \A c, d \in Cpus : Fresh(prog[c]) /\ Fresh(prog[d]) /\ c # d => prog[c].e.id # prog[d].e.id
  /\ \A c \in Cpus, k \in 1..Len(ring) :
       Fresh(prog[c]) /\ ring[k].entry => prog[c].e.id # ring[k].id

SliceSet == [f : PhaseSet, cpu : Cpus]

NestInv ==
  /\ MapInv /\ IdsOK
  /\ open \in [Cpus -> Seq(SliceSet)]
  /\ ~tracing => \A c \in Cpus : open[c] = <<>>
  /\ \A c \in Cpus \ (lost \cup unpaired) : SlicesOf(c, prog[c], ring, open[c], unseen, calls[c])

\* All but the last element of a sequence.
LEMMA FrontOfSeq ==
  ASSUME NEW S, NEW s \in Seq(S), s # <<>>
  PROVE  LET q == SubSeq(s, 1, Len(s) - 1)
         IN  /\ q \in Seq(S) /\ Len(s) \in Nat /\ Len(s) # 0 /\ Len(q) = Len(s) - 1
             /\ \A i \in 1..(Len(s) - 1) : q[i] = s[i]
<1>1. PICK n : n = Len(s)
  OBVIOUS
<1>2. n \in Nat /\ n # 0
  BY <1>1, EmptySeq
<1>3. n >= 1 /\ 1 \in 1..(n + 1) /\ n - 1 \in 0..n
  BY <1>2
<1>4. SubSeq(s, 1, n - 1) \in Seq(S) /\ Len(SubSeq(s, 1, n - 1)) = n - 1
      /\ \A i \in 1..(n - 1) : SubSeq(s, 1, n - 1)[i] = s[i]
  BY <1>1, <1>2, <1>3
<1> QED
  BY <1>1, <1>2, <1>4

\* An empty ring leads nowhere.
LEMMA PathEmpty ==
  ASSUME NEW c, NEW t \in Seq(Frame), NEW t2
  PROVE  Path(c, <<>>, t, t2) <=> t = t2
<1>1. ASSUME Path(c, <<>>, t, t2) PROVE t = t2
  BY <1>1 DEF Path
<1>2. Path(c, <<>>, t, t)
  <2> DEFINE T == [n \in 1..1 |-> t]
  <2>1. Len(<<>>) = 0 /\ T \in [1..1 -> Seq(Frame)] /\ T[1] = t
    OBVIOUS
  <2>2. 0 + 1 = 1 /\ 1..0 = {}
    OBVIOUS
  <2> HIDE DEF T
  <2> QED
    BY <2>1, <2>2 DEF Path
<1> QED
  BY <1>1, <1>2

\* One more record, one more step.
LEMMA PathAppend ==
  ASSUME NEW c, NEW r \in Seq(Records), NEW e \in Records, NEW t, NEW t2, NEW t3 \in Seq(Frame),
         Path(c, r, t, t2), Step(c, e, t2, t3)
  PROVE  Path(c, Append(r, e), t, t3)
<1> DEFINE q == Append(r, e)
           n == Len(r)
<1>1. /\ n \in Nat /\ Len(q) = n + 1 /\ q[n + 1] = e
      /\ \A i \in 1..n : q[i] = r[i]
  BY AppendProperties
<1>2. PICK T \in [1..(n + 1) -> Seq(Frame)] :
        /\ T[1] = t /\ T[n + 1] = t2
        /\ \A i \in 1..n : Step(c, r[i], T[i], T[i + 1])
  BY DEF Path
<1> DEFINE U == [i \in 1..(n + 2) |-> IF i <= n + 1 THEN T[i] ELSE t3]
<1> HIDE DEF q, n
<1>3. /\ U \in [1..(n + 2) -> Seq(Frame)]
      /\ \A i \in 1..(n + 1) : U[i] = T[i]
      /\ U[n + 2] = t3 /\ U[(n + 1) + 1] = t3
  BY <1>1
<1> HIDE DEF U
<1>4. \A i \in 1..(n + 1) : Step(c, q[i], U[i], U[i + 1])
  <2> SUFFICES ASSUME NEW i \in 1..(n + 1) PROVE Step(c, q[i], U[i], U[i + 1])
    OBVIOUS
  <2>1. CASE i = n + 1
    <3>1. U[i] = t2 /\ q[i] = e /\ U[i + 1] = t3
      BY <1>1, <1>2, <1>3, <2>1
    <3> QED
      BY <3>1
  <2>2. CASE i # n + 1
    <3>1. i \in 1..n /\ i + 1 \in 1..(n + 1)
      BY <1>1, <2>2
    <3>2. U[i] = T[i] /\ U[i + 1] = T[i + 1] /\ q[i] = r[i]
      BY <1>1, <1>3, <3>1
    <3> QED
      BY <1>2, <3>1, <3>2
  <2> QED
    BY <2>1, <2>2
<1>5. U[1] = t /\ (n + 1) + 1 = n + 2
  BY <1>1, <1>2, <1>3
<1>6. Path(c, q, t, t3)
  BY <1>1, <1>3, <1>4, <1>5 DEF Path
<1> QED
  BY <1>6 DEF q

\* The oldest record is the first step.
LEMMA PathTail ==
  ASSUME NEW c, NEW r \in Seq(Records), r # <<>>, NEW t, NEW t2, Path(c, r, t, t2)
  PROVE  \E t1 \in Seq(Frame) : Step(c, Head(r), t, t1) /\ Path(c, Tail(r), t1, t2)
<1> DEFINE q == Tail(r)
           n == Len(r)
<1>0. n \in Nat /\ n # 0
  BY EmptySeq
<1>1. Len(q) = n - 1 /\ Head(r) = r[1] /\ \A i \in 1..(n - 1) : q[i] = r[i + 1]
  BY HeadTailProperties
<1>2. PICK T \in [1..(n + 1) -> Seq(Frame)] :
        /\ T[1] = t /\ T[n + 1] = t2
        /\ \A i \in 1..n : Step(c, r[i], T[i], T[i + 1])
  BY DEF Path
<1> DEFINE U == [i \in 1..n |-> T[i + 1]]
<1> HIDE DEF q, n
<1>3. U \in [1..n -> Seq(Frame)] /\ \A i \in 1..n : U[i] = T[i + 1]
  BY <1>0
<1> HIDE DEF U
<1>4. \A i \in 1..(n - 1) : Step(c, q[i], U[i], U[i + 1])
  <2> SUFFICES ASSUME NEW i \in 1..(n - 1) PROVE Step(c, q[i], U[i], U[i + 1])
    OBVIOUS
  <2>1. i \in 1..n /\ i + 1 \in 1..n
    BY <1>0
  <2>2. U[i] = T[i + 1] /\ U[i + 1] = T[(i + 1) + 1] /\ q[i] = r[i + 1]
    BY <1>1, <1>3, <2>1
  <2> QED
    BY <1>2, <2>1, <2>2
<1>5. U[1] = T[2] /\ U[n] = t2 /\ T[2] \in Seq(Frame) /\ 1 \in 1..n /\ 1 + 1 = 2
  BY <1>0, <1>2, <1>3
<1>6. Step(c, Head(r), t, T[2])
  BY <1>1, <1>2, <1>5
<1>7. Path(c, q, T[2], t2)
  <2>1. Len(q) + 1 = n /\ Len(q) = n - 1
    BY <1>0, <1>1
  <2> QED
    BY <1>3, <1>4, <1>5, <2>1 DEF Path
<1> QED
  BY <1>5, <1>6, <1>7 DEF q

\* A call that was seen to begin joins both, one that was not only the calls.
LEMMA BegunPush ==
  ASSUME NEW s \in Seq(Frame), NEW t \in Seq(Frame), NEW fr \in Frame, Begun(s, t)
  PROVE  /\ fr.begun => Begun(Append(s, fr), Append(t, fr))
         /\ ~fr.begun => Begun(Append(s, fr), t)
<1> DEFINE s2 == Append(s, fr)
           t2 == Append(t, fr)
           n == Len(s)
           m == Len(t)
<1>1. /\ n \in Nat /\ Len(s2) = n + 1 /\ s2[n + 1] = fr
      /\ \A i \in 1..n : s2[i] = s[i]
  BY AppendProperties
<1>2. /\ m \in Nat /\ Len(t2) = m + 1 /\ t2[m + 1] = fr
      /\ \A i \in 1..m : t2[i] = t[i]
  BY AppendProperties
<1>3. PICK at \in [1..m -> 1..n] :
        /\ \A i, j \in 1..m : i < j => at[i] < at[j]
        /\ \A i \in 1..m : t[i] = s[at[i]] /\ s[at[i]].begun
        /\ \A k \in 1..n : s[k].begun => \E i \in 1..m : at[i] = k
  BY DEF Begun, BegunAt
<1> HIDE DEF s2, t2, n, m
<1>4. \A k \in 1..(n + 1) : k # n + 1 => k \in 1..n
  BY <1>1
<1>5. \A k \in 1..(m + 1) : k # m + 1 => k \in 1..m
  BY <1>2
<1>6. \A k \in 1..n : k \in 1..(n + 1) /\ k < n + 1
  BY <1>1
<1>7. ASSUME ~fr.begun PROVE Begun(s2, t)
  <2>1. at \in [1..m -> 1..(n + 1)]
    BY <1>6
  <2>2. \A i \in 1..m : t[i] = s2[at[i]] /\ s2[at[i]].begun
    BY <1>1, <1>3
  <2>3. \A k \in 1..(n + 1) : s2[k].begun => \E i \in 1..m : at[i] = k
    BY <1>1, <1>3, <1>4, <1>7
  <2>4. BegunAt(s2, n + 1, t, m, at)
    BY <1>3, <2>1, <2>2, <2>3 DEF BegunAt
  <2>5. BegunAt(s2, Len(s2), t, Len(t), at)
    BY <2>4, <1>1 DEF m
  <2> QED
    BY <2>5 DEF Begun
<1>8. ASSUME fr.begun PROVE Begun(s2, t2)
  <2> DEFINE at2 == [i \in 1..(m + 1) |-> IF i = m + 1 THEN n + 1 ELSE at[i]]
  <2>1. at2 \in [1..(m + 1) -> 1..(n + 1)]
    BY <1>1, <1>5, <1>6
  <2>2. at2[m + 1] = n + 1 /\ \A i \in 1..m : at2[i] = at[i]
    BY <1>2
  <2> HIDE DEF at2
  <2>3. \A i, j \in 1..(m + 1) : i < j => at2[i] < at2[j]
    <3> SUFFICES ASSUME NEW i \in 1..(m + 1), NEW j \in 1..(m + 1), i < j PROVE at2[i] < at2[j]
      OBVIOUS
    <3>1. i \in 1..m
      BY <1>2
    <3>2. CASE j = m + 1
      BY <1>6, <2>2, <3>1, <3>2
    <3>3. CASE j \in 1..m
      BY <1>3, <2>2, <3>1, <3>3
    <3> QED
      BY <1>5, <3>2, <3>3
  <2>4. \A i \in 1..(m + 1) : t2[i] = s2[at2[i]] /\ s2[at2[i]].begun
    <3>1. \A i \in 1..m : t2[i] = s2[at2[i]] /\ s2[at2[i]].begun
      BY <1>1, <1>2, <1>3, <2>2, SMTT(60)
    <3>2. t2[m + 1] = s2[at2[m + 1]] /\ s2[at2[m + 1]].begun
      BY <1>1, <1>2, <1>8, <2>2
    <3> QED
      BY <1>5, <3>1, <3>2
  <2>5. \A k \in 1..(n + 1) : s2[k].begun => \E i \in 1..(m + 1) : at2[i] = k
    <3> SUFFICES ASSUME NEW k \in 1..(n + 1), s2[k].begun PROVE \E i \in 1..(m + 1) : at2[i] = k
      OBVIOUS
    <3>1. CASE k = n + 1
      <4>1. m + 1 \in 1..(m + 1)
        BY <1>2
      <4> QED
        BY <2>2, <3>1, <4>1
    <3>2. CASE k # n + 1
      <4>1. k \in 1..n /\ s[k].begun
        BY <1>1, <1>4, <3>2
      <4>2. PICK i \in 1..m : at[i] = k
        BY <1>3, <4>1
      <4>3. i \in 1..(m + 1)
        BY <1>2
      <4> QED
        BY <2>2, <4>2, <4>3
    <3> QED
      BY <3>1, <3>2
  <2>6. BegunAt(s2, n + 1, t2, m + 1, at2)
    BY <2>1, <2>3, <2>4, <2>5 DEF BegunAt
  <2>7. BegunAt(s2, Len(s2), t2, Len(t2), at2)
    BY <2>6, <1>1, <1>2
  <2> QED
    BY <2>7 DEF Begun
<1> QED
  BY <1>7, <1>8 DEF s2, t2

\* The innermost call returns.
LEMMA BegunPop ==
  ASSUME NEW s \in Seq(Frame), NEW t \in Seq(Frame), s # <<>>, Begun(s, t)
  PROVE  LET s2 == SubSeq(s, 1, Len(s) - 1)
         IN  /\ s[Len(s)].begun => t # <<>> /\ Begun(s2, SubSeq(t, 1, Len(t) - 1))
             /\ ~s[Len(s)].begun => Begun(s2, t)
<1> DEFINE s2 == SubSeq(s, 1, Len(s) - 1)
           t2 == SubSeq(t, 1, Len(t) - 1)
           n == Len(s)
           m == Len(t)
<1>1. /\ n \in Nat /\ n # 0 /\ Len(s2) = n - 1
      /\ \A i \in 1..(n - 1) : s2[i] = s[i]
  BY FrontOfSeq
<1>2. m \in Nat
  OBVIOUS
<1>3. PICK at \in [1..m -> 1..n] :
        /\ \A i, j \in 1..m : i < j => at[i] < at[j]
        /\ \A i \in 1..m : t[i] = s[at[i]] /\ s[at[i]].begun
        /\ \A k \in 1..n : s[k].begun => \E i \in 1..m : at[i] = k
  BY DEF Begun, BegunAt
<1>4. m # 0 => t # <<>> /\ Len(t2) = m - 1 /\ \A i \in 1..(m - 1) : t2[i] = t[i]
  <2>1. m # 0 => t # <<>>
    OBVIOUS
  <2> QED
    BY <2>1, FrontOfSeq
<1> HIDE DEF s2, t2, n, m
<1>5. \A k \in 1..n : k # n => k \in 1..(n - 1)
  BY <1>1
<1>6. \A k \in 1..(n - 1) : k \in 1..n /\ k # n
  BY <1>1
<1>7. ASSUME ~s[n].begun PROVE Begun(s2, t)
  <2>1. \A i \in 1..m : at[i] \in 1..(n - 1)
    BY <1>3, <1>5, <1>7
  <2>2. at \in [1..m -> 1..(n - 1)]
    BY <2>1
  <2>3. \A i \in 1..m : t[i] = s2[at[i]] /\ s2[at[i]].begun
    BY <1>1, <1>3, <2>1
  <2>4. \A k \in 1..(n - 1) : s2[k].begun => \E i \in 1..m : at[i] = k
    BY <1>1, <1>3, <1>6
  <2>5. BegunAt(s2, n - 1, t, m, at)
    BY <1>3, <2>2, <2>3, <2>4 DEF BegunAt
  <2>6. BegunAt(s2, Len(s2), t, Len(t), at)
    BY <2>5, <1>1 DEF m
  <2> QED
    BY <2>6 DEF Begun
<1>8. ASSUME s[n].begun PROVE t # <<>> /\ Begun(s2, t2)
  <2>0. n \in 1..n
    BY <1>1
  <2>1. PICK last \in 1..m : at[last] = n
    BY <1>3, <1>8, <2>0
  <2>2. last = m /\ m # 0 /\ m \in 1..m
    <3>1. m \in 1..m /\ m # 0
      BY <1>2, <2>1
    <3>2. CASE last < m
      <4>1. at[last] < at[m] /\ at[m] \in 1..n
        BY <1>3, <2>1, <3>1, <3>2
      <4> QED
        BY <1>1, <2>1, <4>1
    <3> QED
      BY <1>2, <3>1, <3>2
  <2> DEFINE at2 == [i \in 1..(m - 1) |-> at[i]]
  <2>3. \A i \in 1..(m - 1) : i \in 1..m /\ i < m
    BY <1>2
  <2>4. \A i \in 1..(m - 1) : at[i] \in 1..(n - 1)
    <3> SUFFICES ASSUME NEW i \in 1..(m - 1) PROVE at[i] \in 1..(n - 1)
      OBVIOUS
    <3>1. at[i] < at[m] /\ at[i] \in 1..n
      BY <1>3, <2>2, <2>3
    <3> QED
      BY <1>1, <2>1, <2>2, <3>1
  <2>5. at2 \in [1..(m - 1) -> 1..(n - 1)] /\ \A i \in 1..(m - 1) : at2[i] = at[i]
    BY <2>4
  <2> HIDE DEF at2
  <2>6. \A i, j \in 1..(m - 1) : i < j => at2[i] < at2[j]
    BY <1>3, <2>3, <2>5
  <2>7. \A i \in 1..(m - 1) : t2[i] = s2[at2[i]] /\ s2[at2[i]].begun
    <3> SUFFICES ASSUME NEW i \in 1..(m - 1) PROVE t2[i] = s2[at2[i]] /\ s2[at2[i]].begun
      OBVIOUS
    <3>1. t2[i] = t[i] /\ at2[i] = at[i] /\ at[i] \in 1..(n - 1) /\ i \in 1..m
      BY <1>4, <2>2, <2>3, <2>4, <2>5
    <3>2. s2[at[i]] = s[at[i]]
      BY <1>1, <3>1
    <3> QED
      BY <1>3, <3>1, <3>2
  <2>8. \A k \in 1..(n - 1) : s2[k].begun => \E i \in 1..(m - 1) : at2[i] = k
    <3> SUFFICES ASSUME NEW k \in 1..(n - 1), s2[k].begun PROVE \E i \in 1..(m - 1) : at2[i] = k
      OBVIOUS
    <3>1. PICK i \in 1..m : at[i] = k
      BY <1>1, <1>3, <1>6
    <3>2. i # m
      BY <1>6, <2>1, <2>2, <3>1
    <3>3. i \in 1..(m - 1)
      BY <1>2, <3>2
    <3> QED
      BY <2>5, <3>1, <3>3
  <2>9. BegunAt(s2, n - 1, t2, m - 1, at2)
    BY <2>5, <2>6, <2>7, <2>8 DEF BegunAt
  <2>10. BegunAt(s2, Len(s2), t2, Len(t2), at2)
    BY <1>1, <1>4, <2>2, <2>9
  <2> QED
    BY <1>4, <2>2, <2>10 DEF Begun
<1> QED
  BY <1>7, <1>8 DEF s2, t2, n

\* A slice opens: trace_lb_entry().
LEMMA ShowsBegin ==
  ASSUME NEW o \in Seq(SliceSet), NEW u, NEW t \in Seq(Frame), NEW fr \in Frame,
         Shows(o, u, t), fr.id \notin u
  PROVE  Shows(Append(o, SliceOf(fr)), u, Append(t, fr))
<1> DEFINE o2 == Append(o, SliceOf(fr))
           t2 == Append(t, fr)
           n == Len(t)
           l == Len(o)
<1>0. SliceOf(fr) \in SliceSet
  BY DEF SliceOf, SliceSet, Frame
<1>1. n \in Nat /\ Len(t2) = n + 1 /\ t2[n + 1] = fr /\ \A i \in 1..n : t2[i] = t[i]
  BY AppendProperties
<1>2. l \in Nat /\ Len(o2) = l + 1 /\ o2[l + 1] = SliceOf(fr) /\ \A i \in 1..l : o2[i] = o[i]
  BY <1>0, AppendProperties
<1>3. PICK m : ShowsAt(o, l, u, t, n, m)
  BY DEF Shows
<1> HIDE DEF o2, t2, n, l
<1>4. m \in 0..(n + 1) /\ l + 1 = (n + 1) - m /\ m + (l + 1) = n + 1 /\ m \in Nat /\ m <= n
  BY <1>1, <1>2, <1>3 DEF ShowsAt
<1>5. ASSUME NEW i \in 1..(l + 1) PROVE o2[i] = SliceOf(t2[m + i])
  <2>1. CASE i = l + 1
    BY <1>1, <1>2, <1>4, <2>1
  <2>2. CASE i # l + 1
    <3>1. i \in 1..l /\ m + i \in 1..n
      BY <1>1, <1>2, <1>4, <2>2
    <3> QED
      BY <1>1, <1>2, <1>3, <3>1 DEF ShowsAt
  <2> QED
    BY <2>1, <2>2
<1>6. ASSUME NEW i \in 1..(n + 1) PROVE t2[i].id \in u <=> i <= m
  <2>1. CASE i = n + 1
    BY <1>1, <1>4, <2>1
  <2>2. CASE i # n + 1
    <3>1. i \in 1..n
      BY <1>1, <2>2
    <3> QED
      BY <1>1, <1>3, <3>1 DEF ShowsAt
  <2> QED
    BY <2>1, <2>2
<1>7. ShowsAt(o2, l + 1, u, t2, n + 1, m)
  BY <1>4, <1>5, <1>6 DEF ShowsAt
<1>8. ShowsAt(o2, Len(o2), u, t2, Len(t2), m)
  BY <1>1, <1>2, <1>7
<1> QED
  BY <1>8 DEF Shows, o2, t2

\* The innermost slice closes: trace_lb_exit().
LEMMA ShowsEnd ==
  ASSUME NEW o \in Seq(SliceSet), NEW u, NEW t \in Seq(Frame), t # <<>>, Shows(o, u, t)
  PROVE  Shows(IF o = <<>> THEN o ELSE SubSeq(o, 1, Len(o) - 1), u, SubSeq(t, 1, Len(t) - 1))
<1> DEFINE o2 == SubSeq(o, 1, Len(o) - 1)
           t2 == SubSeq(t, 1, Len(t) - 1)
           n == Len(t)
           l == Len(o)
<1>1. n \in Nat /\ n # 0 /\ Len(t2) = n - 1 /\ \A i \in 1..(n - 1) : t2[i] = t[i]
  BY FrontOfSeq
<1>2. PICK m : ShowsAt(o, l, u, t, n, m)
  BY DEF Shows
<1>3. CASE o = <<>>
  <2>0. l = 0
    BY <1>3
  <2> HIDE DEF t2, n, l
  <2>1. m = n
    BY <1>1, <1>2, <2>0 DEF ShowsAt
  <2>2. \A i \in 1..(n - 1) : i \in 1..n /\ i <= n - 1
    BY <1>1
  <2>3. \A i \in 1..(n - 1) : t2[i].id \in u <=> i <= n - 1
    BY <1>1, <1>2, <2>1, <2>2 DEF ShowsAt
  <2>4. n - 1 \in 0..(n - 1) /\ 0 = (n - 1) - (n - 1) /\ 1..0 = {}
    BY <1>1
  <2>5. ShowsAt(o, 0, u, t2, n - 1, n - 1)
    BY <2>3, <2>4 DEF ShowsAt
  <2>6. ShowsAt(o, Len(o), u, t2, Len(t2), n - 1)
    BY <1>1, <2>0, <2>5 DEF l
  <2> QED
    BY <1>3, <2>6 DEF Shows, t2
<1>4. CASE o # <<>>
  <2>1. l \in Nat /\ l # 0 /\ Len(o2) = l - 1 /\ \A i \in 1..(l - 1) : o2[i] = o[i]
    BY <1>4, FrontOfSeq
  <2> HIDE DEF o2, t2, n, l
  <2>2. m \in 0..(n - 1) /\ l - 1 = (n - 1) - m /\ m \in Nat
    BY <1>1, <1>2, <2>1 DEF ShowsAt
  <2>3. ASSUME NEW i \in 1..(l - 1) PROVE o2[i] = SliceOf(t2[m + i])
    <3>1. i \in 1..l /\ m + i \in 1..(n - 1)
      BY <1>1, <2>1, <2>2
    <3> QED
      BY <1>1, <1>2, <2>1, <3>1 DEF ShowsAt
  <2>4. ASSUME NEW i \in 1..(n - 1) PROVE t2[i].id \in u <=> i <= m
    <3>1. i \in 1..n
      BY <1>1
    <3> QED
      BY <1>1, <1>2, <3>1 DEF ShowsAt
  <2>5. ShowsAt(o2, l - 1, u, t2, n - 1, m)
    BY <2>2, <2>3, <2>4 DEF ShowsAt
  <2>6. ShowsAt(o2, Len(o2), u, t2, Len(t2), m)
    BY <1>1, <2>1, <2>5
  <2> QED
    BY <1>4, <2>6 DEF Shows, o2, t2
<1> QED
  BY <1>3, <1>4

\* Without a slice all of t was handled before the session.
LEMMA ShowsNone ==
  ASSUME NEW u, NEW t \in Seq(Frame)
  PROVE  Shows(<<>>, u, t) <=> \A i \in 1..Len(t) : t[i].id \in u
<1>1. PICK n : n = Len(t)
  OBVIOUS
<1>2. n \in Nat /\ Len(<<>>) = 0 /\ 1..0 = {}
  BY <1>1
<1>3. ASSUME Shows(<<>>, u, t) PROVE \A i \in 1..n : t[i].id \in u
  <2>1. PICK m : ShowsAt(<<>>, 0, u, t, n, m)
    BY <1>1, <1>2, <1>3 DEF Shows
  <2>2. m = n
    BY <1>2, <2>1 DEF ShowsAt
  <2>3. \A i \in 1..n : i <= n
    BY <1>2
  <2> QED
    BY <2>1, <2>2, <2>3 DEF ShowsAt
<1>4. ASSUME \A i \in 1..n : t[i].id \in u PROVE Shows(<<>>, u, t)
  <2>1. n \in 0..n /\ 0 = n - n /\ \A i \in 1..n : i <= n
    BY <1>2
  <2>2. ShowsAt(<<>>, 0, u, t, n, n)
    BY <1>2, <1>4, <2>1 DEF ShowsAt
  <2> QED
    BY <1>1, <1>2, <2>2 DEF Shows
<1> QED
  BY <1>1, <1>3, <1>4

\* Records that differ in their readings alone lead the same way.
LEMMA PathSame ==
  ASSUME NEW c, NEW r, NEW r2, NEW t, NEW t2, Path(c, r, t, t2), Len(r2) = Len(r),
         \A k \in 1..Len(r) :
           /\ r2[k].this_cpu = r[k].this_cpu /\ (r2[k].entry <=> r[k].entry)
           /\ r2[k].phase = r[k].phase /\ r2[k].id = r[k].id
           /\ r[k].entry => r2[k].lb_cpu = r[k].lb_cpu
  PROVE  Path(c, r2, t, t2)
<1>1. PICK T \in [1..(Len(r) + 1) -> Seq(Frame)] :
        /\ T[1] = t /\ T[Len(r) + 1] = t2
        /\ \A n \in 1..Len(r) : Step(c, r[n], T[n], T[n + 1])
  BY DEF Path
<1>2. ASSUME NEW n \in 1..Len(r) PROVE Step(c, r2[n], T[n], T[n + 1])
  <2>1. Step(c, r[n], T[n], T[n + 1])
    BY <1>1
  <2> QED
    BY <2>1 DEF Step
<1> QED
  BY <1>1, <1>2 DEF Path

\* The number of a call that has just begun is its own.
LEMMA IdsBegin ==
  ASSUME MapInv, IdsOK, NEW c \in Cpus, prog[c] = Idle, NEW h \in Records,
         h.this_cpu = c, h.done = FALSE, Begin(c, h), ring' = ring, unseen' = unseen,
         ncalls' \in Nat, ncalls <= ncalls', h.entry => h.id = ncalls' /\ ncalls < ncalls'
  PROVE  IdsOK'
<1>1. /\ prog'[c] # Idle /\ prog'[c].stage = "begun" /\ prog'[c].e = h
      /\ \A d \in Cpus : d # c => prog'[d] = prog[d]
  BY BeginTypes DEF MapInv
<1>2. Fresh(prog'[c]) <=> h.entry
  BY <1>1 DEF Fresh, Started
<1>3. ncalls \in Nat /\ (\A u \in unseen : u \in Nat /\ u <= ncalls)
  BY DEF MapInv, LbTypeOK, IdsOK
<1>4. \A k \in 1..Len(ring) : ring[k].id \in Nat /\ (ring[k].entry => ring[k].id <= ncalls)
  <2>1. \A k \in 1..Len(ring) : ring[k] \in Records
    BY DEF MapInv, LbTypeOK
  <2> QED
    BY <2>1, RecordFields DEF IdsOK
<1>5. \A d \in Cpus : Fresh(prog[d]) => prog[d].e.id \in Nat /\ prog[d].e.id <= ncalls
  <2>1. \A d \in Cpus : Fresh(prog[d]) => prog[d].e \in Records
    BY ProgFields DEF MapInv, Fresh, Started
  <2> QED
    BY <2>1, RecordFields DEF IdsOK
<1>6. \A u \in unseen : u \in Nat /\ u <= ncalls'
  BY <1>3
<1>7. \A k \in 1..Len(ring) : ring[k].entry => ring[k].id <= ncalls' /\ ring[k].id \notin unseen
  BY <1>3, <1>4 DEF IdsOK
<1>8. ASSUME NEW d \in Cpus, Fresh(prog'[d]) PROVE prog'[d].e.id <= ncalls' /\ prog'[d].e.id \notin unseen
  <2>1. CASE d = c
    BY <1>1, <1>2, <1>3, <1>8, <2>1
  <2>2. CASE d # c
    BY <1>1, <1>3, <1>5, <1>8, <2>2 DEF IdsOK
  <2> QED
    BY <2>1, <2>2
<1>9. ASSUME NEW a \in Cpus, NEW d \in Cpus, Fresh(prog'[a]), Fresh(prog'[d]), a # d
      PROVE  prog'[a].e.id # prog'[d].e.id
  <2>1. CASE a = c
    BY <1>1, <1>2, <1>3, <1>5, <1>9, <2>1
  <2>2. CASE d = c
    BY <1>1, <1>2, <1>3, <1>5, <1>9, <2>2
  <2>3. CASE a # c /\ d # c
    BY <1>1, <1>9, <2>3 DEF IdsOK
  <2> QED
    BY <2>1, <2>2, <2>3
<1>10. ASSUME NEW d \in Cpus, NEW k \in 1..Len(ring), Fresh(prog'[d]), ring[k].entry
       PROVE  prog'[d].e.id # ring[k].id
  <2>1. CASE d = c
    BY <1>1, <1>2, <1>3, <1>4, <1>10, <2>1
  <2>2. CASE d # c
    BY <1>1, <1>10, <2>2 DEF IdsOK
  <2> QED
    BY <2>1, <2>2
<1> QED
  BY <1>6, <1>7, <1>8, <1>9, <1>10 DEF IdsOK

\* No number is new.
LEMMA IdsSame ==
  ASSUME IdsOK, unseen' = unseen, ncalls' = ncalls, Len(ring') = Len(ring),
         \A k \in 1..Len(ring) : (ring'[k].entry <=> ring[k].entry) /\ ring'[k].id = ring[k].id,
         \A d \in Cpus : Fresh(prog'[d]) => Fresh(prog[d]) /\ prog'[d] = prog[d]
  PROVE  IdsOK'
<1>1. \A u \in unseen : u \in Nat /\ u <= ncalls
  BY DEF IdsOK
<1>2. \A k \in 1..Len(ring) : ring'[k].entry => ring'[k].id <= ncalls /\ ring'[k].id \notin unseen
  BY DEF IdsOK
<1>3. ASSUME NEW k \in 1..Len(ring), NEW n \in 1..Len(ring), ring'[k].entry, ring'[n].entry, k # n
      PROVE  ring'[k].id # ring'[n].id
  BY <1>3 DEF IdsOK
<1>4. \A d \in Cpus : Fresh(prog'[d]) => prog'[d].e.id <= ncalls /\ prog'[d].e.id \notin unseen
  BY DEF IdsOK
<1>5. ASSUME NEW a \in Cpus, NEW d \in Cpus, Fresh(prog'[a]), Fresh(prog'[d]), a # d
      PROVE  prog'[a].e.id # prog'[d].e.id
  BY <1>5 DEF IdsOK
<1>6. ASSUME NEW d \in Cpus, NEW k \in 1..Len(ring), Fresh(prog'[d]), ring'[k].entry
      PROVE  prog'[d].e.id # ring'[k].id
  BY <1>6 DEF IdsOK
<1> QED
  BY <1>1, <1>2, <1>3, <1>4, <1>5, <1>6 DEF IdsOK

\* The number of a call goes from its program to the ring.
LEMMA IdsReserve ==
  ASSUME MapInv, IdsOK, NEW c \in Cpus, Reserve(c)
  PROVE  IdsOK'
<1> DEFINE L == Len(ring)
<1>1. /\ Started(prog[c]) /\ prog[c].e \in Records /\ ~Fresh(prog'[c])
      /\ \A d \in Cpus : d # c => prog'[d] = prog[d]
      /\ ring' = ring \/ ring' = Append(ring, prog[c].e)
  BY ReserveTypes DEF MapInv, Fresh, Started, Reserved
<1>2. unseen' = unseen /\ ncalls' = ncalls /\ ring \in Seq(Records) /\ L \in Nat
  BY DEF Reserve, traceVars, MapInv, LbTypeOK
<1>3. \A d \in Cpus : Fresh(prog'[d]) => d # c /\ Fresh(prog[d]) /\ prog'[d] = prog[d]
  BY <1>1
<1>4. CASE ring' = ring
  BY <1>2, <1>3, <1>4, IdsSame
<1>5. CASE ring' = Append(ring, prog[c].e)
  <2>1. /\ Len(ring') = L + 1 /\ ring'[L + 1] = prog[c].e
        /\ \A k \in 1..L : ring'[k] = ring[k]
    BY <1>1, <1>2, <1>5, AppendProperties
  <2> HIDE DEF L
  <2>2. \A k \in 1..Len(ring') : k = L + 1 \/ (k \in 1..L /\ ring'[k] = ring[k])
    BY <1>2, <2>1
  <2>3. prog[c].e.entry => Fresh(prog[c])
    BY <1>1 DEF Fresh
  <2>4. ASSUME NEW k \in 1..Len(ring'), ring'[k].entry
        PROVE  ring'[k].id <= ncalls /\ ring'[k].id \notin unseen
    BY <2>1, <2>2, <2>3, <2>4 DEF IdsOK, L
  <2>5. ASSUME NEW k \in 1..Len(ring'), NEW n \in 1..Len(ring'), ring'[k].entry, ring'[n].entry, k # n
        PROVE  ring'[k].id # ring'[n].id
    <3>1. CASE k = L + 1
      <4>1. n \in 1..L /\ ring'[n] = ring[n] /\ Fresh(prog[c])
        BY <2>1, <2>2, <2>3, <2>5, <3>1
      <4> QED
        BY <2>1, <2>5, <3>1, <4>1 DEF IdsOK, L
    <3>2. CASE n = L + 1
      <4>1. k \in 1..L /\ ring'[k] = ring[k] /\ Fresh(prog[c])
        BY <2>1, <2>2, <2>3, <2>5, <3>2
      <4> QED
        BY <2>1, <2>5, <3>2, <4>1 DEF IdsOK, L
    <3>3. CASE k # L + 1 /\ n # L + 1
      BY <2>2, <2>5, <3>3 DEF IdsOK, L
    <3> QED
      BY <3>1, <3>2, <3>3
  <2>6. ASSUME NEW d \in Cpus, NEW k \in 1..Len(ring'), Fresh(prog'[d]), ring'[k].entry
        PROVE  prog'[d].e.id # ring'[k].id
    <3>1. d # c /\ Fresh(prog[d]) /\ prog'[d] = prog[d]
      BY <1>3, <2>6
    <3>2. CASE k = L + 1
      BY <2>1, <2>3, <2>6, <3>1, <3>2 DEF IdsOK
    <3>3. CASE k # L + 1
      BY <2>2, <2>6, <3>1, <3>3 DEF IdsOK, L
    <3> QED
      BY <3>2, <3>3
  <2>7. \A d \in Cpus : Fresh(prog'[d]) => prog'[d].e.id <= ncalls /\ prog'[d].e.id \notin unseen
    BY <1>3 DEF IdsOK
  <2>8. ASSUME NEW a \in Cpus, NEW d \in Cpus, Fresh(prog'[a]), Fresh(prog'[d]), a # d
        PROVE  prog'[a].e.id # prog'[d].e.id
    BY <1>3, <2>8 DEF IdsOK
  <2>9. \A u \in unseen : u \in Nat /\ u <= ncalls
    BY DEF IdsOK
  <2> QED
    BY <1>2, <2>4, <2>5, <2>6, <2>7, <2>8, <2>9 DEF IdsOK
<1> QED
  BY <1>1, <1>4, <1>5

\* Submitting keeps the numbers.
LEMMA IdsSubmit ==
  ASSUME MapInv, IdsOK, NEW c \in Cpus, NEW r \in Readings, NEW stale \in Cpus, Submit(c, r, stale)
  PROVE  IdsOK'
<1>1. /\ Len(ring') = Len(ring)
      /\ \A k \in 1..Len(ring) : (ring'[k].entry <=> ring[k].entry) /\ ring'[k].id = ring[k].id
  BY SubmitKnown DEF MapInv
<1>2. unseen' = unseen /\ ncalls' = ncalls /\ prog' = [prog EXCEPT ![c] = Idle]
  BY DEF Submit, traceVars
<1>3. \A d \in Cpus : Fresh(prog'[d]) => Fresh(prog[d]) /\ prog'[d] = prog[d]
  BY <1>2 DEF MapInv, LbTypeOK, Fresh, Started
<1> QED
  BY <1>1, <1>2, <1>3, IdsSame

\* A number leaves the ring, or moves to unseen.
LEMMA IdsHandle ==
  ASSUME MapInv, IdsOK, Handle
  PROVE  IdsOK'
<1> DEFINE L == Len(ring)
<1>1. /\ prog' = prog /\ ncalls' = ncalls /\ L \in Nat /\ L # 0 /\ Len(ring') = L - 1
      /\ Head(ring) = ring[1] /\ ring[1] \in Records
      /\ \A k \in 1..(L - 1) : ring'[k] = ring[k + 1]
  BY HandleTypes DEF MapInv, Handle
<1>2. unseen' = unseen \/ (ring[1].entry /\ unseen' = unseen \cup {ring[1].id})
  BY <1>1 DEF Handle
<1>3. \A k \in 1..Len(ring') : k + 1 \in 1..L /\ k + 1 # 1 /\ ring'[k] = ring[k + 1]
  BY <1>1
<1>4. 1 \in 1..L /\ ring[1].id \in Nat
  BY <1>1, RecordFields
<1>5. \A u \in unseen' : u \in Nat /\ u <= ncalls
  BY <1>2, <1>4 DEF IdsOK
<1>6. \A k \in 1..Len(ring') : ring'[k].entry => ring'[k].id <= ncalls /\ ring'[k].id \notin unseen'
  BY <1>2, <1>3, <1>4 DEF IdsOK
<1>7. ASSUME NEW k \in 1..Len(ring'), NEW n \in 1..Len(ring'), ring'[k].entry, ring'[n].entry, k # n
      PROVE  ring'[k].id # ring'[n].id
  <2>1. k + 1 # n + 1
    BY <1>1, <1>7
  <2> QED
    BY <1>3, <1>7, <2>1 DEF IdsOK
<1>8. \A c \in Cpus : Fresh(prog[c]) => prog[c].e.id <= ncalls /\ prog[c].e.id \notin unseen'
  BY <1>2, <1>4 DEF IdsOK
<1>9. ASSUME NEW c \in Cpus, NEW k \in 1..Len(ring'), Fresh(prog[c]), ring'[k].entry
      PROVE  prog[c].e.id # ring'[k].id
  BY <1>3, <1>9 DEF IdsOK
<1>10. \A c, d \in Cpus : Fresh(prog[c]) /\ Fresh(prog[d]) /\ c # d => prog[c].e.id # prog[d].e.id
  BY DEF IdsOK
<1> QED
  BY <1>1, <1>5, <1>6, <1>7, <1>8, <1>9, <1>10 DEF IdsOK

\* Calls that leave no record only use up numbers.
LEMMA IdsPass ==
  ASSUME MapInv, IdsOK, UNCHANGED <<prog, ring, unseen>>, ncalls' \in Nat, ncalls <= ncalls'
  PROVE  IdsOK'
<1>1. ncalls \in Nat
  BY DEF MapInv, LbTypeOK
<1>2. \A k \in 1..Len(ring) : ring[k].id \in Nat
  <2>1. \A k \in 1..Len(ring) : ring[k] \in Records
    BY DEF MapInv, LbTypeOK
  <2> QED
    BY <2>1, RecordFields
<1>3. \A d \in Cpus : Fresh(prog[d]) => prog[d].e.id \in Nat
  <2>1. \A d \in Cpus : Fresh(prog[d]) => prog[d].e \in Records
    BY ProgFields DEF MapInv, Fresh, Started
  <2> QED
    BY <2>1, RecordFields
<1>4. \A u \in unseen : u \in Nat /\ u <= ncalls'
  BY <1>1 DEF IdsOK
<1>5. \A k \in 1..Len(ring) : ring[k].entry => ring[k].id <= ncalls' /\ ring[k].id \notin unseen
  BY <1>1, <1>2 DEF IdsOK
<1>6. \A d \in Cpus : Fresh(prog[d]) => prog[d].e.id <= ncalls' /\ prog[d].e.id \notin unseen
  BY <1>1, <1>3 DEF IdsOK
<1> QED
  BY <1>4, <1>5, <1>6, Zenon DEF IdsOK

\* A call begins.
LEMMA EnterKeepsNest ==
  ASSUME NestInv, MapInv', NEW c \in Cpus, NEW lb \in Cpus, NEW f \in PhaseSet, Enter(c, f, lb)
  PROVE  NestInv'
<1>1. PICK fr : fr = [f |-> f, lb |-> lb, id |-> ncalls + 1, begun |-> EntryOn(f), hooked |-> ExitOn(f)]
  OBVIOUS
<1>2. PICK e : e = Header(c, f, lb, TRUE, ncalls + 1)
  OBVIOUS
<1>3. /\ ncalls' = ncalls + 1 /\ calls' = [calls EXCEPT ![c] = Append(@, fr)] /\ prog[c] = Idle
      /\ UNCHANGED <<ring, lost, unpaired, tracing, open, unseen>> /\ ncalls \in Nat
  BY <1>1 DEF Enter, NestInv, MapInv, LbTypeOK, traceVars
<1>4. EntryOn(f) \in BOOLEAN /\ ExitOn(f) \in BOOLEAN
  BY DEF EntryOn, ExitOn
<1>5. fr \in Frame /\ fr.f = f /\ fr.lb = lb /\ fr.id = ncalls + 1 /\ fr.begun = EntryOn(f)
  BY <1>1, <1>3, <1>4 DEF Frame
<1>6. /\ e \in Records /\ e.this_cpu = c /\ e.entry /\ e.phase = f /\ e.lb_cpu = lb
      /\ e.id = ncalls + 1 /\ e.done = FALSE
  <2>1. ncalls + 1 \in Nat \ {0}
    BY <1>3
  <2> QED
    BY <1>2, <2>1, EntryHeader DEF Header
<1>7. calls \in [Cpus -> Seq(Frame)] /\ calls[c] \in Seq(Frame)
  BY DEF NestInv, MapInv, LbTypeOK
<1>8. /\ calls'[c] = Append(calls[c], fr)
      /\ \A d \in Cpus : d # c => calls'[d] = calls[d]
  BY <1>3, <1>5, <1>7
<1>9. \/ ~EntryOn(f) /\ prog' = prog
      \/ EntryOn(f) /\ Begin(c, e)
  BY <1>2, <1>3 DEF Enter
<1>10. Begin(c, e) => /\ Started(prog'[c]) /\ prog'[c].e = e
                      /\ \A d \in Cpus : d # c => prog'[d] = prog[d]
  BY <1>3, <1>6, BeginTypes DEF NestInv, MapInv, Started
<1>11. IdsOK'
  <2>1. ncalls' \in Nat /\ ncalls <= ncalls' /\ ncalls < ncalls' /\ e.id = ncalls'
    BY <1>3, <1>6
  <2>2. CASE prog' = prog
    BY <1>3, <2>1, <2>2, IdsPass DEF NestInv
  <2>3. CASE Begin(c, e)
    BY <1>3, <1>6, <2>1, <2>3, IdsBegin DEF NestInv
  <2> QED
    BY <1>9, <2>2, <2>3
<1>12. ASSUME NEW d \in Cpus \ (lost \cup unpaired)
       PROVE  SlicesOf(d, prog'[d], ring, open[d], unseen, calls'[d])
  <2>1. PICK t \in Seq(Frame), t2 \in Seq(Frame), t3 \in Seq(Frame) :
          Path(d, ring, t, t2) /\ Shows(open[d], unseen, t) /\ Pend(d, prog[d], t2, t3) /\ Begun(calls[d], t3)
    BY DEF NestInv, SlicesOf
  <2>2. CASE d # c
    <3>1. prog'[d] = prog[d] /\ calls'[d] = calls[d]
      BY <1>8, <1>9, <1>10, <2>2
    <3> QED
      BY <2>1, <3>1 DEF SlicesOf
  <2>3. d = c => t3 = t2
    BY <1>3, <2>1 DEF Pend, Started
  <2>4. CASE d = c /\ ~EntryOn(f)
    <3>1. Begun(calls'[d], t2)
      BY <1>5, <1>7, <1>8, <2>1, <2>3, <2>4, BegunPush, ZenonT(60)
    <3>2. Pend(d, prog'[d], t2, t2)
      BY <1>3, <1>9, <2>4 DEF Pend, Started
    <3> QED
      BY <2>1, <3>1, <3>2 DEF SlicesOf
  <2>5. CASE d = c /\ EntryOn(f)
    <3>1. Step(d, e, t2, Append(t2, fr)) /\ Append(t2, fr) \in Seq(Frame)
      BY <1>5, <1>6, <2>5 DEF Step
    <3>2. Pend(d, prog'[d], t2, Append(t2, fr))
      BY <1>9, <1>10, <2>5, <3>1 DEF Pend
    <3>3. Begun(calls'[d], Append(t2, fr))
      BY <1>5, <1>7, <1>8, <2>1, <2>3, <2>5, BegunPush, ZenonT(60)
    <3> QED
      BY <2>1, <3>1, <3>2, <3>3 DEF SlicesOf
  <2> QED
    BY <2>2, <2>4, <2>5
<1>13. open \in [Cpus -> Seq(SliceSet)] /\ (~tracing => \A d \in Cpus : open[d] = <<>>)
  BY DEF NestInv
<1> QED
  BY <1>3, <1>11, <1>12, <1>13 DEF NestInv

\* A call returns.  lb_map has an entry for it, so that its exit program runs.
LEMMA ReturnKeepsNest ==
  ASSUME NestInv, MapInv', NEW c \in Cpus, Return(c)
  PROVE  NestInv'
<1>1. PICK s : s = calls[c]
  OBVIOUS
<1>2. PICK fr : fr = s[Len(s)]
  OBVIOUS
<1>3. /\ s \in Seq(Frame) /\ s # <<>> /\ calls \in [Cpus -> Seq(Frame)] /\ ncalls \in Nat
      /\ prog[c] = Idle
  BY <1>1 DEF Return, NestInv, MapInv, LbTypeOK
<1>4. Len(s) \in 1..Len(s) /\ fr \in Frame
  BY <1>2, <1>3
<1>5. /\ fr.f \in PhaseSet /\ (fr.hooked => fr.begun) /\ fr.lb \in Cpus /\ fr.id \in Nat \ {0}
      /\ fr.begun \in BOOLEAN /\ fr.hooked \in BOOLEAN
  BY <1>1, <1>2, <1>4 DEF NestInv, MapInv, CallsOK, Frame
<1>6. /\ calls' = [calls EXCEPT ![c] = SubSeq(s, 1, Len(s) - 1)]
      /\ UNCHANGED <<ncalls, ring, lost, tracing, open, unseen>>
  BY <1>1 DEF Return, traceVars
<1>7. /\ calls'[c] = SubSeq(s, 1, Len(s) - 1)
      /\ \A d \in Cpus : d # c => calls'[d] = calls[d]
  BY <1>3, <1>6
<1>8. unpaired' = IF fr.begun /\ ~fr.hooked THEN unpaired \cup {c} ELSE unpaired
  BY <1>1, <1>2 DEF Return
<1>9. PICK e : e = Header(c, fr.f, c, FALSE, fr.id)
  OBVIOUS
<1>10. e \in Records /\ e.this_cpu = c /\ ~e.entry /\ e.done = FALSE
  BY <1>5, <1>9, ExitHeader DEF Header
<1>11. \/ ~fr.hooked /\ prog' = prog
       \/ fr.hooked /\ fr.f # "run_rebalance_domains" /\ lb_map[<<fr.f, c>>] = None /\ prog' = prog
       \/ fr.hooked /\ Begin(c, e)
  BY <1>1, <1>2, <1>5, <1>9 DEF Return, Key
<1>12. Begin(c, e) => /\ Started(prog'[c]) /\ prog'[c].e = e
                      /\ \A d \in Cpus : d # c => prog'[d] = prog[d]
  BY <1>3, <1>6, <1>10, BeginTypes DEF NestInv, MapInv, Started
<1>13. ASSUME c \notin unpaired, fr.hooked, fr.f # "run_rebalance_domains" PROVE lb_map[<<fr.f, c>>] # None
  <2>1. Entry(s, fr.f, lb_map[<<fr.f, c>>])
    BY <1>1, <1>5, <1>13, MapByEntry DEF NestInv, MapInv
  <2>2. lb_map[<<fr.f, c>>] = fr.lb
    BY <1>2, <1>4, <1>5, <1>13, <2>1 DEF Entry
  <2> QED
    BY <1>5, <2>2, LbAssumption DEF None
<1>14. IdsOK'
  <2>1. ncalls' \in Nat /\ ncalls <= ncalls'
    BY <1>3, <1>6
  <2>2. CASE prog' = prog
    BY <1>6, <2>1, <2>2, IdsPass DEF NestInv
  <2>3. CASE Begin(c, e)
    BY <1>3, <1>6, <1>10, <2>1, <2>3, IdsBegin DEF NestInv
  <2> QED
    BY <1>11, <2>2, <2>3
<1>15. ASSUME NEW d \in Cpus \ (lost \cup unpaired')
       PROVE  SlicesOf(d, prog'[d], ring, open[d], unseen, calls'[d])
  <2>1. d \in Cpus \ (lost \cup unpaired) /\ (d = c => (fr.begun <=> fr.hooked))
    BY <1>5, <1>8
  <2>2. PICK t \in Seq(Frame), t2 \in Seq(Frame), t3 \in Seq(Frame) :
          Path(d, ring, t, t2) /\ Shows(open[d], unseen, t) /\ Pend(d, prog[d], t2, t3) /\ Begun(calls[d], t3)
    BY <2>1 DEF NestInv, SlicesOf
  <2>3. CASE d # c
    <3>1. prog'[d] = prog[d] /\ calls'[d] = calls[d]
      BY <1>7, <1>11, <1>12, <2>3
    <3> QED
      BY <2>2, <3>1 DEF SlicesOf
  <2>4. d = c => t3 = t2
    BY <1>3, <2>2 DEF Pend, Started
  <2>5. CASE d = c /\ ~fr.hooked
    <3>1. Begun(calls'[d], t2)
      BY <1>1, <1>2, <1>3, <1>7, <2>1, <2>2, <2>4, <2>5, BegunPop
    <3>2. Pend(d, prog'[d], t2, t2)
      BY <1>3, <1>11, <2>5 DEF Pend, Started
    <3> QED
      BY <2>2, <3>1, <3>2 DEF SlicesOf
  <2>6. CASE d = c /\ fr.hooked
    <3>1. Begin(c, e)
      BY <1>11, <1>13, <2>1, <2>6
    <3>2. t2 # <<>> /\ Begun(calls'[d], SubSeq(t2, 1, Len(t2) - 1))
      BY <1>1, <1>2, <1>3, <1>7, <2>1, <2>2, <2>4, <2>6, BegunPop
    <3>3. SubSeq(t2, 1, Len(t2) - 1) \in Seq(Frame)
      BY <3>2, FrontOfSeq
    <3>4. Step(d, e, t2, SubSeq(t2, 1, Len(t2) - 1))
      BY <1>10, <2>6, <3>2 DEF Step
    <3>5. Pend(d, prog'[d], t2, SubSeq(t2, 1, Len(t2) - 1))
      BY <1>12, <2>6, <3>1, <3>4 DEF Pend
    <3> QED
      BY <2>2, <3>2, <3>3, <3>5 DEF SlicesOf
  <2> QED
    BY <1>5, <2>3, <2>5, <2>6
<1>16. open \in [Cpus -> Seq(SliceSet)] /\ (~tracing => \A d \in Cpus : open[d] = <<>>)
  BY DEF NestInv
<1> QED
  BY <1>6, <1>14, <1>15, <1>16 DEF NestInv

\* A program takes its step in the ring, or its record is lost.
LEMMA ReserveKeepsNest ==
  ASSUME NestInv, MapInv', NEW c \in Cpus, Reserve(c)
  PROVE  NestInv'
<1>1. PICK e : e = prog[c].e
  OBVIOUS
<1>2. /\ Started(prog[c]) /\ e \in Records /\ ~Started(prog'[c]) /\ e.this_cpu = c
      /\ \A d \in Cpus : d # c => prog'[d] = prog[d]
      /\ \/ ring' = Append(ring, e) /\ lost' = lost
         \/ ring' = ring /\ lost' = lost \cup {c}
  <2>1. LbTypeOK /\ ProgOK
    BY DEF NestInv, MapInv
  <2>2. /\ prog[c] # Idle /\ prog[c].stage = "begun" /\ e \in Records
        /\ \A d \in Cpus : d # c => prog'[d] = prog[d]
        /\ \/ ring' = Append(ring, e) /\ lost' = lost /\ Reserved(prog'[c])
           \/ ring' = ring /\ lost' = lost \cup {c} /\ prog'[c] = Idle
    BY <1>1, <2>1, ReserveTypes
  <2> QED
    BY <1>1, <2>1, <2>2 DEF ProgOK, Reserved, Started
<1>3. UNCHANGED <<calls, unpaired, tracing, open, unseen>> /\ ring \in Seq(Records)
  BY DEF Reserve, traceVars, NestInv, MapInv, LbTypeOK
<1>4. IdsOK'
  BY IdsReserve DEF NestInv
<1>5. ASSUME NEW d \in Cpus \ (lost' \cup unpaired)
      PROVE  SlicesOf(d, prog'[d], ring', open[d], unseen, calls[d])
  <2>1. d \in Cpus \ (lost \cup unpaired)
    BY <1>2
  <2>2. PICK t \in Seq(Frame), t2 \in Seq(Frame), t3 \in Seq(Frame) :
          Path(d, ring, t, t2) /\ Shows(open[d], unseen, t) /\ Pend(d, prog[d], t2, t3) /\ Begun(calls[d], t3)
    BY <2>1 DEF NestInv, SlicesOf
  <2>3. CASE d = c
    <3>1. ring' = Append(ring, e)
      BY <1>2, <1>5, <2>3
    <3>2. Step(d, e, t2, t3)
      BY <1>1, <1>2, <2>2, <2>3 DEF Pend
    <3>3. Path(d, ring', t, t3)
      BY <1>2, <1>3, <2>2, <3>1, <3>2, PathAppend
    <3>4. Pend(d, prog'[d], t3, t3)
      BY <1>2, <2>3 DEF Pend
    <3> QED
      BY <2>2, <3>3, <3>4 DEF SlicesOf
  <2>4. CASE d # c
    <3>1. Path(d, ring', t, t2)
      <4>1. Step(d, e, t2, t2)
        BY <1>2, <2>4 DEF Step
      <4> QED
        BY <1>2, <1>3, <2>2, <4>1, PathAppend
    <3> QED
      BY <1>2, <2>2, <2>4, <3>1 DEF SlicesOf
  <2> QED
    BY <2>3, <2>4
<1>6. open \in [Cpus -> Seq(SliceSet)] /\ (~tracing => \A d \in Cpus : open[d] = <<>>)
  BY DEF NestInv
<1> QED
  BY <1>3, <1>4, <1>5, <1>6 DEF NestInv

\* What is filled in does not matter to the slices.
LEMMA SubmitKeepsNest ==
  ASSUME NestInv, MapInv', NEW c \in Cpus, NEW r \in Readings, NEW stale \in Cpus, Submit(c, r, stale)
  PROVE  NestInv'
<1>1. LbTypeOK /\ ProgOK
  BY DEF NestInv, MapInv
<1>2. /\ Len(ring') = Len(ring)
      /\ \A k \in 1..Len(ring) :
           /\ ring'[k].this_cpu = ring[k].this_cpu /\ (ring'[k].entry <=> ring[k].entry)
           /\ ring'[k].phase = ring[k].phase /\ ring'[k].id = ring[k].id
           /\ ring[k].entry => ring'[k].lb_cpu = ring[k].lb_cpu
  BY <1>1, SubmitKnown
<1>3. UNCHANGED <<calls, lost, unpaired, tracing, open, unseen>> /\ prog' = [prog EXCEPT ![c] = Idle]
      /\ prog[c].stage = "reserved"
  BY DEF Submit, traceVars
<1>4. ~Started(prog[c]) /\ ~Started(prog'[c]) /\ \A d \in Cpus : d # c => prog'[d] = prog[d]
  BY <1>1, <1>3 DEF LbTypeOK, Started
<1>5. IdsOK'
  BY IdsSubmit DEF NestInv
<1>6. ASSUME NEW d \in Cpus \ (lost \cup unpaired)
      PROVE  SlicesOf(d, prog'[d], ring', open[d], unseen, calls[d])
  <2>1. PICK t \in Seq(Frame), t2 \in Seq(Frame), t3 \in Seq(Frame) :
          Path(d, ring, t, t2) /\ Shows(open[d], unseen, t) /\ Pend(d, prog[d], t2, t3) /\ Begun(calls[d], t3)
    BY DEF NestInv, SlicesOf
  <2>2. Path(d, ring', t, t2)
    BY <1>2, <2>1, PathSame
  <2>3. Pend(d, prog'[d], t2, t3)
    BY <1>4, <2>1 DEF Pend
  <2> QED
    BY <2>1, <2>2, <2>3 DEF SlicesOf
<1>7. open \in [Cpus -> Seq(SliceSet)] /\ (~tracing => \A d \in Cpus : open[d] = <<>>)
  BY DEF NestInv
<1> QED
  BY <1>3, <1>5, <1>6, <1>7 DEF NestInv

\* The oldest record is handled, with a session or without one.
LEMMA HandleKeepsNest ==
  ASSUME NestInv, MapInv', Handle
  PROVE  NestInv'
<1>1. PICK e : e = Head(ring)
  OBVIOUS
<1>2. /\ ring # <<>> /\ ring' = Tail(ring) /\ ring \in Seq(Records)
      /\ UNCHANGED <<tracing, calls, prog, lost, unpaired>>
  BY DEF Handle, NestInv, MapInv, LbTypeOK
<1>3. /\ Len(ring) \in Nat /\ Len(ring) # 0 /\ Len(ring') = Len(ring) - 1
      /\ e \in Records /\ e = ring[1] /\ \A n \in 1..(Len(ring) - 1) : ring'[n] = ring[n + 1]
  <2>1. Len(ring) \in Nat /\ Len(ring) # 0
    BY <1>2, EmptySeq
  <2> QED
    BY <1>1, <1>2, <2>1, HeadTailProperties
<1>4. e.this_cpu \in Cpus /\ e.lb_cpu \in Cpus /\ e.phase \in PhaseSet /\ e.entry \in BOOLEAN /\ e.id \in Nat
  BY <1>3, RecordFields
<1>5. open \in [Cpus -> Seq(SliceSet)]
  BY DEF NestInv
<1>6. \/ tracing /\ unseen' = unseen /\ open' = [open EXCEPT ![e.this_cpu] = Slices(open[e.this_cpu], e)]
      \/ ~tracing /\ unseen' = (IF e.entry THEN unseen \cup {e.id} ELSE unseen) /\ open' = open
  BY <1>1 DEF Handle
<1>8. IdsOK'
  BY IdsHandle DEF NestInv
<1>9. open' \in [Cpus -> Seq(SliceSet)]
  <2>1. [f |-> e.phase, cpu |-> e.lb_cpu] \in SliceSet
    BY <1>4 DEF SliceSet
  <2>2. open[e.this_cpu] \in Seq(SliceSet)
    BY <1>4, <1>5
  <2>3. Slices(open[e.this_cpu], e) \in Seq(SliceSet)
    BY <2>1, <2>2, FrontOfSeq DEF Slices
  <2> QED
    BY <1>4, <1>5, <1>6, <2>3
<1>10. ~tracing' => \A c \in Cpus : open'[c] = <<>>
  BY <1>2, <1>6 DEF NestInv
<1>11. ASSUME NEW d \in Cpus \ (lost' \cup unpaired')
       PROVE  SlicesOf(d, prog'[d], ring', open'[d], unseen', calls'[d])
  <2>1. d \in Cpus \ (lost \cup unpaired) /\ calls'[d] = calls[d] /\ prog'[d] = prog[d]
    BY <1>2
  <2>2. PICK t \in Seq(Frame), t2 \in Seq(Frame), t3 \in Seq(Frame) :
          Path(d, ring, t, t2) /\ Shows(open[d], unseen, t) /\ Pend(d, prog[d], t2, t3) /\ Begun(calls[d], t3)
    BY <2>1 DEF NestInv, SlicesOf
  <2>3. PICK t1 \in Seq(Frame) : Step(d, e, t, t1) /\ Path(d, ring', t1, t2)
    BY <1>1, <1>2, <2>2, PathTail
  <2>4. Shows(open'[d], unseen', t1)
    <3>1. CASE tracing /\ e.this_cpu # d
      <4>1. t1 = t /\ open'[d] = open[d] /\ unseen' = unseen
        BY <1>5, <1>6, <2>3, <3>1 DEF Step
      <4> QED
        BY <2>2, <4>1
    <3>2. CASE tracing /\ e.this_cpu = d /\ e.entry
      <4>1. PICK fr \in Frame : t1 = Append(t, fr) /\ fr.f = e.phase /\ fr.lb = e.lb_cpu /\ fr.id = e.id
        BY <2>3, <3>2 DEF Step
      <4>2. open'[d] = Append(open[d], SliceOf(fr)) /\ unseen' = unseen
        BY <1>5, <1>6, <3>2, <4>1 DEF Slices, SliceOf
      <4>3. fr.id \notin unseen
        <5>1. 1 \in 1..Len(ring) /\ ring[1].entry
          BY <1>3, <3>2
        <5> QED
          BY <1>3, <4>1, <5>1 DEF NestInv, IdsOK
      <4>4. open[d] \in Seq(SliceSet)
        BY <1>5
      <4> QED
        BY <2>2, <4>1, <4>2, <4>3, <4>4, ShowsBegin
    <3>3. CASE tracing /\ e.this_cpu = d /\ ~e.entry
      <4>1. t # <<>> /\ t1 = SubSeq(t, 1, Len(t) - 1)
        BY <2>3, <3>3 DEF Step
      <4>2. /\ open'[d] = IF open[d] = <<>> THEN open[d] ELSE SubSeq(open[d], 1, Len(open[d]) - 1)
            /\ unseen' = unseen
        BY <1>5, <1>6, <3>3 DEF Slices
      <4>3. open[d] \in Seq(SliceSet)
        BY <1>5
      <4> QED
        BY <2>2, <4>1, <4>2, <4>3, ShowsEnd
    <3>4. CASE ~tracing
      <4>1. /\ open'[d] = <<>> /\ open[d] = <<>> /\ unseen \subseteq unseen'
            /\ e.entry => e.id \in unseen'
        BY <1>6, <3>4 DEF NestInv
      <4>2. \A i \in 1..Len(t) : t[i].id \in unseen
        BY <2>2, <4>1, ShowsNone
      <4>3. \A i \in 1..Len(t1) : t1[i].id \in unseen'
        <5>1. CASE e.this_cpu # d
          BY <2>3, <4>1, <4>2, <5>1 DEF Step
        <5>2. CASE e.this_cpu = d /\ e.entry
          <6>1. PICK fr \in Frame : t1 = Append(t, fr) /\ fr.id = e.id
            BY <2>3, <5>2 DEF Step
          <6>2. /\ Len(t) \in Nat /\ Len(t1) = Len(t) + 1 /\ t1[Len(t) + 1] = fr
                /\ \A i \in 1..Len(t) : t1[i] = t[i]
            BY <6>1, AppendProperties
          <6>3. \A i \in 1..Len(t1) : i # Len(t) + 1 => i \in 1..Len(t)
            BY <6>2
          <6>4. e.id \in unseen'
            BY <4>1, <5>2
          <6> QED
            BY <4>1, <4>2, <6>1, <6>2, <6>3, <6>4
        <5>3. CASE e.this_cpu = d /\ ~e.entry
          <6>1. t # <<>> /\ t1 = SubSeq(t, 1, Len(t) - 1)
            BY <2>3, <5>3 DEF Step
          <6>2. Len(t) \in Nat /\ Len(t1) = Len(t) - 1 /\ \A i \in 1..(Len(t) - 1) : t1[i] = t[i]
            BY <6>1, FrontOfSeq
          <6>3. \A i \in 1..(Len(t) - 1) : i \in 1..Len(t)
            BY <6>2
          <6> QED
            BY <4>1, <4>2, <6>2, <6>3
        <5> QED
          BY <1>4, <5>1, <5>2, <5>3
      <4> QED
        BY <4>1, <4>3, ShowsNone
    <3> QED
      BY <1>4, <3>1, <3>2, <3>3, <3>4
  <2> QED
    BY <2>1, <2>2, <2>3, <2>4 DEF SlicesOf
<1> QED
  BY <1>8, <1>9, <1>10, <1>11 DEF NestInv

\* No step breaks NestInv.
LEMMA NestInductive == NestInv /\ [Next]_vars => NestInv'
<1> SUFFICES ASSUME NestInv, [Next]_vars PROVE NestInv'
  OBVIOUS
<1>1. MapInv'
  BY MapInductive DEF NestInv
<1>2. ASSUME NEW c \in Cpus, NEW lb \in Cpus, NEW f \in PhaseSet, Enter(c, f, lb)
      PROVE  NestInv'
  BY <1>1, <1>2, EnterKeepsNest
<1>3. ASSUME NEW c \in Cpus, Return(c) PROVE NestInv'
  BY <1>1, <1>3, ReturnKeepsNest
<1>6. ASSUME NEW c \in Cpus, Reserve(c) PROVE NestInv'
  BY <1>1, <1>6, ReserveKeepsNest
<1>7. ASSUME NEW c \in Cpus, NEW r \in Readings, NEW stale \in Cpus, Submit(c, r, stale) PROVE NestInv'
  BY <1>1, <1>7, SubmitKeepsNest
<1>4. CASE Handle
  BY <1>1, <1>4, HandleKeepsNest
<1>5. CASE Attach \/ StartTrace \/ UNCHANGED vars
  <2>1. UNCHANGED <<calls, prog, ring, open, unseen, lost, unpaired, ncalls>> /\ (~tracing' => ~tracing)
    BY <1>5 DEF Attach, StartTrace, vars, traceVars
  <2> QED
    BY <1>1, <2>1 DEF NestInv, IdsOK
<1> QED
  BY <1>2, <1>3, <1>4, <1>5, <1>6, <1>7 DEF Next

\* Nothing is open and nothing runs.
LEMMA NestInit == Init => NestInv
<1> SUFFICES ASSUME Init PROVE NestInv
  OBVIOUS
<1>1. MapInv
  BY MapInit
<1>2. ring = <<>> /\ unseen = {}
      /\ \A c \in Cpus : calls[c] = <<>> /\ open[c] = <<>> /\ prog[c] = Idle
  BY DEF Init
<1>3. open \in [Cpus -> Seq(SliceSet)]
  BY DEF Init
<1>4. \A c \in Cpus : SlicesOf(c, Idle, <<>>, <<>>, {}, <<>>)
  <2> SUFFICES ASSUME NEW c \in Cpus PROVE SlicesOf(c, Idle, <<>>, <<>>, {}, <<>>)
    OBVIOUS
  <2>1. <<>> \in Seq(Frame) /\ Len(<<>>) = 0 /\ 1..0 = {}
    OBVIOUS
  <2>2. Path(c, <<>>, <<>>, <<>>)
    BY <2>1, PathEmpty
  <2>3. Shows(<<>>, {}, <<>>)
    BY <2>1, ShowsNone
  <2>4. Begun(<<>>, <<>>)
    <3> DEFINE at == [i \in 1..0 |-> i]
    <3>1. BegunAt(<<>>, 0, <<>>, 0, at)
      BY <2>1 DEF BegunAt
    <3> QED
      BY <2>1, <3>1 DEF Begun
  <2>5. Pend(c, Idle, <<>>, <<>>)
    BY DEF Pend, Started
  <2> QED
    BY <2>1, <2>2, <2>3, <2>4, <2>5 DEF SlicesOf
<1>5. IdsOK
  <2>1. Len(<<>>) = 0 /\ 1..0 = {}
    OBVIOUS
  <2> QED
    BY <1>2, <2>1 DEF IdsOK, Fresh, Started
<1> QED
  BY <1>1, <1>2, <1>3, <1>4, <1>5 DEF NestInv

\* Once the ring is drained the open slices are the calls that run.
LEMMA NestSlices == NestInv => SlicesNest
<1> SUFFICES ASSUME NestInv, tracing, ring = <<>>, NEW c \in Cpus \ (lost \cup unpaired), prog[c] = Idle
             PROVE  LET seen == {i \in DOMAIN calls[c] : calls[c][i].begun /\ calls[c][i].id \notin unseen}
                    IN  \E at \in [1..Len(open[c]) -> seen] :
                          /\ \A i, j \in 1..Len(open[c]) : i < j => at[i] < at[j]
                          /\ \A k \in seen : \E i \in 1..Len(open[c]) : at[i] = k
                          /\ \A i \in 1..Len(open[c]) :
                               open[c][i] = [f |-> calls[c][at[i]].f, cpu |-> calls[c][at[i]].lb]
  BY DEF SlicesNest
<1> DEFINE s == calls[c]
           o == open[c]
           seen == {i \in DOMAIN s : s[i].begun /\ s[i].id \notin unseen}
           n == Len(s)
           l == Len(o)
<1>1. PICK t \in Seq(Frame) : Shows(o, unseen, t) /\ Begun(s, t)
  BY PathEmpty DEF NestInv, SlicesOf, Pend, Started
<1>2. PICK q : q = Len(t)
  OBVIOUS
<1>3. PICK m : ShowsAt(o, l, unseen, t, q, m)
  BY <1>1, <1>2 DEF Shows
<1>4. PICK bt : BegunAt(s, n, t, q, bt)
  BY <1>1, <1>2 DEF Begun
<1>5. s \in Seq(Frame) /\ n \in Nat /\ DOMAIN s = 1..n /\ q \in Nat
  BY <1>2 DEF NestInv, MapInv, LbTypeOK
<1> HIDE DEF s, o, n, l
<1>6. m \in Nat /\ l \in Nat /\ m + l = q
  BY <1>3, <1>5 DEF ShowsAt
<1>7. \A i \in 1..l : m + i \in 1..q /\ ~(m + i <= m)
  BY <1>5, <1>6
<1> DEFINE at == [i \in 1..l |-> bt[m + i]]
<1>8. \A i \in 1..l : bt[m + i] \in seen
  <2> SUFFICES ASSUME NEW i \in 1..l PROVE bt[m + i] \in seen
    OBVIOUS
  <2>1. t[m + i].id \notin unseen
    BY <1>3, <1>7 DEF ShowsAt
  <2>2. bt[m + i] \in 1..n /\ t[m + i] = s[bt[m + i]] /\ s[bt[m + i]].begun
    BY <1>4, <1>7 DEF BegunAt
  <2> QED
    BY <1>5, <2>1, <2>2
<1>9. at \in [1..l -> seen] /\ \A i \in 1..l : at[i] = bt[m + i]
  BY <1>8
<1> HIDE DEF at
<1>10. \A i, j \in 1..l : i < j => at[i] < at[j]
  <2>1. \A i, j \in 1..l : i < j => m + i < m + j
    BY <1>6
  <2> QED
    BY <1>4, <1>7, <1>9, <2>1 DEF BegunAt
<1>11. \A k \in seen : \E i \in 1..l : at[i] = k
  <2> SUFFICES ASSUME NEW k \in seen PROVE \E i \in 1..l : at[i] = k
    OBVIOUS
  <2>1. k \in 1..n /\ s[k].begun /\ s[k].id \notin unseen
    BY <1>5
  <2>2. PICK j \in 1..q : bt[j] = k /\ t[j] = s[k]
    BY <1>4, <2>1 DEF BegunAt
  <2>3. ~(j <= m)
    BY <1>3, <2>1, <2>2 DEF ShowsAt
  <2>4. j - m \in 1..l /\ m + (j - m) = j
    BY <1>5, <1>6, <2>3
  <2> QED
    BY <1>9, <2>2, <2>4
<1>12. \A i \in 1..l : o[i] = [f |-> s[at[i]].f, cpu |-> s[at[i]].lb]
  <2> SUFFICES ASSUME NEW i \in 1..l PROVE o[i] = [f |-> s[at[i]].f, cpu |-> s[at[i]].lb]
    OBVIOUS
  <2>1. o[i] = SliceOf(t[m + i]) /\ t[m + i] = s[at[i]]
    BY <1>3, <1>4, <1>7, <1>9 DEF ShowsAt, BegunAt
  <2> QED
    BY <2>1 DEF SliceOf
<1> HIDE DEF seen
<1>13. \E a \in [1..l -> seen] :
         /\ \A i, j \in 1..l : i < j => a[i] < a[j]
         /\ \A k \in seen : \E i \in 1..l : a[i] = k
         /\ \A i \in 1..l : o[i] = [f |-> s[a[i]].f, cpu |-> s[a[i]].lb]
  BY <1>9, <1>10, <1>11, <1>12
<1> QED
  BY <1>13 DEF s, o, l, seen

\* The slices on the track of a CPU nest as the calls do, for any number of
\* CPUs and calls, and with a session that starts at any time.
THEOREM SlicesAreNested == Spec => []SlicesNest
  BY NestInit, NestInductive, NestSlices, PTL DEF Spec
=============================================================================
