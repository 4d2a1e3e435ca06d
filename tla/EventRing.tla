----------------------------- MODULE EventRing -----------------------------
(***************************************************************************)
(* One BPF ring buffer of sched-analyzer (rq_pelt_rb, task_pelt_rb,        *)
(* rq_nr_running_rb, freq_idle_rb, lb_rb or ipi_rb): the BPF programs that *)
(* write it, running on every CPU at once, and the one thread of the       *)
(* daemon that empties it.                                                 *)
(*                                                                         *)
(* A BPF program follows one of two patterns:                              *)
(*   reserve a record, read the clock into it, fill it, submit it          *)
(*     (all PELT, nr_running and idle programs);                           *)
(*   read the clock, reserve a record, fill it, submit it                  *)
(*     (all load balance and IPI programs).                                *)
(* STAMP_FIRST tells the patterns apart.  When the ring is full the        *)
(* reservation returns NULL and the hit is lost without a trace.           *)
(*                                                                         *)
(* The ring itself belongs to the kernel and to libbpf.  It is modelled    *)
(* the way the programs use it: records are kept in reservation order, a   *)
(* record is BUSY from reservation to submission, the consumer takes       *)
(* records in order, stops at a BUSY one, and gives the space back after   *)
(* the callback has returned.  log keeps every record ever reserved; the   *)
(* ones in use are those after position cons.                              *)
(***************************************************************************)
EXTENDS Integers, Sequences

CONSTANTS
  Cpus,        \* CPUs that execute BPF programs
  Rqs,         \* what a hit is about: the runqueue (CPU) named in the record
  RB_SIZE,     \* capacity of the ring, in records
  STAMP_FIRST, \* does the program read the clock before it reserves?
  MaxHits,     \* bound: tracepoint hits per runqueue
  MaxClock     \* bound: largest value of the clock

ASSUME RingAssumption ==
  /\ RB_SIZE \in Nat \ {0}
  /\ STAMP_FIRST \in BOOLEAN
  /\ MaxHits \in Nat
  /\ MaxClock \in Nat \ {0}

VARIABLES
  log,      \* the records reserved so far, in reservation order
  cons,     \* consumer position: records given back to the ring
  reading,  \* is the consumer inside the callback for record cons + 1?
  seen,     \* what the callback was handed, in order
  pc,       \* pc[c]: how far the program running on CPU c has come
  rq,       \* rq[c]: the runqueue its hit is about
  stamp,    \* stamp[c]: its local variable ts
  slot,     \* slot[c]: position of the record it reserved
  hits,     \* hits[q]: tracepoint hits of runqueue q so far
  lost,     \* lost[q]: the hits of q whose reservation failed
  clock     \* bpf_ktime_get_boot_ns(): one clock for all CPUs

ringVars == <<log, cons, reading, seen>>
progVars == <<pc, rq, stamp, slot, hits, lost>>
vars == <<ringVars, progVars, clock>>

\* hit is the number of the hit of q the record was reserved for.  val and ts
\* are the contents: 0 stands for whatever the memory held before.
Record == [q : Rqs, hit : Nat, val : Nat, ts : Nat, busy : BOOLEAN]

TypeOK ==
  /\ log \in Seq(Record)
  /\ cons \in 0..Len(log)
  /\ reading \in BOOLEAN
  /\ seen \in Seq(Record)
  /\ pc \in [Cpus -> {"idle", "entered", "reserved", "filled"}]
  /\ rq \in [Cpus -> Rqs]
  /\ stamp \in [Cpus -> Nat]
  /\ slot \in [Cpus -> Nat]
  /\ hits \in [Rqs -> Nat]
  /\ lost \in [Rqs -> SUBSET Nat]
  /\ clock \in Nat \ {0}

Init ==
  /\ log = <<>>
  /\ cons = 0
  /\ reading = FALSE
  /\ seen = <<>>
  /\ pc = [c \in Cpus |-> "idle"]
  /\ rq \in [Cpus -> Rqs]
  /\ stamp = [c \in Cpus |-> 0]
  /\ slot = [c \in Cpus |-> 0]
  /\ hits = [q \in Rqs |-> 0]
  /\ lost = [q \in Rqs |-> {}]
  /\ clock = 1

-----------------------------------------------------------------------------
(* Mutated forms of the definitions below: plausible slips in this code.   *)

\* max_entries of the ring is half of what it should be.
HasRoomHalf == Len(log) - cons < RB_SIZE \div 2

\* The record is visible to the consumer as soon as it is reserved.
NewRecordNotBusy(q, n) == [q |-> q, hit |-> n, val |-> 0, ts |-> 0, busy |-> FALSE]

\* The consumer steps over two records after a callback.
ReleaseTwo ==
  /\ reading
  /\ reading' = FALSE
  /\ cons' = cons + 2
  /\ UNCHANGED <<log, seen, progVars, clock>>

\* After a callback the consumer steps over the next record as well, if any.
ReleaseSkips ==
  /\ reading
  /\ reading' = FALSE
  /\ cons' = IF cons + 1 < Len(log) THEN cons + 2 ELSE cons + 1
  /\ UNCHANGED <<log, seen, progVars, clock>>

\* The timestamp comes from a per-CPU cache instead of the clock.
FillCachedTs(c) ==
  /\ pc[c] = "reserved"
  /\ stamp' = [stamp EXCEPT ![c] = IF @ = 0 THEN clock ELSE @]
  /\ log' = [log EXCEPT ![slot[c]].val = hits[rq[c]], ![slot[c]].ts = stamp'[c]]
  /\ pc' = [pc EXCEPT ![c] = "filled"]
  /\ UNCHANGED <<cons, reading, seen, rq, slot, hits, lost, clock>>

\* The program returns early and leaves its record reserved.
SubmitForgotten(c) ==
  /\ pc[c] = "filled"
  /\ pc' = [pc EXCEPT ![c] = "idle"]
  /\ UNCHANGED <<rq, stamp, slot, hits, lost, ringVars, clock>>

-----------------------------------------------------------------------------
(* The BPF programs.                                                       *)

\* The kernel hits the tracepoint for runqueue q on CPU c.  It does so with
\* the lock of q held (or, for idle, load balance and IPI events, on CPU q
\* itself), so two programs never run for one q at a time.
Enter(c, q) ==
  /\ pc[c] = "idle"
  /\ \A d \in Cpus : pc[d] # "idle" => rq[d] # q
  /\ hits[q] < MaxHits
  /\ pc' = [pc EXCEPT ![c] = "entered"]
  /\ rq' = [rq EXCEPT ![c] = q]
  /\ hits' = [hits EXCEPT ![q] = @ + 1]
  /\ stamp' = IF STAMP_FIRST THEN [stamp EXCEPT ![c] = clock] ELSE stamp
  /\ UNCHANGED <<slot, lost, ringVars, clock>>

HasRoom == Len(log) - cons < RB_SIZE

NewRecord(q, n) == [q |-> q, hit |-> n, val |-> 0, ts |-> 0, busy |-> TRUE]

\* bpf_ringbuf_reserve() succeeds ...
Reserve(c) ==
  /\ pc[c] = "entered"
  /\ HasRoom
  /\ log' = Append(log, NewRecord(rq[c], hits[rq[c]]))
  /\ slot' = [slot EXCEPT ![c] = Len(log) + 1]
  /\ pc' = [pc EXCEPT ![c] = "reserved"]
  /\ UNCHANGED <<cons, reading, seen, rq, stamp, hits, lost, clock>>

\* ... or returns NULL, and the program ends: "if (e)".
ReserveFails(c) ==
  /\ pc[c] = "entered"
  /\ ~HasRoom
  /\ lost' = [lost EXCEPT ![rq[c]] = @ \cup {hits[rq[c]]}]
  /\ pc' = [pc EXCEPT ![c] = "idle"]
  /\ UNCHANGED <<rq, stamp, slot, hits, ringVars, clock>>

\* The stores into the record.
Fill(c) ==
  /\ pc[c] = "reserved"
  /\ log' = [log EXCEPT ![slot[c]].val = hits[rq[c]],
                        ![slot[c]].ts = IF STAMP_FIRST THEN stamp[c] ELSE clock]
  /\ pc' = [pc EXCEPT ![c] = "filled"]
  /\ UNCHANGED <<cons, reading, seen, rq, stamp, slot, hits, lost, clock>>

Submit(c) ==
  /\ pc[c] = "filled"
  /\ log' = [log EXCEPT ![slot[c]].busy = FALSE]
  /\ pc' = [pc EXCEPT ![c] = "idle"]
  /\ UNCHANGED <<cons, reading, seen, rq, stamp, slot, hits, lost, clock>>

Tick ==
  /\ clock < MaxClock
  /\ clock' = clock + 1
  /\ UNCHANGED <<ringVars, progVars>>

-----------------------------------------------------------------------------
(* The consumer: ring_buffer__poll() in the thread of this event.          *)

\* The next record is submitted: handle_<event>_event() is called with it.
Callback ==
  /\ ~reading
  /\ cons < Len(log)
  /\ ~log[cons + 1].busy
  /\ reading' = TRUE
  /\ seen' = Append(seen, log[cons + 1])
  /\ UNCHANGED <<log, cons, progVars, clock>>

\* The callback has returned: the space of the record is free again.
Release ==
  /\ reading
  /\ reading' = FALSE
  /\ cons' = cons + 1
  /\ UNCHANGED <<log, seen, progVars, clock>>

Next ==
  \/ \E c \in Cpus, q \in Rqs : Enter(c, q)
  \/ \E c \in Cpus : Reserve(c) \/ ReserveFails(c) \/ Fill(c) \/ Submit(c)
  \/ Tick
  \/ Callback
  \/ Release

\* A BPF program runs to its end once started (the verifier admits no endless
\* program), and the polling thread is scheduled.  Nothing makes the kernel
\* hit a tracepoint.
Fairness ==
  /\ \A c \in Cpus : WF_vars(Reserve(c) \/ ReserveFails(c) \/ Fill(c) \/ Submit(c))
  /\ WF_vars(Callback \/ Release)

Spec == Init /\ [][Next]_vars
FairSpec == Spec /\ Fairness

-----------------------------------------------------------------------------
(* Properties.                                                             *)

\* The samples of one runqueue reach the handler in the order in which the
\* kernel produced them, each at most once and with timestamps that never go
\* back - although programs on several CPUs reserve, stamp and submit in any
\* order.  Every per-CPU track of the trace rests on this.
PerRqOrder ==
  \A i, j \in 1..Len(seen) :
    i < j /\ seen[i].q = seen[j].q =>
      seen[i].hit < seen[j].hit /\ seen[i].ts <= seen[j].ts

\* The handler never gets a record its program has not finished: contents are
\* those of the hit the record was reserved for, and the record in the ring
\* never changes again.
NeverTorn ==
  \A i \in 1..Len(seen) :
    seen[i] = log[i] /\ seen[i].val = seen[i].hit /\ seen[i].ts > 0

\* Once the programs are idle and the ring is drained every hit has either
\* been handed to the handler or was lost to a full ring; none vanished.
EveryHitAccounted ==
  (\A c \in Cpus : pc[c] = "idle") /\ cons = Len(log) =>
    \A q \in Rqs :
      1..hits[q] = lost[q] \cup {seen[i].hit : i \in {k \in 1..Len(seen) : seen[k].q = q}}

\* A record once reserved is eventually handed to the handler, even when an
\* older record of a slower CPU blocks the head of the ring.
Delivered ==
  \A n \in 1..(MaxHits + RB_SIZE) : (Len(log) >= n) ~> (Len(seen) >= n)
=============================================================================
