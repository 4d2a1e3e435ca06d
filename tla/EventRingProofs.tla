-------------------------- MODULE EventRingProofs --------------------------
(***************************************************************************)
(* Proofs about EventRing for any number of CPUs and runqueues, any ring   *)
(* size and both clock patterns.  IInv is the inductive invariant: the     *)
(* consumer properties follow from what holds of the whole log, and the    *)
(* log is ordered per runqueue because a busy record always has an owner   *)
(* and no two owners are about one runqueue.                               *)
(*                                                                         *)
(* The second part shows that EventRing implements EventChannel: the       *)
(* initial states map to the initial state of the queue, a reservation to  *)
(* Accept, a refused one to Lose, a callback to Deliver, and every other   *)
(* step to none.  IInv supplies what the mapping needs.                    *)
(***************************************************************************)
EXTENDS RingRefinement, SequenceTheorems, TLAPS

Owns(c) == pc[c] \in {"reserved", "filled"}

\* The lock of a runqueue: at most one program is about it.
OnePerRq ==
  \A c, d \in Cpus :
    c # d /\ pc[c] # "idle" /\ pc[d] # "idle" => rq[c] # rq[d]

\* A program that holds a record holds the busy record of its own hit.
OwnerOK ==
  \A c \in Cpus : Owns(c) =>
    /\ slot[c] \in 1..Len(log)
    /\ log[slot[c]].busy
    /\ log[slot[c]].q = rq[c]
    /\ log[slot[c]].hit = hits[rq[c]]
    /\ pc[c] = "filled" =>
         log[slot[c]].val = log[slot[c]].hit /\ log[slot[c]].ts \in 1..clock

\* No record is busy without a program that will submit it.
BusyOwned ==
  \A i \in 1..Len(log) : log[i].busy => \E c \in Cpus : Owns(c) /\ slot[c] = i

\* A submitted record is complete; no record is from the future.
RecordOK ==
  \A i \in 1..Len(log) :
    /\ log[i].hit \in 1..hits[log[i].q]
    /\ log[i].ts <= clock
    /\ ~log[i].busy => log[i].val = log[i].hit /\ log[i].ts > 0

\* The hit of a program that has not reserved yet is newer than every record
\* of its runqueue, and so is the time it has read.
EnteredOK ==
  \A c \in Cpus : pc[c] = "entered" =>
    /\ hits[rq[c]] > 0
    /\ \A i \in 1..Len(log) :
         log[i].q = rq[c] => ~log[i].busy /\ log[i].hit < hits[rq[c]]

StampOK ==
  \A c \in Cpus : STAMP_FIRST /\ pc[c] \in {"entered", "reserved"} =>
    /\ stamp[c] \in 1..clock
    /\ \A i \in 1..Len(log) : log[i].q = rq[c] => log[i].ts <= stamp[c]

\* Records of one runqueue are in the log in the order of their hits, only
\* the last of them can be busy, and the stamped ones are in time order.
LogOrder ==
  \A i, j \in 1..Len(log) : i < j /\ log[i].q = log[j].q =>
    /\ ~log[i].busy
    /\ log[i].hit < log[j].hit
    /\ log[j].ts > 0 => log[i].ts <= log[j].ts

\* The consumer has seen a prefix of the log, all of it submitted.
SeenOK ==
  /\ Len(seen) = IF reading THEN cons + 1 ELSE cons
  /\ Len(seen) <= Len(log)
  /\ \A i \in 1..Len(seen) : seen[i] = log[i] /\ ~log[i].busy

RoomOK == Len(log) - cons <= RB_SIZE

IInv ==
  /\ TypeOK
  /\ OnePerRq /\ OwnerOK /\ BusyOwned /\ RecordOK
  /\ EnteredOK /\ StampOK /\ LogOrder /\ SeenOK /\ RoomOK

-----------------------------------------------------------------------------
\* TypeOK as the provers like it: the types of the fields, without the
\* sequence and record sets they come from.
ProgTypes ==
  /\ pc \in [Cpus -> {"idle", "entered", "reserved", "filled"}]
  /\ rq \in [Cpus -> Rqs]
  /\ stamp \in [Cpus -> Nat]
  /\ slot \in [Cpus -> Nat]
  /\ hits \in [Rqs -> Nat]
  /\ lost \in [Rqs -> SUBSET Nat]
  /\ clock \in Nat \ {0}

LogTypes ==
  /\ Len(log) \in Nat
  /\ cons \in Nat
  /\ Len(seen) \in Nat
  /\ reading \in BOOLEAN
  /\ \A i \in 1..Len(log) :
       log[i].q \in Rqs /\ log[i].hit \in Nat /\ log[i].val \in Nat
         /\ log[i].ts \in Nat /\ log[i].busy \in BOOLEAN

\* The parts of TypeOK in the form the steps below use.
LEMMA TypeFacts == TypeOK => ProgTypes /\ LogTypes
<1> SUFFICES ASSUME TypeOK PROVE ProgTypes /\ LogTypes
  OBVIOUS
<1>1. ProgTypes
  BY DEF TypeOK, ProgTypes
<1>2. Len(log) \in Nat /\ cons \in Nat /\ Len(seen) \in Nat /\ reading \in BOOLEAN
  BY DEF TypeOK
<1>3. \A i \in 1..Len(log) : log[i] \in Record
  BY ElementOfSeq DEF TypeOK
<1> QED
  BY <1>1, <1>2, <1>3 DEF LogTypes, Record

(* What the three actions that write the ring do to the log, record by     *)
(* record.                                                                 *)

\* Reserve adds a busy, empty record of the program's own hit.
LEMMA ReserveLog ==
  ASSUME TypeOK, NEW c \in Cpus, Reserve(c)
  PROVE  /\ log' \in Seq(Record)
         /\ Len(log') = Len(log) + 1
         /\ \A i \in 1..Len(log) : log'[i] = log[i]
         /\ log'[Len(log) + 1] =
              [q |-> rq[c], hit |-> hits[rq[c]], val |-> 0, ts |-> 0, busy |-> TRUE]
<1> DEFINE r == NewRecord(rq[c], hits[rq[c]])
<1>1. r \in Record
  BY DEF TypeOK, Record, NewRecord
<1>2. log \in Seq(Record) /\ log' = Append(log, r)
  BY DEF TypeOK, Reserve
<1> QED
  BY <1>1, <1>2, AppendProperties DEF NewRecord

\* Fill stores value and time into the program's record and nothing else.
LEMMA FillLog ==
  ASSUME TypeOK, NEW c \in Cpus, Fill(c), slot[c] \in 1..Len(log)
  PROVE  /\ log' \in Seq(Record)
         /\ Len(log') = Len(log)
         /\ \A i \in 1..Len(log) : i # slot[c] => log'[i] = log[i]
         /\ log'[slot[c]].q = log[slot[c]].q
         /\ log'[slot[c]].hit = log[slot[c]].hit
         /\ log'[slot[c]].busy = log[slot[c]].busy
         /\ log'[slot[c]].val = hits[rq[c]]
         /\ log'[slot[c]].ts = IF STAMP_FIRST THEN stamp[c] ELSE clock
<1> DEFINE t == IF STAMP_FIRST THEN stamp[c] ELSE clock
           r == [log[slot[c]] EXCEPT !.val = hits[rq[c]], !.ts = t]
<1>1. log \in Seq(Record) /\ log[slot[c]] \in Record
  BY ElementOfSeq DEF TypeOK
<1>2. t \in Nat /\ hits[rq[c]] \in Nat
  BY DEF TypeOK
<1>3. /\ r \in Record
      /\ r.q = log[slot[c]].q /\ r.hit = log[slot[c]].hit /\ r.busy = log[slot[c]].busy
      /\ r.val = hits[rq[c]] /\ r.ts = t
  BY <1>1, <1>2 DEF Record
<1>4. log' = [log EXCEPT ![slot[c]] = r]
  BY <1>1 DEF Fill
<1>5. /\ log' \in Seq(Record)
      /\ Len(log') = Len(log)
      /\ \A i \in 1..Len(log) : log'[i] = IF i = slot[c] THEN r ELSE log[i]
  BY <1>1, <1>3, <1>4, ExceptSeq
<1> QED
  BY <1>3, <1>5

\* Submit clears the busy bit of the program's record and nothing else.
LEMMA SubmitLog ==
  ASSUME TypeOK, NEW c \in Cpus, Submit(c), slot[c] \in 1..Len(log)
  PROVE  /\ log' \in Seq(Record)
         /\ Len(log') = Len(log)
         /\ \A i \in 1..Len(log) : i # slot[c] => log'[i] = log[i]
         /\ log'[slot[c]].q = log[slot[c]].q
         /\ log'[slot[c]].hit = log[slot[c]].hit
         /\ log'[slot[c]].val = log[slot[c]].val
         /\ log'[slot[c]].ts = log[slot[c]].ts
         /\ log'[slot[c]].busy = FALSE
<1> DEFINE r == [log[slot[c]] EXCEPT !.busy = FALSE]
<1>1. log \in Seq(Record) /\ log[slot[c]] \in Record
  BY ElementOfSeq DEF TypeOK
<1>2. /\ r \in Record
      /\ r.q = log[slot[c]].q /\ r.hit = log[slot[c]].hit /\ r.val = log[slot[c]].val
      /\ r.ts = log[slot[c]].ts /\ r.busy = FALSE
  BY <1>1 DEF Record
<1>3. log' = [log EXCEPT ![slot[c]] = r]
  BY <1>1 DEF Submit
<1>4. /\ log' \in Seq(Record)
      /\ Len(log') = Len(log)
      /\ \A i \in 1..Len(log) : log'[i] = IF i = slot[c] THEN r ELSE log[i]
  BY <1>1, <1>2, <1>3, ExceptSeq
<1> QED
  BY <1>2, <1>4

-----------------------------------------------------------------------------
(* IInv is inductive: one lemma per action.                                *)

\* The empty ring satisfies the inductive invariant.
LEMMA InitIInv == Init => IInv
<1> SUFFICES ASSUME Init PROVE IInv
  OBVIOUS
<1>1. TypeOK
  <2>1. log \in Seq(Record) /\ seen \in Seq(Record)
    BY EmptySeq DEF Init
  <2>2. cons \in 0..Len(log)
    BY DEF Init
  <2>3. pc \in [Cpus -> {"idle", "entered", "reserved", "filled"}] /\ rq \in [Cpus -> Rqs]
    BY DEF Init
  <2>4. stamp \in [Cpus -> Nat] /\ slot \in [Cpus -> Nat] /\ hits \in [Rqs -> Nat]
    BY DEF Init
  <2>5. lost \in [Rqs -> SUBSET Nat]
    BY Zenon DEF Init
  <2>6. clock \in Nat \ {0}
    BY DEF Init
  <2>7. reading \in BOOLEAN
    BY Zenon DEF Init
  <2> QED
    BY <2>1, <2>2, <2>3, <2>4, <2>5, <2>6, <2>7 DEF TypeOK
<1>2. Len(log) = 0 /\ Len(seen) = 0
  BY DEF Init
<1> QED
  BY <1>1, <1>2, RingAssumption DEF Init, IInv, TypeOK, OnePerRq, OwnerOK, BusyOwned,
     RecordOK, EnteredOK, StampOK, LogOrder, SeenOK, RoomOK, Owns

\* A tracepoint hit keeps it: the runqueue had no program running.
LEMMA EnterIInv ==
  ASSUME IInv, NEW c \in Cpus, NEW q \in Rqs, Enter(c, q)
  PROVE  IInv'
<1> USE DEF IInv
<1>0. ProgTypes /\ LogTypes
  BY TypeFacts
<1>1. TypeOK'
  BY DEF TypeOK, Enter, ringVars
<1>P. /\ pc[c] = "idle" /\ pc' = [pc EXCEPT ![c] = "entered"]
      /\ rq' = [rq EXCEPT ![c] = q]
      /\ hits' = [hits EXCEPT ![q] = @ + 1]
      /\ \A d \in Cpus : pc[d] # "idle" => rq[d] # q
      /\ UNCHANGED <<log, slot, clock>>
  BY DEF Enter, ringVars
<1>2. OnePerRq'
  <2> SUFFICES ASSUME NEW d \in Cpus, NEW e \in Cpus,
                      d # e, pc'[d] # "idle", pc'[e] # "idle"
               PROVE  rq'[d] # rq'[e]
    BY DEF OnePerRq
  <2>1. CASE d # c /\ e # c
    BY <1>0, <1>P, <2>1 DEF ProgTypes, OnePerRq
  <2>2. CASE d = c \/ e = c
    BY <1>0, <1>P, <2>2 DEF ProgTypes
  <2> QED
    BY <2>1, <2>2
<1>3. OwnerOK'
  <2> SUFFICES ASSUME NEW d \in Cpus, Owns(d)'
               PROVE  (/\ slot[d] \in 1..Len(log)
                       /\ log[slot[d]].busy
                       /\ log[slot[d]].q = rq[d]
                       /\ log[slot[d]].hit = hits[rq[d]]
                       /\ pc[d] = "filled" =>
                            log[slot[d]].val = log[slot[d]].hit /\ log[slot[d]].ts \in 1..clock)
                      /\ pc'[d] = pc[d] /\ rq'[d] = rq[d] /\ hits'[rq[d]] = hits[rq[d]]
    BY <1>P DEF OwnerOK
  <2>1. d # c /\ pc'[d] = pc[d] /\ rq'[d] = rq[d] /\ Owns(d)
    BY <1>0, <1>P DEF ProgTypes, Owns
  <2>2. hits'[rq[d]] = hits[rq[d]]
    BY <1>0, <1>P, <2>1 DEF ProgTypes, Owns
  <2> QED
    BY <2>1, <2>2 DEF OwnerOK
<1>4. BusyOwned'
  BY <1>0 DEF ProgTypes, LogTypes, BusyOwned, Owns, Enter, ringVars
<1>5. RecordOK'
  <2>1. log' = log /\ clock' = clock /\ \A p \in Rqs : hits'[p] \in Nat /\ hits[p] <= hits'[p]
    BY <1>0 DEF ProgTypes, Enter, ringVars
  <2> SUFFICES ASSUME NEW i \in 1..Len(log)
               PROVE  log[i].hit \in 1..hits'[log[i].q]
    BY <2>1 DEF RecordOK
  <2>2. log[i].hit \in 1..hits[log[i].q] /\ log[i].q \in Rqs
    BY <1>0 DEF LogTypes, RecordOK
  <2>3. hits[log[i].q] \in Nat
    BY <1>0, <2>2 DEF ProgTypes
  <2> QED
    BY <2>1, <2>2, <2>3
<1>6. EnteredOK'
  <2>1. \A i \in 1..Len(log) : log[i].q = q => ~log[i].busy
    BY DEF BusyOwned, OwnerOK, Owns, Enter
  <2>2. \A i \in 1..Len(log) : log[i].q = q => log[i].hit < hits'[q]
    BY <1>0, <1>P DEF ProgTypes, LogTypes, RecordOK
  <2> SUFFICES ASSUME NEW d \in Cpus, pc'[d] = "entered"
               PROVE  /\ hits'[rq'[d]] > 0
                      /\ \A i \in 1..Len(log) :
                           log[i].q = rq'[d] => ~log[i].busy /\ log[i].hit < hits'[rq'[d]]
    BY <1>P DEF EnteredOK
  <2>3. CASE d = c
    BY <1>0, <1>P, <2>1, <2>2, <2>3 DEF ProgTypes
  <2>4. CASE d # c
    <3>1. pc[d] = "entered" /\ rq'[d] = rq[d] /\ rq[d] # q /\ hits'[rq[d]] = hits[rq[d]]
      BY <1>0, <1>P, <2>4 DEF ProgTypes
    <3> QED
      BY <3>1 DEF EnteredOK
  <2> QED
    BY <2>3, <2>4
<1>7. StampOK'
  <2> SUFFICES ASSUME NEW d \in Cpus, STAMP_FIRST, pc'[d] \in {"entered", "reserved"}
               PROVE  /\ stamp'[d] \in 1..clock
                      /\ \A i \in 1..Len(log) : log[i].q = rq'[d] => log[i].ts <= stamp'[d]
    BY DEF StampOK, Enter, ringVars
  <2>1. CASE d = c
    BY <2>1, <1>0 DEF ProgTypes, LogTypes, RecordOK, Enter
  <2>2. CASE d # c
    BY <2>2, <1>0 DEF ProgTypes, StampOK, Enter
  <2> QED
    BY <2>1, <2>2
<1>8. LogOrder' /\ SeenOK' /\ RoomOK'
  BY DEF LogOrder, SeenOK, RoomOK, Enter, ringVars
<1> QED
  BY <1>1, <1>2, <1>3, <1>4, <1>5, <1>6, <1>7, <1>8

\* A reservation keeps it: the new record is the last one and is busy.
LEMMA ReserveIInv ==
  ASSUME IInv, NEW c \in Cpus, Reserve(c)
  PROVE  IInv'
<1> USE DEF IInv
<1> DEFINE n == Len(log)
<1>0. ProgTypes /\ LogTypes
  BY TypeFacts
<1>n. n \in Nat
  BY <1>0 DEF LogTypes
<1>L. /\ log' \in Seq(Record)
      /\ Len(log') = n + 1
      /\ \A i \in 1..n : log'[i] = log[i]
      /\ log'[n + 1] =
           [q |-> rq[c], hit |-> hits[rq[c]], val |-> 0, ts |-> 0, busy |-> TRUE]
  BY ReserveLog
<1>N. /\ log'[n + 1].q = rq[c] /\ log'[n + 1].hit = hits[rq[c]]
      /\ log'[n + 1].ts = 0 /\ log'[n + 1].busy = TRUE
  BY <1>L
<1>P. pc[c] = "entered" /\ pc' = [pc EXCEPT ![c] = "reserved"]
      /\ slot' = [slot EXCEPT ![c] = n + 1]
      /\ UNCHANGED <<cons, reading, seen, rq, stamp, hits, lost, clock>>
  BY DEF Reserve
<1> HIDE DEF n
<1>1. TypeOK'
  BY <1>0, <1>L, <1>P DEF TypeOK, n
<1>2. OnePerRq'
  BY <1>0, <1>P DEF ProgTypes, LogTypes, OnePerRq
<1>3. OwnerOK'
  <2> SUFFICES ASSUME NEW d \in Cpus, Owns(d)'
               PROVE  /\ slot'[d] \in 1..n + 1
                      /\ log'[slot'[d]].busy
                      /\ log'[slot'[d]].q = rq[d]
                      /\ log'[slot'[d]].hit = hits[rq[d]]
                      /\ pc'[d] = "filled" =>
                           log'[slot'[d]].val = log'[slot'[d]].hit /\ log'[slot'[d]].ts \in 1..clock
    BY <1>L, <1>P DEF OwnerOK
  <2>1. CASE d = c
    BY <1>0, <1>n, <1>N, <1>P, <2>1 DEF ProgTypes
  <2>2. CASE d # c
    <3>1. pc'[d] = pc[d] /\ slot'[d] = slot[d] /\ Owns(d)
      BY <1>0, <1>P, <2>2 DEF ProgTypes, Owns
    <3>2. slot[d] \in 1..n
      BY <3>1 DEF OwnerOK, n
    <3>3. log'[slot[d]] = log[slot[d]] /\ slot[d] \in 1..n + 1
      BY <3>2, <1>L, <1>n
    <3> QED
      BY <3>1, <3>3 DEF OwnerOK
  <2> QED
    BY <2>1, <2>2
<1>4. BusyOwned'
  <2> SUFFICES ASSUME NEW i \in 1..n + 1, log'[i].busy
               PROVE  \E d \in Cpus : Owns(d)' /\ slot'[d] = i
    BY <1>L DEF BusyOwned
  <2>1. CASE i = n + 1
    BY <1>0, <2>1, <1>P DEF ProgTypes, LogTypes, Owns
  <2>2. CASE i # n + 1
    <3>1. i \in 1..n /\ log[i].busy
      BY <2>2, <1>n, <1>L
    <3>2. PICK d \in Cpus : Owns(d) /\ slot[d] = i
      BY <3>1 DEF BusyOwned, n
    <3>3. d # c
      BY <3>2, <1>P DEF Owns
    <3> QED
      BY <1>0, <3>2, <3>3, <1>P DEF ProgTypes, LogTypes, Owns
  <2> QED
    BY <2>1, <2>2
<1>5. RecordOK'
  <2> SUFFICES ASSUME NEW i \in 1..n + 1
               PROVE  /\ log'[i].hit \in 1..hits[log'[i].q]
                      /\ log'[i].ts <= clock
                      /\ ~log'[i].busy => log'[i].val = log'[i].hit /\ log'[i].ts > 0
    BY <1>L, <1>P DEF RecordOK
  <2>1. CASE i = n + 1
    <3>1. rq[c] \in Rqs /\ hits[rq[c]] \in Nat /\ hits[rq[c]] > 0
      BY <1>0, <1>P DEF ProgTypes, EnteredOK
    <3> QED
      BY <2>1, <3>1, <1>0, <1>N DEF ProgTypes
  <2>2. CASE i # n + 1
    <3>1. i \in 1..n /\ log'[i] = log[i]
      BY <2>2, <1>n, <1>L
    <3> QED
      BY <3>1 DEF RecordOK, n
  <2> QED
    BY <2>1, <2>2
<1>6. EnteredOK'
  <2> SUFFICES ASSUME NEW d \in Cpus, pc'[d] = "entered"
               PROVE  /\ hits[rq[d]] > 0
                      /\ \A i \in 1..n + 1 : log'[i].q = rq[d] =>
                           ~log'[i].busy /\ log'[i].hit < hits[rq[d]]
    BY <1>L, <1>P DEF EnteredOK
  <2>1. d # c /\ pc[d] = "entered"
    BY <1>0, <1>P DEF ProgTypes
  <2>2. rq[d] # rq[c]
    BY <2>1, <1>P DEF OnePerRq
  <2>3. \A i \in 1..n + 1 : log'[i].q = rq[d] => i \in 1..n /\ log'[i] = log[i]
    BY <2>2, <1>n, <1>L, <1>N
  <2> QED
    BY <2>1, <2>3 DEF EnteredOK, n
<1>7. StampOK'
  <2> SUFFICES ASSUME NEW d \in Cpus, STAMP_FIRST, pc'[d] \in {"entered", "reserved"}
               PROVE  /\ stamp[d] \in 1..clock
                      /\ \A i \in 1..n + 1 : log'[i].q = rq[d] => log'[i].ts <= stamp[d]
    BY <1>L, <1>P DEF StampOK
  <2>1. pc[d] \in {"entered", "reserved"}
    BY <1>0, <1>P DEF ProgTypes
  <2>2. /\ stamp[d] \in 1..clock
        /\ \A i \in 1..n : log[i].q = rq[d] => log[i].ts <= stamp[d]
    BY <2>1 DEF StampOK, n
  <2>3. ASSUME NEW i \in 1..n + 1, log'[i].q = rq[d]
        PROVE  log'[i].ts <= stamp[d]
    <3>1. CASE i = n + 1
      BY <3>1, <2>2, <1>0, <1>N DEF ProgTypes
    <3>2. CASE i # n + 1
      <4>1. i \in 1..n /\ log'[i] = log[i]
        BY <3>2, <1>n, <1>L
      <4> QED
        BY <4>1, <2>2, <2>3
    <3> QED
      BY <3>1, <3>2
  <2> QED
    BY <2>2, <2>3
<1>8. LogOrder'
  <2> SUFFICES ASSUME NEW i \in 1..n + 1, NEW j \in 1..n + 1,
                      i < j, log'[i].q = log'[j].q
               PROVE  /\ ~log'[i].busy
                      /\ log'[i].hit < log'[j].hit
                      /\ log'[j].ts > 0 => log'[i].ts <= log'[j].ts
    BY <1>L DEF LogOrder
  <2>1. i \in 1..n /\ log'[i] = log[i]
    BY <1>n, <1>L
  <2>2. CASE j = n + 1
    BY <2>1, <2>2, <1>N, <1>P DEF EnteredOK, n
  <2>3. CASE j # n + 1
    BY <2>1, <2>3, <1>0, <1>L DEF LogOrder, n
  <2> QED
    BY <2>2, <2>3
<1>9. SeenOK'
  <2>1. Len(seen) <= n /\ \A i \in 1..Len(seen) : i \in 1..n
    BY <1>0 DEF SeenOK, LogTypes, n
  <2> QED
    BY <2>1, <1>0, <1>n, <1>L, <1>P DEF LogTypes, SeenOK
<1>10. RoomOK'
  BY <1>0, <1>L, <1>P, RingAssumption DEF ProgTypes, LogTypes, RoomOK, Reserve, HasRoom, n
<1> QED
  BY <1>1, <1>2, <1>3, <1>4, <1>5, <1>6, <1>7, <1>8, <1>9, <1>10

\* A refused reservation keeps it: only the set of lost hits grows.
LEMMA ReserveFailsIInv ==
  ASSUME IInv, NEW c \in Cpus, ReserveFails(c)
  PROVE  IInv'
<1> USE DEF IInv
<1>0. ProgTypes /\ LogTypes
  BY TypeFacts
<1>P. /\ pc[c] = "entered" /\ pc' = [pc EXCEPT ![c] = "idle"]
      /\ lost' = [lost EXCEPT ![rq[c]] = @ \cup {hits[rq[c]]}]
      /\ UNCHANGED <<rq, stamp, slot, hits, log, cons, reading, seen, clock>>
  BY DEF ReserveFails, ringVars
<1>1. TypeOK'
  <2>1. lost' \in [Rqs -> SUBSET Nat]
    BY <1>0, <1>P DEF ProgTypes
  <2>2. pc' \in [Cpus -> {"idle", "entered", "reserved", "filled"}]
    BY <1>0, <1>P DEF ProgTypes
  <2> QED
    BY <1>P, <2>1, <2>2 DEF TypeOK
<1>2. \A d \in Cpus : pc'[d] = IF d = c THEN "idle" ELSE pc[d]
  BY <1>0, <1>P DEF ProgTypes
<1>3. OnePerRq' /\ OwnerOK'
  BY <1>2, <1>P DEF OnePerRq, OwnerOK, Owns
<1>4. BusyOwned'
  BY <1>2, <1>P DEF BusyOwned, Owns
<1>5. RecordOK' /\ EnteredOK' /\ StampOK'
  BY <1>2, <1>P DEF RecordOK, EnteredOK, StampOK
<1>6. LogOrder' /\ SeenOK' /\ RoomOK'
  BY <1>P DEF LogOrder, SeenOK, RoomOK
<1> QED
  BY <1>1, <1>3, <1>4, <1>5, <1>6

\* Fill and Submit touch one record, which is busy: no record of its runqueue
\* follows it and the consumer has not reached it.
LEMMA OwnRecord ==
  ASSUME IInv, NEW c \in Cpus, Owns(c)
  PROVE  /\ slot[c] \in 1..Len(log)
         /\ \A i \in 1..Len(log) : log[i].q = rq[c] => i <= slot[c]
         /\ \A i \in 1..Len(seen) : i # slot[c]
         /\ \A d \in Cpus : d # c /\ Owns(d) => slot[d] # slot[c]
         /\ pc[c] # "idle"
<1> USE DEF IInv
<1>0. ProgTypes /\ LogTypes
  BY TypeFacts
<1>1. /\ slot[c] \in 1..Len(log) /\ log[slot[c]].busy /\ log[slot[c]].q = rq[c]
      /\ pc[c] # "idle"
  BY DEF OwnerOK, Owns
<1>2. \A i \in 1..Len(log) : log[i].q = rq[c] => i <= slot[c]
  BY <1>0, <1>1 DEF LogOrder, LogTypes
<1>3. \A i \in 1..Len(seen) : i # slot[c]
  BY <1>1 DEF SeenOK
<1>4. \A d \in Cpus : d # c /\ Owns(d) => slot[d] # slot[c]
  BY <1>1 DEF OwnerOK, OnePerRq, Owns
<1> QED
  BY <1>1, <1>2, <1>3, <1>4

\* The stores into a record keep it: the record is still busy.
LEMMA FillIInv ==
  ASSUME IInv, NEW c \in Cpus, Fill(c)
  PROVE  IInv'
<1> USE DEF IInv
<1> DEFINE k == slot[c]
           t == IF STAMP_FIRST THEN stamp[c] ELSE clock
<1>0. ProgTypes /\ LogTypes
  BY TypeFacts
<1>P. /\ pc[c] = "reserved" /\ pc' = [pc EXCEPT ![c] = "filled"]
      /\ UNCHANGED <<cons, reading, seen, rq, stamp, slot, hits, lost, clock>>
  BY DEF Fill
<1>K. /\ k \in 1..Len(log)
      /\ \A i \in 1..Len(log) : log[i].q = rq[c] => i <= k
      /\ \A i \in 1..Len(seen) : i # k
      /\ \A d \in Cpus : d # c /\ Owns(d) => slot[d] # k
  BY <1>P, OwnRecord DEF Owns
<1>R. log[k].busy /\ log[k].q = rq[c] /\ log[k].hit = hits[rq[c]]
  BY <1>P DEF OwnerOK, Owns
<1>L. /\ log' \in Seq(Record)
      /\ Len(log') = Len(log)
      /\ \A i \in 1..Len(log) : i # k => log'[i] = log[i]
      /\ log'[k].q = log[k].q /\ log'[k].hit = log[k].hit /\ log'[k].busy = log[k].busy
      /\ log'[k].val = hits[rq[c]] /\ log'[k].ts = t
  BY <1>K, FillLog
<1>T. /\ t \in 1..clock
      /\ \A i \in 1..Len(log) : log[i].q = rq[c] => log[i].ts <= t
  <2>1. CASE STAMP_FIRST
    BY <2>1, <1>P DEF StampOK
  <2>2. CASE ~STAMP_FIRST
    BY <2>2, <1>0 DEF RecordOK, ProgTypes
  <2> QED
    BY <2>1, <2>2
<1>pc. \A d \in Cpus : pc'[d] = IF d = c THEN "filled" ELSE pc[d]
  BY <1>0, <1>P DEF ProgTypes
<1> HIDE DEF k, t
<1>1. TypeOK'
  BY <1>0, <1>L, <1>P DEF TypeOK
<1>2. OnePerRq'
  BY <1>P, <1>pc DEF OnePerRq
<1>3. OwnerOK'
  <2> SUFFICES ASSUME NEW d \in Cpus, Owns(d)'
               PROVE  /\ slot[d] \in 1..Len(log)
                      /\ log'[slot[d]].busy
                      /\ log'[slot[d]].q = rq[d]
                      /\ log'[slot[d]].hit = hits[rq[d]]
                      /\ pc'[d] = "filled" =>
                           log'[slot[d]].val = log'[slot[d]].hit
                             /\ log'[slot[d]].ts \in 1..clock
    BY <1>L, <1>P DEF OwnerOK
  <2>1. CASE d = c
    BY <2>1, <1>K, <1>L, <1>R, <1>T DEF k
  <2>2. CASE d # c
    <3>1. Owns(d) /\ pc'[d] = pc[d]
      BY <2>2, <1>pc DEF Owns
    <3>2. slot[d] \in 1..Len(log) /\ log'[slot[d]] = log[slot[d]]
      BY <2>2, <3>1, <1>K, <1>L DEF OwnerOK
    <3> QED
      BY <3>1, <3>2 DEF OwnerOK
  <2> QED
    BY <2>1, <2>2
<1>4. BusyOwned'
  <2>1. \A i \in 1..Len(log) : log'[i].busy = log[i].busy
    BY <1>L
  <2>2. \A d \in Cpus : Owns(d)' <=> Owns(d)
    BY <1>P, <1>pc DEF Owns
  <2> QED
    BY <2>1, <2>2, <1>L, <1>P DEF BusyOwned
<1>5. RecordOK'
  <2> SUFFICES ASSUME NEW i \in 1..Len(log)
               PROVE  /\ log'[i].hit \in 1..hits[log'[i].q]
                      /\ log'[i].ts <= clock
                      /\ ~log'[i].busy => log'[i].val = log'[i].hit /\ log'[i].ts > 0
    BY <1>L, <1>P DEF RecordOK
  <2>1. CASE i = k
    BY <2>1, <1>0, <1>L, <1>R, <1>T DEF RecordOK, ProgTypes
  <2>2. CASE i # k
    BY <2>2, <1>L DEF RecordOK
  <2> QED
    BY <2>1, <2>2
<1>6. EnteredOK'
  <2>1. \A i \in 1..Len(log) :
          log'[i].busy = log[i].busy /\ log'[i].hit = log[i].hit /\ log'[i].q = log[i].q
    BY <1>L
  <2> QED
    BY <2>1, <1>L, <1>P, <1>pc DEF EnteredOK
<1>7. StampOK'
  <2> SUFFICES ASSUME NEW d \in Cpus, STAMP_FIRST, pc'[d] \in {"entered", "reserved"}
               PROVE  /\ stamp[d] \in 1..clock
                      /\ \A i \in 1..Len(log) : log'[i].q = rq[d] => log'[i].ts <= stamp[d]
    BY <1>L, <1>P DEF StampOK
  <2>1. d # c /\ pc[d] \in {"entered", "reserved"}
    BY <1>pc
  <2>2. rq[d] # rq[c]
    BY <2>1, <1>P DEF OnePerRq
  <2>3. \A i \in 1..Len(log) : log'[i].q = rq[d] => i # k /\ log'[i] = log[i]
    BY <2>2, <1>L, <1>R
  <2> QED
    BY <2>1, <2>3 DEF StampOK
<1>8. LogOrder'
  <2> SUFFICES ASSUME NEW i \in 1..Len(log), NEW j \in 1..Len(log),
                      i < j, log'[i].q = log'[j].q
               PROVE  /\ ~log'[i].busy
                      /\ log'[i].hit < log'[j].hit
                      /\ log'[j].ts > 0 => log'[i].ts <= log'[j].ts
    BY <1>L DEF LogOrder
  <2>1. \A m \in 1..Len(log) :
          log'[m].busy = log[m].busy /\ log'[m].hit = log[m].hit /\ log'[m].q = log[m].q
    BY <1>L
  <2>2. ~log[i].busy /\ log[i].hit < log[j].hit
    BY <2>1 DEF LogOrder
  <2>3. i # k /\ log'[i] = log[i]
    BY <2>2, <1>L, <1>R
  <2>4. CASE j = k
    BY <2>1, <2>2, <2>3, <2>4, <1>L, <1>R, <1>T
  <2>5. CASE j # k
    BY <2>1, <2>2, <2>3, <2>5, <1>L DEF LogOrder
  <2> QED
    BY <2>4, <2>5
<1>9. SeenOK'
  BY <1>0, <1>K, <1>L, <1>P DEF SeenOK, LogTypes
<1>10. RoomOK'
  BY <1>L, <1>P DEF RoomOK
<1> QED
  BY <1>1, <1>2, <1>3, <1>4, <1>5, <1>6, <1>7, <1>8, <1>9, <1>10

\* A submission keeps it: the record is complete.
LEMMA SubmitIInv ==
  ASSUME IInv, NEW c \in Cpus, Submit(c)
  PROVE  IInv'
<1> USE DEF IInv
<1> DEFINE k == slot[c]
<1>0. ProgTypes /\ LogTypes
  BY TypeFacts
<1>P. /\ pc[c] = "filled" /\ pc' = [pc EXCEPT ![c] = "idle"]
      /\ UNCHANGED <<cons, reading, seen, rq, stamp, slot, hits, lost, clock>>
  BY DEF Submit
<1>K. /\ k \in 1..Len(log)
      /\ \A i \in 1..Len(seen) : i # k
      /\ \A d \in Cpus : d # c /\ Owns(d) => slot[d] # k
  BY <1>P, OwnRecord DEF Owns
<1>R. log[k].val = log[k].hit /\ log[k].ts \in 1..clock
  BY <1>P DEF OwnerOK, Owns
<1>L. /\ log' \in Seq(Record)
      /\ Len(log') = Len(log)
      /\ \A i \in 1..Len(log) : i # k => log'[i] = log[i]
      /\ log'[k].q = log[k].q /\ log'[k].hit = log[k].hit
      /\ log'[k].val = log[k].val /\ log'[k].ts = log[k].ts
      /\ log'[k].busy = FALSE
  BY <1>K, SubmitLog
<1>pc. \A d \in Cpus : pc'[d] = IF d = c THEN "idle" ELSE pc[d]
  BY <1>0, <1>P DEF ProgTypes
<1> HIDE DEF k
<1>F. \A i \in 1..Len(log) :
        /\ log'[i].q = log[i].q /\ log'[i].hit = log[i].hit
        /\ log'[i].val = log[i].val /\ log'[i].ts = log[i].ts
        /\ log'[i].busy => i # k /\ log[i].busy
  BY <1>L
<1>1. TypeOK'
  BY <1>0, <1>L, <1>P DEF TypeOK
<1>2. OnePerRq'
  BY <1>P, <1>pc DEF OnePerRq
<1>3. OwnerOK'
  <2> SUFFICES ASSUME NEW d \in Cpus, Owns(d)'
               PROVE  /\ slot[d] \in 1..Len(log)
                      /\ log'[slot[d]].busy
                      /\ log'[slot[d]].q = rq[d]
                      /\ log'[slot[d]].hit = hits[rq[d]]
                      /\ pc'[d] = "filled" =>
                           log'[slot[d]].val = log'[slot[d]].hit
                             /\ log'[slot[d]].ts \in 1..clock
    BY <1>L, <1>P DEF OwnerOK
  <2>1. d # c /\ Owns(d) /\ pc'[d] = pc[d]
    BY <1>pc DEF Owns
  <2>2. slot[d] \in 1..Len(log) /\ log'[slot[d]] = log[slot[d]]
    BY <2>1, <1>K, <1>L DEF OwnerOK
  <2> QED
    BY <2>1, <2>2 DEF OwnerOK
<1>4. BusyOwned'
  <2> SUFFICES ASSUME NEW i \in 1..Len(log), log'[i].busy
               PROVE  \E d \in Cpus : Owns(d)' /\ slot[d] = i
    BY <1>L, <1>P DEF BusyOwned
  <2>1. PICK d \in Cpus : Owns(d) /\ slot[d] = i
    BY <1>F DEF BusyOwned
  <2>2. d # c
    BY <2>1, <1>F DEF k
  <2> QED
    BY <2>1, <2>2, <1>pc DEF Owns
<1>5. RecordOK'
  <2> SUFFICES ASSUME NEW i \in 1..Len(log)
               PROVE  /\ log'[i].hit \in 1..hits[log'[i].q]
                      /\ log'[i].ts <= clock
                      /\ ~log'[i].busy => log'[i].val = log'[i].hit /\ log'[i].ts > 0
    BY <1>L, <1>P DEF RecordOK
  <2>1. CASE i = k
    BY <2>1, <1>F, <1>R DEF RecordOK
  <2>2. CASE i # k
    BY <2>2, <1>L DEF RecordOK
  <2> QED
    BY <2>1, <2>2
<1>6. EnteredOK'
  BY <1>F, <1>L, <1>P, <1>pc DEF EnteredOK
<1>7. StampOK'
  BY <1>F, <1>L, <1>P, <1>pc DEF StampOK
<1>8. LogOrder'
  BY <1>F, <1>L DEF LogOrder
<1>9. SeenOK'
  BY <1>0, <1>K, <1>L, <1>P DEF SeenOK, LogTypes
<1>10. RoomOK'
  BY <1>L, <1>P DEF RoomOK
<1> QED
  BY <1>1, <1>2, <1>3, <1>4, <1>5, <1>6, <1>7, <1>8, <1>9, <1>10

\* The clock keeps it: nothing refers to a future time.
LEMMA TickIInv ==
  ASSUME IInv, Tick
  PROVE  IInv'
<1> USE DEF IInv
<1>0. ProgTypes /\ LogTypes
  BY TypeFacts
<1>P. clock' = clock + 1 /\ UNCHANGED <<ringVars, progVars>>
  BY DEF Tick
<1> USE DEF ringVars, progVars
<1>1. TypeOK'
  BY <1>P DEF TypeOK
<1>2. OwnerOK'
  BY <1>0, <1>P DEF OwnerOK, Owns, ProgTypes, LogTypes
<1>3. RecordOK'
  BY <1>0, <1>P DEF RecordOK, ProgTypes, LogTypes
<1>4. StampOK'
  BY <1>0, <1>P DEF StampOK, ProgTypes, LogTypes
<1>5. OnePerRq' /\ BusyOwned' /\ EnteredOK' /\ LogOrder' /\ SeenOK' /\ RoomOK'
  BY <1>P DEF OnePerRq, BusyOwned, Owns, EnteredOK, LogOrder, SeenOK, RoomOK
<1> QED
  BY <1>1, <1>2, <1>3, <1>4, <1>5

\* A call of the handler keeps it: the record handed over is not busy.
LEMMA CallbackIInv ==
  ASSUME IInv, Callback
  PROVE  IInv'
<1> USE DEF IInv
<1>0. ProgTypes /\ LogTypes
  BY TypeFacts
<1>P. /\ ~reading /\ cons < Len(log) /\ ~log[cons + 1].busy
      /\ reading' = TRUE /\ seen' = Append(seen, log[cons + 1])
      /\ UNCHANGED <<log, cons, progVars, clock>>
  BY DEF Callback
<1>1. log \in Seq(Record) /\ seen \in Seq(Record) /\ log[cons + 1] \in Record
  BY <1>0, <1>P, ElementOfSeq DEF TypeOK, LogTypes
<1>2. /\ seen' \in Seq(Record)
      /\ Len(seen') = Len(seen) + 1
      /\ \A i \in 1..Len(seen) : seen'[i] = seen[i]
      /\ seen'[Len(seen) + 1] = log[cons + 1]
  BY <1>1, <1>P, AppendProperties
<1>3. TypeOK'
  BY <1>2, <1>P DEF TypeOK, progVars
<1>4. SeenOK'
  <2>1. Len(seen) = cons
    BY <1>P DEF SeenOK
  <2>2. ASSUME NEW i \in 1..Len(seen) + 1
        PROVE  seen'[i] = log[i] /\ ~log[i].busy
    <3>1. CASE i = Len(seen) + 1
      BY <3>1, <2>1, <1>2, <1>P
    <3>2. CASE i # Len(seen) + 1
      <4>1. i \in 1..Len(seen)
        BY <3>2, <1>0 DEF LogTypes
      <4> QED
        BY <4>1, <1>2 DEF SeenOK
    <3> QED
      BY <3>1, <3>2
  <2> QED
    BY <2>1, <2>2, <1>0, <1>2, <1>P DEF SeenOK, LogTypes
<1>5. OnePerRq' /\ OwnerOK' /\ BusyOwned' /\ RecordOK' /\ EnteredOK' /\ StampOK'
  BY <1>P DEF OnePerRq, OwnerOK, BusyOwned, Owns, RecordOK, EnteredOK, StampOK, progVars
<1>6. LogOrder' /\ RoomOK'
  BY <1>P DEF LogOrder, RoomOK
<1> QED
  BY <1>3, <1>4, <1>5, <1>6

\* Giving back a record keeps it.
LEMMA ReleaseIInv ==
  ASSUME IInv, Release
  PROVE  IInv'
<1> USE DEF IInv
<1>0. ProgTypes /\ LogTypes
  BY TypeFacts
<1>P. /\ reading /\ reading' = FALSE /\ cons' = cons + 1
      /\ UNCHANGED <<log, seen, progVars, clock>>
  BY DEF Release
<1>1. cons + 1 <= Len(log) /\ Len(seen) = cons + 1
  BY <1>P DEF SeenOK
<1>2. TypeOK'
  <2>1. cons' \in 0..Len(log)
    BY <1>0, <1>1, <1>P DEF LogTypes
  <2> QED
    BY <2>1, <1>P DEF TypeOK, progVars
<1>3. SeenOK' /\ RoomOK'
  BY <1>0, <1>1, <1>P, RingAssumption DEF SeenOK, RoomOK, LogTypes
<1>4. OnePerRq' /\ OwnerOK' /\ BusyOwned' /\ RecordOK' /\ EnteredOK' /\ StampOK'
  BY <1>P DEF OnePerRq, OwnerOK, BusyOwned, Owns, RecordOK, EnteredOK, StampOK, progVars
<1>5. LogOrder'
  BY <1>P DEF LogOrder
<1> QED
  BY <1>2, <1>3, <1>4, <1>5

-----------------------------------------------------------------------------
(* The theorems.                                                           *)

\* The inductive invariant holds in every state of the ring.
THEOREM Invariance == Spec => []IInv
<1>1. Init => IInv
  BY InitIInv
<1>2. IInv /\ [Next]_vars => IInv'
  <2> SUFFICES ASSUME IInv, [Next]_vars PROVE IInv'
    OBVIOUS
  <2>1. CASE Next
    BY <2>1, EnterIInv, ReserveIInv, ReserveFailsIInv, FillIInv, SubmitIInv,
       TickIInv, CallbackIInv, ReleaseIInv DEF Next
  <2>2. CASE UNCHANGED vars
    BY <2>2 DEF vars, ringVars, progVars, IInv, TypeOK, OnePerRq, OwnerOK, BusyOwned,
       RecordOK, EnteredOK, StampOK, LogOrder, SeenOK, RoomOK, Owns
  <2> QED
    BY <2>1, <2>2
<1> QED
  BY <1>1, <1>2, PTL DEF Spec

\* The variables keep their types: in particular the consumer position never
\* passes the records reserved by the BPF programs.
THEOREM TypeCorrect == Spec => []TypeOK
<1>1. IInv => TypeOK
  BY DEF IInv
<1> QED
  BY <1>1, Invariance, PTL

\* Samples of one runqueue reach the daemon's handler in the order of the
\* tracepoint hits with timestamps that never go back, for both patterns of
\* reading the clock.
THEOREM OrderPreserved == Spec => []PerRqOrder
<1>1. IInv => PerRqOrder
  <2> SUFFICES ASSUME IInv, NEW i \in 1..Len(seen), NEW j \in 1..Len(seen),
                      i < j, seen[i].q = seen[j].q
               PROVE  seen[i].hit < seen[j].hit /\ seen[i].ts <= seen[j].ts
    BY DEF PerRqOrder
  <2>0. LogTypes
    BY TypeFacts DEF IInv
  <2>1. i \in 1..Len(log) /\ j \in 1..Len(log)
    BY <2>0 DEF IInv, SeenOK, LogTypes
  <2>2. seen[i] = log[i] /\ seen[j] = log[j] /\ ~log[j].busy
    BY DEF IInv, SeenOK
  <2>3. log[j].ts > 0
    BY <2>1, <2>2 DEF IInv, RecordOK
  <2> QED
    BY <2>1, <2>2, <2>3 DEF IInv, LogOrder
<1> QED
  BY <1>1, Invariance, PTL

\* The handler only ever gets complete records, and they stay as it saw them.
THEOREM NoTornRecord == Spec => []NeverTorn
<1>1. IInv => NeverTorn
  <2> SUFFICES ASSUME IInv, NEW i \in 1..Len(seen)
               PROVE  seen[i] = log[i] /\ seen[i].val = seen[i].hit /\ seen[i].ts > 0
    BY DEF NeverTorn
  <2>0. LogTypes
    BY TypeFacts DEF IInv
  <2>1. i \in 1..Len(log) /\ seen[i] = log[i] /\ ~log[i].busy
    BY <2>0 DEF IInv, SeenOK, LogTypes
  <2> QED
    BY <2>1 DEF IInv, RecordOK
<1> QED
  BY <1>1, Invariance, PTL

-----------------------------------------------------------------------------
(* Nothing vanishes: a second inductive invariant on top of IInv.          *)

\* Hit n of runqueue q is lost, or has a record, or its program is about to
\* reserve one.
Covered(q, n) ==
  \/ n \in lost[q]
  \/ \E i \in 1..Len(log) : log[i].q = q /\ log[i].hit = n
  \/ \E c \in Cpus : pc[c] = "entered" /\ rq[c] = q /\ n = hits[q]

AccInv ==
  \A q \in Rqs :
    /\ lost[q] \subseteq 1..hits[q]
    /\ \A n \in 1..hits[q] : Covered(q, n)

\* A hit is accounted for by the program that just started.
LEMMA EnterAcc ==
  ASSUME IInv, AccInv, NEW c \in Cpus, NEW p \in Rqs, Enter(c, p)
  PROVE  AccInv'
<1>0. ProgTypes /\ LogTypes
  BY TypeFacts DEF IInv
<1>P. /\ pc[c] = "idle" /\ \A d \in Cpus : pc[d] # "idle" => rq[d] # p
      /\ pc' = [pc EXCEPT ![c] = "entered"]
      /\ rq' = [rq EXCEPT ![c] = p]
      /\ hits' = [hits EXCEPT ![p] = @ + 1]
      /\ UNCHANGED <<lost, log>>
  BY DEF Enter, ringVars
<1> SUFFICES ASSUME NEW q \in Rqs
             PROVE  /\ lost[q] \subseteq 1..hits'[q]
                    /\ \A n \in 1..hits'[q] : Covered(q, n)'
  BY <1>P DEF AccInv
<1>1. lost[q] \subseteq 1..hits[q] /\ \A n \in 1..hits[q] : Covered(q, n)
  BY DEF AccInv
<1>2. CASE q = p
  <2>1. hits[p] \in Nat /\ hits'[p] = hits[p] + 1
    BY <1>0, <1>P DEF ProgTypes
  <2>2. lost[p] \subseteq 1..hits'[p]
    BY <1>1, <1>2, <2>1
  <2>3. ASSUME NEW n \in 1..hits'[p] PROVE Covered(p, n)'
    <3>1. CASE n = hits'[p]
      BY <3>1, <1>0, <1>P DEF Covered, ProgTypes
    <3>2. CASE n # hits'[p]
      <4>1. n \in 1..hits[p]
        BY <3>2, <2>1
      <4> QED
        BY <4>1, <1>1, <1>2, <1>P DEF Covered
    <3> QED
      BY <3>1, <3>2
  <2> QED
    BY <1>2, <2>2, <2>3
<1>3. CASE q # p
  <2>1. hits'[q] = hits[q]
    BY <1>3, <1>0, <1>P DEF ProgTypes
  <2>2. \A d \in Cpus : pc[d] = "entered" => pc'[d] = "entered" /\ rq'[d] = rq[d]
    BY <1>0, <1>P DEF ProgTypes
  <2> QED
    BY <1>1, <1>P, <2>1, <2>2 DEF Covered
<1> QED
  BY <1>2, <1>3

\* A reservation moves the hit from the program to the record.
LEMMA ReserveAcc ==
  ASSUME IInv, AccInv, NEW c \in Cpus, Reserve(c)
  PROVE  AccInv'
<1> DEFINE m == Len(log)
<1>0. ProgTypes /\ LogTypes
  BY TypeFacts DEF IInv
<1>P. /\ pc[c] = "entered" /\ pc' = [pc EXCEPT ![c] = "reserved"]
      /\ UNCHANGED <<rq, hits, lost>>
  BY DEF Reserve
<1>n. m \in Nat
  BY <1>0 DEF LogTypes
<1>R. /\ Len(log') = m + 1
      /\ \A i \in 1..m : log'[i] = log[i]
      /\ log'[m + 1] =
           [q |-> rq[c], hit |-> hits[rq[c]], val |-> 0, ts |-> 0, busy |-> TRUE]
  BY ReserveLog DEF IInv
<1>L. /\ Len(log') = m + 1 /\ m \in Nat
      /\ \A i \in 1..m : log'[i] = log[i]
      /\ log'[m + 1].q = rq[c] /\ log'[m + 1].hit = hits[rq[c]]
  BY <1>n, <1>R
<1> HIDE DEF m
<1> SUFFICES ASSUME NEW q \in Rqs, NEW n \in 1..hits[q], Covered(q, n)
             PROVE  Covered(q, n)'
  BY <1>P DEF AccInv
<1>1. CASE n \in lost[q]
  BY <1>1, <1>P DEF Covered
<1>2. CASE \E i \in 1..m : log[i].q = q /\ log[i].hit = n
  <2>1. PICK i \in 1..m : log[i].q = q /\ log[i].hit = n
    BY <1>2
  <2>2. i \in 1..Len(log') /\ log'[i].q = q /\ log'[i].hit = n
    BY <2>1, <1>L
  <2> QED
    BY <2>2 DEF Covered
<1>3. CASE \E d \in Cpus : pc[d] = "entered" /\ rq[d] = q /\ n = hits[q]
  <2>1. PICK d \in Cpus : pc[d] = "entered" /\ rq[d] = q /\ n = hits[q]
    BY <1>3
  <2>2. CASE d = c
    <3>1. m + 1 \in 1..Len(log') /\ log'[m + 1].q = q /\ log'[m + 1].hit = n
      BY <2>1, <2>2, <1>L
    <3> QED
      BY <3>1 DEF Covered
  <2>3. CASE d # c
    BY <2>1, <2>3, <1>0, <1>P DEF Covered, ProgTypes
  <2> QED
    BY <2>2, <2>3
<1> QED
  BY <1>1, <1>2, <1>3 DEF Covered, m

\* A refused reservation moves the hit from the program to lost.
LEMMA ReserveFailsAcc ==
  ASSUME IInv, AccInv, NEW c \in Cpus, ReserveFails(c)
  PROVE  AccInv'
<1>0. ProgTypes /\ LogTypes
  BY TypeFacts DEF IInv
<1>P. /\ pc[c] = "entered" /\ pc' = [pc EXCEPT ![c] = "idle"]
      /\ lost' = [lost EXCEPT ![rq[c]] = @ \cup {hits[rq[c]]}]
      /\ UNCHANGED <<rq, hits, log>>
  BY DEF ReserveFails, ringVars
<1>1. hits[rq[c]] \in 1..hits[rq[c]]
  BY <1>0, <1>P DEF IInv, EnteredOK, ProgTypes
<1>2. \A q \in Rqs : lost'[q] = IF q = rq[c] THEN lost[q] \cup {hits[q]} ELSE lost[q]
  BY <1>0, <1>P DEF ProgTypes
<1>3. \A d \in Cpus : pc[d] = "entered" => d = c \/ pc'[d] = "entered"
  BY <1>0, <1>P DEF ProgTypes
<1> SUFFICES ASSUME NEW q \in Rqs
             PROVE  /\ lost'[q] \subseteq 1..hits[q]
                    /\ \A n \in 1..hits[q] : Covered(q, n)'
  BY <1>P DEF AccInv
<1>4. lost'[q] \subseteq 1..hits[q]
  <2>1. lost[q] \subseteq 1..hits[q]
    BY DEF AccInv
  <2> DEFINE upto == 1..hits[q]
  <2>2. q = rq[c] => hits[q] \in upto
    BY <1>1
  <2>3. lost[q] \subseteq upto
    BY <2>1
  <2>4. lost'[q] = IF q = rq[c] THEN lost[q] \cup {hits[q]} ELSE lost[q]
    BY <1>2
  <2> HIDE DEF upto
  <2>5. lost'[q] \subseteq upto
    BY <2>2, <2>3, <2>4, Zenon
  <2> QED
    BY <2>5 DEF upto
<1>5. ASSUME NEW n \in 1..hits[q] PROVE Covered(q, n)'
  <2>1. Covered(q, n)
    BY DEF AccInv
  <2>2. CASE n \in lost[q]
    BY <2>2, <1>2 DEF Covered
  <2>3. CASE \E i \in 1..Len(log) : log[i].q = q /\ log[i].hit = n
    BY <2>3, <1>P DEF Covered
  <2>4. CASE \E d \in Cpus : pc[d] = "entered" /\ rq[d] = q /\ n = hits[q]
    <3>1. PICK d \in Cpus : pc[d] = "entered" /\ rq[d] = q /\ n = hits[q]
      BY <2>4
    <3>2. CASE d = c
      BY <3>1, <3>2, <1>2 DEF Covered
    <3>3. CASE d # c
      BY <3>1, <3>3, <1>3, <1>P DEF Covered
    <3> QED
      BY <3>2, <3>3
  <2> QED
    BY <2>1, <2>2, <2>3, <2>4 DEF Covered
<1> QED
  BY <1>4, <1>5

\* An action that keeps every record's hit and adds no program keeps AccInv.
LEMMA KeepAcc ==
  ASSUME AccInv, UNCHANGED <<rq, hits, lost>>, Len(log') = Len(log),
         \A i \in 1..Len(log) : log'[i].q = log[i].q /\ log'[i].hit = log[i].hit,
         \A c \in Cpus : pc[c] = "entered" => pc'[c] = "entered"
  PROVE  AccInv'
BY DEF AccInv, Covered

\* Every step keeps the account.
LEMMA NextAcc ==
  ASSUME IInv, AccInv, [Next]_vars
  PROVE  AccInv'
<1>0. ProgTypes /\ LogTypes
  BY TypeFacts DEF IInv
<1>1. ASSUME NEW c \in Cpus, Fill(c) PROVE AccInv'
  <2>1. pc[c] = "reserved" /\ pc' = [pc EXCEPT ![c] = "filled"]
        /\ UNCHANGED <<rq, hits, lost>>
    BY <1>1 DEF Fill
  <2>2. slot[c] \in 1..Len(log)
    BY <2>1, OwnRecord DEF Owns
  <2>3. Len(log') = Len(log)
        /\ \A i \in 1..Len(log) : log'[i].q = log[i].q /\ log'[i].hit = log[i].hit
    BY <2>2, <1>1, FillLog DEF IInv
  <2> QED
    BY <2>1, <2>3, <1>0, KeepAcc DEF ProgTypes
<1>2. ASSUME NEW c \in Cpus, Submit(c) PROVE AccInv'
  <2>1. pc[c] = "filled" /\ pc' = [pc EXCEPT ![c] = "idle"]
        /\ UNCHANGED <<rq, hits, lost>>
    BY <1>2 DEF Submit
  <2>2. slot[c] \in 1..Len(log)
    BY <2>1, OwnRecord DEF Owns
  <2>3. Len(log') = Len(log)
        /\ \A i \in 1..Len(log) : log'[i].q = log[i].q /\ log'[i].hit = log[i].hit
    BY <2>2, <1>2, SubmitLog DEF IInv
  <2> QED
    BY <2>1, <2>3, <1>0, KeepAcc DEF ProgTypes
<1>3. CASE Tick \/ Callback \/ Release \/ UNCHANGED vars
  <2>1. UNCHANGED <<log, pc, rq, hits, lost>>
    BY <1>3 DEF Tick, Callback, Release, vars, ringVars, progVars
  <2> QED
    BY <2>1 DEF AccInv, Covered
<1> QED
  BY <1>1, <1>2, <1>3, EnterAcc, ReserveAcc, ReserveFailsAcc DEF Next

\* Once the programs are idle and the ring is drained, every tracepoint hit
\* was either handled by the daemon or refused by a full ring.
THEOREM AllAccounted == Spec => []EveryHitAccounted
<1>1. Init => AccInv
  BY DEF Init, AccInv
<1>2. IInv /\ AccInv /\ [Next]_vars => AccInv'
  BY NextAcc
<1>3. IInv /\ AccInv => EveryHitAccounted
  <2> SUFFICES ASSUME IInv, AccInv, \A c \in Cpus : pc[c] = "idle", cons = Len(log),
                      NEW q \in Rqs
               PROVE  1..hits[q] = lost[q] \cup
                        {seen[i].hit : i \in {k \in 1..Len(seen) : seen[k].q = q}}
    BY DEF EveryHitAccounted
  <2>0. LogTypes
    BY TypeFacts DEF IInv
  <2>1. Len(seen) = Len(log) /\ \A i \in 1..Len(log) : seen[i] = log[i]
    BY <2>0 DEF IInv, SeenOK, LogTypes
  <2>2. lost[q] \subseteq 1..hits[q]
    BY DEF AccInv
  <2>3. \A i \in 1..Len(seen) : seen[i].q = q => seen[i].hit \in 1..hits[q]
    BY <2>1 DEF IInv, RecordOK
  <2>4. \A n \in 1..hits[q] :
          n \in lost[q] \/ \E i \in 1..Len(seen) : seen[i].q = q /\ seen[i].hit = n
    BY <2>1 DEF AccInv, Covered
  <2> QED
    BY <2>2, <2>3, <2>4
<1> QED
  BY <1>1, <1>2, <1>3, Invariance, PTL DEF Spec

-----------------------------------------------------------------------------
(* The ring as a channel.                                                  *)

Item == [q : Rqs, hit : Nat]

\* The bound on hits, which Decide of the channel repeats.
HitsBounded == \A q \in Rqs : hits[q] <= MaxHits

(* Sequences given element by element.                                     *)

\* A function on 1..n is a sequence of length n.
LEMMA SeqFromFcn ==
  ASSUME NEW S, NEW n \in Nat, NEW f \in [1..n -> S]
  PROVE  f \in Seq(S) /\ Len(f) = n
<1>1. f \in Seq(S)
  BY SeqDef
<1>2. Len(f) \in Nat /\ DOMAIN f = 1..Len(f)
  BY <1>1, LenProperties
<1>3. 1..n = 1..Len(f)
  BY <1>2
<1> QED
  BY <1>1, <1>2, <1>3

\* One element more at the end is Append.
LEMMA AppendIs ==
  ASSUME NEW S, NEW s \in Seq(S), NEW e \in S, NEW t \in Seq(S),
         Len(t) = Len(s) + 1, \A i \in 1..Len(s) : t[i] = s[i], t[Len(s) + 1] = e
  PROVE  t = Append(s, e)
<1>1. /\ Append(s, e) \in Seq(S)
      /\ Len(Append(s, e)) = Len(s) + 1
      /\ \A i \in 1..Len(s) : Append(s, e)[i] = s[i]
      /\ Append(s, e)[Len(s) + 1] = e
  BY AppendProperties
<1>2. Len(s) \in Nat
  BY LenProperties
<1>3. \A i \in 1..Len(t) : t[i] = Append(s, e)[i]
  BY <1>1, <1>2
<1> QED
  BY <1>1, <1>3, SeqEqual

\* One element less at the front is Tail.
LEMMA TailIs ==
  ASSUME NEW S, NEW s \in Seq(S), s # <<>>, NEW t \in Seq(S),
         Len(t) = Len(s) - 1, \A i \in 1..Len(t) : t[i] = s[i + 1]
  PROVE  t = Tail(s)
<1>1. /\ Tail(s) \in Seq(S)
      /\ Len(Tail(s)) = Len(s) - 1
      /\ \A i \in 1..Len(Tail(s)) : Tail(s)[i] = s[i + 1]
  BY HeadTailProperties
<1> QED
  BY <1>1, SeqEqual

-----------------------------------------------------------------------------
(* The mapping.                                                            *)

\* The queue of the channel, element by element, from any log l and any
\* sequence s of what the handler got.
LEMMA QueueOf ==
  ASSUME NEW l \in Seq(Record), NEW s \in Seq(Record), Len(s) <= Len(l),
         NEW f, f = [k \in 1..(Len(l) - Len(s)) |->
                       [q |-> l[Len(s) + k].q, hit |-> l[Len(s) + k].hit]]
  PROVE  /\ f \in Seq(Item)
         /\ Len(f) = Len(l) - Len(s)
         /\ \A k \in 1..(Len(l) - Len(s)) :
              f[k] = [q |-> l[Len(s) + k].q, hit |-> l[Len(s) + k].hit]
<1> DEFINE n == Len(l) - Len(s)
<1>1. n \in Nat /\ Len(l) \in Nat /\ Len(s) \in Nat
  BY LenProperties
<1>2. \A k \in 1..n : l[Len(s) + k] \in Record
  <2> SUFFICES ASSUME NEW k \in 1..n PROVE l[Len(s) + k] \in Record
    OBVIOUS
  <2>1. Len(s) + k \in 1..Len(l)
    BY <1>1
  <2> QED
    BY <2>1, ElementOfSeq
<1>3. f \in [1..n -> Item]
  BY <1>2 DEF Item, Record
<1> QED
  BY <1>1, <1>3, SeqFromFcn, ZenonT(60)

\* What came out of the channel, element by element, likewise.
LEMMA OutOf ==
  ASSUME NEW s \in Seq(Record),
         NEW f, f = [k \in 1..Len(s) |-> [q |-> s[k].q, hit |-> s[k].val]]
  PROVE  /\ f \in Seq(Item)
         /\ Len(f) = Len(s)
         /\ \A k \in 1..Len(s) : f[k] = [q |-> s[k].q, hit |-> s[k].val]
<1>1. Len(s) \in Nat
  BY LenProperties
<1>2. \A k \in 1..Len(s) : s[k] \in Record
  BY ElementOfSeq
<1>3. f \in [1..Len(s) -> Item]
  BY <1>2 DEF Item, Record
<1> QED
  BY <1>1, <1>3, SeqFromFcn, ZenonT(60)

\* The mapped queue and output in this state ...
LEMMA BarsNow ==
  ASSUME TypeOK, SeenOK
  PROVE  /\ queueBar \in Seq(Item)
         /\ Len(queueBar) = Len(log) - Len(seen)
         /\ \A k \in 1..(Len(log) - Len(seen)) :
              queueBar[k] = [q |-> log[Len(seen) + k].q, hit |-> log[Len(seen) + k].hit]
         /\ outBar \in Seq(Item)
         /\ Len(outBar) = Len(seen)
         /\ \A k \in 1..Len(seen) : outBar[k] = [q |-> seen[k].q, hit |-> seen[k].val]
<1>1. log \in Seq(Record) /\ seen \in Seq(Record) /\ Len(seen) <= Len(log)
  BY DEF TypeOK, SeenOK
<1> QED
  BY <1>1, QueueOf, OutOf, ZenonT(60) DEF queueBar, outBar

\* ... and in the next one.
LEMMA BarsNext ==
  ASSUME TypeOK', SeenOK'
  PROVE  /\ queueBar' \in Seq(Item)
         /\ Len(queueBar') = Len(log') - Len(seen')
         /\ \A k \in 1..(Len(log') - Len(seen')) :
              queueBar'[k] = [q |-> log'[Len(seen') + k].q, hit |-> log'[Len(seen') + k].hit]
         /\ outBar' \in Seq(Item)
         /\ Len(outBar') = Len(seen')
         /\ \A k \in 1..Len(seen') : outBar'[k] = [q |-> seen'[k].q, hit |-> seen'[k].val]
<1>1. log' \in Seq(Record) /\ seen' \in Seq(Record) /\ Len(seen') <= Len(log')
  BY DEF TypeOK, SeenOK
<1> QED
  BY <1>1, QueueOf, OutOf, ZenonT(60) DEF queueBar, outBar

\* A step that touches neither the hit of a record nor what the handler got
\* leaves queue and output alone.
LEMMA SeqBarsKept ==
  ASSUME TypeOK, SeenOK, Len(log') = Len(log), seen' = seen,
         \A i \in 1..Len(log) : log'[i].q = log[i].q /\ log'[i].hit = log[i].hit
  PROVE  queueBar' = queueBar /\ outBar' = outBar
<1>0. LogTypes
  BY TypeFacts
<1>1. \A k \in 1..(Len(log) - Len(seen)) : Len(seen) + k \in 1..Len(log)
  BY <1>0 DEF SeenOK, LogTypes
<1>2. queueBar' = queueBar
  BY <1>1 DEF queueBar
<1> QED
  BY <1>2 DEF outBar

\* A step that keeps the programs that have not reserved yet decides nothing.
LEMMA DecidedKept ==
  ASSUME hits' = hits, rq' = rq,
         \A c \in Cpus : pc'[c] = "entered" <=> pc[c] = "entered"
  PROVE  decidedBar' = decidedBar
<1>1. \A q \in Rqs : Undecided(q)' <=> Undecided(q)
  BY DEF Undecided
<1> QED
  BY <1>1 DEF decidedBar

\* The end of its reservation, however it ends, decides the hit of program c.
LEMMA Decides ==
  ASSUME IInv, NEW c \in Cpus, pc[c] = "entered", hits' = hits, rq' = rq,
         pc'[c] # "entered",
         \A d \in Cpus : d # c => (pc'[d] = "entered" <=> pc[d] = "entered")
  PROVE  /\ decidedBar' = [decidedBar EXCEPT ![rq[c]] = @ + 1]
         /\ decidedBar[rq[c]] + 1 = hits[rq[c]]
<1>0. ProgTypes
  BY TypeFacts DEF IInv
<1>1. rq[c] \in Rqs /\ hits[rq[c]] \in Nat
  BY <1>0 DEF ProgTypes
<1>2. Undecided(rq[c])
  BY DEF Undecided
<1>3. ~Undecided(rq[c])'
  <2>1. \A d \in Cpus : d # c /\ pc[d] = "entered" => rq[d] # rq[c]
    BY DEF IInv, OnePerRq
  <2> QED
    BY <2>1 DEF Undecided
<1>4. ASSUME NEW q \in Rqs, q # rq[c] PROVE Undecided(q)' <=> Undecided(q)
  BY <1>4 DEF Undecided
<1>5. decidedBar[rq[c]] = hits[rq[c]] - 1
  BY <1>1, <1>2 DEF decidedBar
<1>6. \A q \in Rqs : decidedBar'[q] = [decidedBar EXCEPT ![rq[c]] = @ + 1][q]
  BY <1>1, <1>3, <1>4, <1>5 DEF decidedBar
<1>7. decidedBar' = [decidedBar EXCEPT ![rq[c]] = @ + 1]
  BY <1>6 DEF decidedBar
<1> QED
  BY <1>1, <1>5, <1>7

-----------------------------------------------------------------------------
(* The steps.                                                              *)

BarsKept == queueBar' = queueBar /\ decidedBar' = decidedBar /\ outBar' = outBar

\* A new hit is counted and held back at once.
LEMMA EnterMaps ==
  ASSUME IInv, NEW c \in Cpus, NEW p \in Rqs, Enter(c, p)
  PROVE  BarsKept
<1>0. ProgTypes
  BY TypeFacts DEF IInv
<1>1. /\ pc[c] = "idle" /\ \A d \in Cpus : pc[d] # "idle" => rq[d] # p
      /\ pc' = [pc EXCEPT ![c] = "entered"]
      /\ rq' = [rq EXCEPT ![c] = p]
      /\ hits' = [hits EXCEPT ![p] = @ + 1]
      /\ log' = log /\ seen' = seen
  BY DEF Enter, ringVars
<1>2. queueBar' = queueBar /\ outBar' = outBar
  BY <1>1 DEF queueBar, outBar
<1>3. ~Undecided(p) /\ Undecided(p)'
  BY <1>0, <1>1 DEF Undecided, ProgTypes
<1>4. ASSUME NEW q \in Rqs, q # p PROVE Undecided(q)' <=> Undecided(q)
  BY <1>0, <1>1, <1>4 DEF Undecided, ProgTypes
<1>5. \A q \in Rqs : decidedBar'[q] = decidedBar[q]
  BY <1>0, <1>1, <1>3, <1>4 DEF decidedBar, ProgTypes
<1>6. decidedBar' = decidedBar
  BY <1>5 DEF decidedBar
<1> QED
  BY <1>2, <1>6 DEF BarsKept

\* A reservation queues the hit of its program.
LEMMA ReserveMaps ==
  ASSUME IInv, IInv', HitsBounded, NEW c \in Cpus, Reserve(c)
  PROVE  Chan!Accept(rq[c])
<1> DEFINE item == [q |-> rq[c], hit |-> hits[rq[c]]]
<1>0. ProgTypes /\ LogTypes
  BY TypeFacts DEF IInv
<1>1. /\ pc[c] = "entered" /\ pc' = [pc EXCEPT ![c] = "reserved"]
      /\ UNCHANGED <<seen, rq, hits>>
      /\ Len(log) - cons < RB_SIZE
  BY DEF Reserve, HasRoom
<1>2. /\ Len(log') = Len(log) + 1
      /\ \A i \in 1..Len(log) : log'[i] = log[i]
      /\ log'[Len(log) + 1].q = rq[c] /\ log'[Len(log) + 1].hit = hits[rq[c]]
  <2>1. /\ Len(log') = Len(log) + 1
        /\ \A i \in 1..Len(log) : log'[i] = log[i]
        /\ log'[Len(log) + 1] =
             [q |-> rq[c], hit |-> hits[rq[c]], val |-> 0, ts |-> 0, busy |-> TRUE]
    BY ReserveLog DEF IInv
  <2> QED
    BY <2>1
<1>3. rq[c] \in Rqs /\ item \in Item
  BY <1>0 DEF ProgTypes, Item
<1>4. /\ decidedBar' = [decidedBar EXCEPT ![rq[c]] = @ + 1]
      /\ decidedBar[rq[c]] + 1 = hits[rq[c]]
  BY <1>0, <1>1, Decides DEF ProgTypes
<1>5. decidedBar[rq[c]] < MaxHits
  <2>1. decidedBar[rq[c]] \in Int
    BY <1>0, <1>3 DEF decidedBar, ProgTypes
  <2>2. hits[rq[c]] <= MaxHits
    BY <1>3 DEF HitsBounded
  <2> QED
    BY <2>1, <2>2, <1>4, RingAssumption
<1>6. /\ queueBar \in Seq(Item)
      /\ Len(queueBar) = Len(log) - Len(seen)
      /\ \A k \in 1..(Len(log) - Len(seen)) :
           queueBar[k] = [q |-> log[Len(seen) + k].q, hit |-> log[Len(seen) + k].hit]
  BY BarsNow DEF IInv
<1>7. /\ queueBar' \in Seq(Item)
      /\ Len(queueBar') = Len(log') - Len(seen)
      /\ \A k \in 1..(Len(log') - Len(seen)) :
           queueBar'[k] = [q |-> log'[Len(seen) + k].q, hit |-> log'[Len(seen) + k].hit]
  BY <1>1, BarsNext DEF IInv
<1>8. Len(queueBar) < RB_SIZE
  BY <1>0, <1>1, <1>6, RingAssumption DEF IInv, SeenOK, LogTypes
<1>9. queueBar' = Append(queueBar, item)
  <2> DEFINE n == Len(log) - Len(seen)
  <2>1. n \in Nat /\ Len(seen) \in Nat /\ Len(log) \in Nat
    BY <1>0 DEF IInv, SeenOK, LogTypes
  <2>2. Len(queueBar') = Len(queueBar) + 1
    BY <1>2, <1>6, <1>7, <2>1
  <2>3. \A k \in 1..Len(queueBar) : queueBar'[k] = queueBar[k]
    <3> SUFFICES ASSUME NEW k \in 1..n PROVE queueBar'[k] = queueBar[k]
      BY <1>6
    <3>1. Len(seen) + k \in 1..Len(log) /\ k \in 1..(Len(log') - Len(seen))
      BY <2>1, <1>2
    <3> QED
      BY <3>1, <1>2, <1>6, <1>7, ZenonT(60)
  <2>4. queueBar'[Len(queueBar) + 1] = item
    <3>1. Len(queueBar) + 1 \in 1..(Len(log') - Len(seen))
          /\ Len(seen) + (Len(queueBar) + 1) = Len(log) + 1
      BY <1>2, <1>6, <2>1
    <3> QED
      BY <3>1, <1>2, <1>7
  <2> QED
    BY <1>3, <1>6, <1>7, <2>2, <2>3, <2>4, AppendIs
<1>10. Chan!Hit(rq[c]) = item
  BY <1>4 DEF Chan!Hit
<1> QED
  BY <1>1, <1>4, <1>5, <1>8, <1>9, <1>10 DEF Chan!Accept, Chan!Decide, outBar

\* A refused reservation loses it; the ring was full, and at most the record
\* under the handler is no longer queued.
LEMMA ReserveFailsMaps ==
  ASSUME IInv, HitsBounded, NEW c \in Cpus, ReserveFails(c)
  PROVE  Chan!Lose(rq[c])
<1>0. ProgTypes /\ LogTypes
  BY TypeFacts DEF IInv
<1>1. /\ pc[c] = "entered" /\ pc' = [pc EXCEPT ![c] = "idle"]
      /\ UNCHANGED <<log, seen, rq, hits>>
      /\ ~(Len(log) - cons < RB_SIZE)
  BY DEF ReserveFails, HasRoom, ringVars
<1>2. /\ decidedBar' = [decidedBar EXCEPT ![rq[c]] = @ + 1]
      /\ decidedBar[rq[c]] + 1 = hits[rq[c]]
  BY <1>0, <1>1, Decides DEF ProgTypes
<1>3. decidedBar[rq[c]] < MaxHits
  <2>1. rq[c] \in Rqs /\ decidedBar[rq[c]] \in Int
    BY <1>0 DEF decidedBar, ProgTypes
  <2>2. hits[rq[c]] <= MaxHits
    BY <2>1 DEF HitsBounded
  <2> QED
    BY <2>1, <2>2, <1>2, RingAssumption
<1>4. Len(queueBar) = Len(log) - Len(seen)
  BY BarsNow DEF IInv
<1>5. Len(queueBar) >= RB_SIZE - 1
  BY <1>0, <1>1, <1>4, RingAssumption DEF IInv, SeenOK, LogTypes
<1> QED
  BY <1>1, <1>2, <1>3, <1>5 DEF Chan!Lose, Chan!Decide, queueBar, outBar

\* The handler gets the oldest record, and its contents are those of its hit.
LEMMA CallbackMaps ==
  ASSUME IInv, IInv', Callback
  PROVE  Chan!Deliver
<1> DEFINE n == Len(log) - Len(seen)
           m == Len(seen)
<1>0. LogTypes
  BY TypeFacts DEF IInv
<1>1. /\ ~reading /\ cons < Len(log) /\ ~log[cons + 1].busy
      /\ seen' = Append(seen, log[cons + 1])
      /\ UNCHANGED <<log, pc, rq, hits>>
  BY DEF Callback, progVars
<1>2. m = cons /\ m \in Nat /\ Len(log) \in Nat /\ n \in Nat /\ n > 0 /\ m + 1 \in 1..Len(log)
  BY <1>0, <1>1 DEF IInv, SeenOK, LogTypes
<1>3. log[m + 1] \in Record /\ log[m + 1].val = log[m + 1].hit
  <2>1. log[m + 1] \in Record
    BY <1>2, ElementOfSeq DEF IInv, TypeOK
  <2> QED
    BY <2>1, <1>1, <1>2 DEF IInv, RecordOK
<1>4. /\ Len(seen') = m + 1
      /\ \A i \in 1..m : seen'[i] = seen[i]
      /\ seen'[m + 1] = log[m + 1]
  BY <1>1, <1>2, <1>3, AppendProperties DEF IInv, TypeOK
<1>5. /\ queueBar \in Seq(Item)
      /\ Len(queueBar) = n
      /\ \A k \in 1..n : queueBar[k] = [q |-> log[m + k].q, hit |-> log[m + k].hit]
  BY BarsNow DEF IInv
<1>6. /\ queueBar' \in Seq(Item)
      /\ Len(queueBar') = n - 1
      /\ \A k \in 1..(n - 1) :
           queueBar'[k] = [q |-> log[(m + 1) + k].q, hit |-> log[(m + 1) + k].hit]
  <2>1. /\ queueBar' \in Seq(Item)
        /\ Len(queueBar') = Len(log') - Len(seen')
        /\ \A k \in 1..(Len(log') - Len(seen')) :
             queueBar'[k] = [q |-> log'[Len(seen') + k].q, hit |-> log'[Len(seen') + k].hit]
    BY BarsNext DEF IInv
  <2>2. Len(log') - Len(seen') = n - 1
    BY <1>1, <1>2, <1>4
  <2> QED
    BY <2>1, <2>2, <1>1, <1>4
<1>7. queueBar # <<>>
  BY <1>2, <1>5, EmptySeq
<1>8. queueBar' = Tail(queueBar)
  <2>1. \A k \in 1..Len(queueBar') : queueBar'[k] = queueBar[k + 1]
    <3> SUFFICES ASSUME NEW k \in 1..(n - 1) PROVE queueBar'[k] = queueBar[k + 1]
      BY <1>6
    <3>1. k + 1 \in 1..n /\ m + (k + 1) = (m + 1) + k
      BY <1>2
    <3>2. queueBar[k + 1] = [q |-> log[m + (k + 1)].q, hit |-> log[m + (k + 1)].hit]
      BY <3>1, <1>5
    <3>3. queueBar'[k] = [q |-> log[(m + 1) + k].q, hit |-> log[(m + 1) + k].hit]
      BY <1>6
    <3> HIDE DEF m, n
    <3> QED
      BY <3>1, <3>2, <3>3
  <2> QED
    BY <2>1, <1>5, <1>6, <1>7, TailIs
<1>9. Head(queueBar) = [q |-> log[m + 1].q, hit |-> log[m + 1].hit]
  <2>1. Head(queueBar) = queueBar[1]
    BY <1>5, <1>7
  <2> QED
    BY <2>1, <1>2, <1>5
<1>10. outBar' = Append(outBar, Head(queueBar))
  <2>1. /\ outBar \in Seq(Item) /\ Len(outBar) = m
        /\ \A k \in 1..m : outBar[k] = [q |-> seen[k].q, hit |-> seen[k].val]
    BY BarsNow DEF IInv
  <2>2. /\ outBar' \in Seq(Item) /\ Len(outBar') = Len(seen')
        /\ \A k \in 1..Len(seen') : outBar'[k] = [q |-> seen'[k].q, hit |-> seen'[k].val]
    BY BarsNext DEF IInv
  <2>3. \A k \in 1..Len(outBar) : outBar'[k] = outBar[k]
    BY <1>2, <1>4, <2>1, <2>2, SMTT(60)
  <2>4. outBar'[Len(outBar) + 1] = Head(queueBar)
    BY <1>2, <1>3, <1>4, <1>9, <2>1, <2>2
  <2>5. Head(queueBar) \in Item
    BY <1>3, <1>9 DEF Item, Record
  <2> QED
    BY <1>2, <1>4, <2>1, <2>2, <2>3, <2>4, <2>5, AppendIs
<1>11. decidedBar' = decidedBar
  BY <1>1 DEF decidedBar, Undecided
<1> QED
  BY <1>7, <1>8, <1>10, <1>11 DEF Chan!Deliver

\* The other steps are invisible.
LEMMA OthersMap ==
  ASSUME IInv, Tick \/ Release \/ UNCHANGED vars \/ \E c \in Cpus : Fill(c) \/ Submit(c)
  PROVE  BarsKept
<1>0. ProgTypes /\ LogTypes
  BY TypeFacts DEF IInv
<1>1. CASE Tick \/ Release \/ UNCHANGED vars
  <2>1. UNCHANGED <<log, seen, pc, rq, hits>>
    BY <1>1 DEF Tick, Release, vars, ringVars, progVars
  <2> QED
    BY <2>1 DEF BarsKept, queueBar, outBar, decidedBar, Undecided
<1>2. ASSUME NEW c \in Cpus, Fill(c) PROVE BarsKept
  <2>1. /\ pc[c] = "reserved" /\ pc' = [pc EXCEPT ![c] = "filled"]
        /\ UNCHANGED <<seen, rq, hits>>
    BY <1>2 DEF Fill
  <2>2. slot[c] \in 1..Len(log)
    BY <2>1, OwnRecord DEF Owns
  <2>3. Len(log') = Len(log)
        /\ \A i \in 1..Len(log) : log'[i].q = log[i].q /\ log'[i].hit = log[i].hit
    BY <2>2, <1>2, FillLog DEF IInv
  <2>4. \A d \in Cpus : pc'[d] = "entered" <=> pc[d] = "entered"
    BY <2>1, <1>0 DEF ProgTypes
  <2> QED
    BY <2>1, <2>3, <2>4, SeqBarsKept, DecidedKept DEF BarsKept, IInv
<1>3. ASSUME NEW c \in Cpus, Submit(c) PROVE BarsKept
  <2>1. /\ pc[c] = "filled" /\ pc' = [pc EXCEPT ![c] = "idle"]
        /\ UNCHANGED <<seen, rq, hits>>
    BY <1>3 DEF Submit
  <2>2. slot[c] \in 1..Len(log)
    BY <2>1, OwnRecord DEF Owns
  <2>3. Len(log') = Len(log)
        /\ \A i \in 1..Len(log) : log'[i].q = log[i].q /\ log'[i].hit = log[i].hit
    BY <2>2, <1>3, SubmitLog DEF IInv
  <2>4. \A d \in Cpus : pc'[d] = "entered" <=> pc[d] = "entered"
    BY <2>1, <1>0 DEF ProgTypes
  <2> QED
    BY <2>1, <2>3, <2>4, SeqBarsKept, DecidedKept DEF BarsKept, IInv
<1> QED
  BY <1>1, <1>2, <1>3

-----------------------------------------------------------------------------
\* The bound on hits is kept.
LEMMA HitsStayBounded == Spec => []HitsBounded
<1>1. Init => HitsBounded
  BY RingAssumption DEF Init, HitsBounded
<1>2. IInv /\ HitsBounded /\ [Next]_vars => HitsBounded'
  <2> SUFFICES ASSUME IInv, HitsBounded, [Next]_vars PROVE HitsBounded'
    OBVIOUS
  <2>0. ProgTypes
    BY TypeFacts DEF IInv
  <2>1. ASSUME NEW c \in Cpus, NEW p \in Rqs, Enter(c, p) PROVE HitsBounded'
    BY <2>0, <2>1, RingAssumption DEF Enter, HitsBounded, ProgTypes
  <2>2. CASE hits' = hits
    BY <2>2 DEF HitsBounded
  <2> QED
    BY <2>1, <2>2 DEF Next, Reserve, ReserveFails, Fill, Submit, Tick, Callback, Release,
                      vars, progVars
<1> QED
  BY <1>1, <1>2, Invariance, PTL DEF Spec

\* The ring with its programs and its polling thread is a bounded queue: for
\* any number of CPUs and any interleaving each hit is accepted in its turn
\* or lost to a full ring, and the handler gets exactly what was accepted, in
\* order and with the contents of its hit.
THEOREM RingIsChannel == Spec => ImplementsChannel
<1>1. Init => Chan!Init
  <2> SUFFICES ASSUME Init PROVE Chan!Init
    OBVIOUS
  <2>1. log = <<>> /\ seen = <<>> /\ hits = [q \in Rqs |-> 0] /\ \A c \in Cpus : pc[c] = "idle"
    BY DEF Init
  <2>2. queueBar = <<>> /\ outBar = <<>>
    BY <2>1 DEF queueBar, outBar
  <2>3. \A q \in Rqs : ~Undecided(q)
    BY <2>1 DEF Undecided
  <2>4. decidedBar = [q \in Rqs |-> 0]
    BY <2>1, <2>3 DEF decidedBar
  <2> QED
    BY <2>2, <2>4 DEF Chan!Init
<1>2. IInv /\ IInv' /\ HitsBounded /\ [Next]_vars => [Chan!Next]_(Chan!chanVars)
  <2> SUFFICES ASSUME IInv, IInv', HitsBounded, [Next]_vars
               PROVE  Chan!Next \/ UNCHANGED Chan!chanVars
    OBVIOUS
  <2>1. BarsKept => UNCHANGED Chan!chanVars
    BY DEF BarsKept, Chan!chanVars
  <2>2. ASSUME NEW c \in Cpus, Reserve(c) PROVE Chan!Next
    <3>1. rq[c] \in Rqs
      BY TypeFacts DEF IInv, ProgTypes
    <3> QED
      BY <2>2, <3>1, ReserveMaps DEF Chan!Next
  <2>3. ASSUME NEW c \in Cpus, ReserveFails(c) PROVE Chan!Next
    <3>1. rq[c] \in Rqs
      BY TypeFacts DEF IInv, ProgTypes
    <3> QED
      BY <2>3, <3>1, ReserveFailsMaps DEF Chan!Next
  <2>4. CASE Callback
    BY <2>4, CallbackMaps DEF Chan!Next
  <2>5. CASE \E c \in Cpus, q \in Rqs : Enter(c, q)
    BY <2>1, <2>5, EnterMaps
  <2>6. CASE Tick \/ Release \/ UNCHANGED vars \/ \E c \in Cpus : Fill(c) \/ Submit(c)
    BY <2>1, <2>6, OthersMap
  <2> QED
    BY <2>2, <2>3, <2>4, <2>5, <2>6 DEF Next
<1> QED
  BY <1>1, <1>2, Invariance, HitsStayBounded, PTL DEF Spec, ImplementsChannel, Chan!Spec
=============================================================================
