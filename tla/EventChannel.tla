---------------------------- MODULE EventChannel ----------------------------
(***************************************************************************)
(* What a BPF ring buffer of sched-analyzer promises to the handler of its *)
(* events: a bounded queue from all tracepoints of all CPUs to one reader. *)
(* Each hit of a runqueue is, in its turn, either queued or lost, and lost *)
(* only when the queue is full or the reader is busy with the one record   *)
(* that is missing to that.  The reader gets what was queued, in order,    *)
(* complete and once.                                                      *)
(*                                                                         *)
(* CpuTracks, TaskTracks, LoadBalance and Ipi see their rings this way.    *)
(***************************************************************************)
EXTENDS Integers, Sequences

CONSTANTS
  Rqs,       \* what a hit is about
  CAPACITY,  \* records the queue has room for
  MaxHits    \* bound: hits per runqueue

VARIABLES
  queue,    \* the hits on their way
  decided,  \* decided[q]: how many hits of q were queued or lost
  out       \* what the reader got

chanVars == <<queue, decided, out>>

Hit(q) == [q |-> q, hit |-> decided[q] + 1]

Init ==
  /\ queue = <<>>
  /\ decided = [q \in Rqs |-> 0]
  /\ out = <<>>

Decide(q) ==
  /\ decided[q] < MaxHits
  /\ decided' = [decided EXCEPT ![q] = @ + 1]

Accept(q) ==
  /\ Len(queue) < CAPACITY
  /\ Decide(q)
  /\ queue' = Append(queue, Hit(q))
  /\ UNCHANGED out

Lose(q) ==
  /\ Len(queue) >= CAPACITY - 1
  /\ Decide(q)
  /\ UNCHANGED <<queue, out>>

Deliver ==
  /\ queue # <<>>
  /\ out' = Append(out, Head(queue))
  /\ queue' = Tail(queue)
  /\ UNCHANGED decided

Next ==
  \/ \E q \in Rqs : Accept(q) \/ Lose(q)
  \/ Deliver

Spec == Init /\ [][Next]_chanVars
=============================================================================
