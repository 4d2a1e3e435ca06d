--------------------------- MODULE RingRefinement ---------------------------
(* EventRing implements EventChannel.  A hit counts as decided when its    *)
(* reservation has succeeded or failed, and a record leaves the queue when *)
(* the handler is called with it: its space is given back later.           *)
EXTENDS EventRing

\* A program that has been entered but not reserved yet holds back its hit.
Undecided(q) == \E c \in Cpus : pc[c] = "entered" /\ rq[c] = q

queueBar == [k \in 1..(Len(log) - Len(seen)) |->
               [q |-> log[Len(seen) + k].q, hit |-> log[Len(seen) + k].hit]]
decidedBar == [q \in Rqs |-> IF Undecided(q) THEN hits[q] - 1 ELSE hits[q]]

\* The contents of a record stand for the hit they were stored for.
outBar == [k \in 1..Len(seen) |-> [q |-> seen[k].q, hit |-> seen[k].val]]

Chan == INSTANCE EventChannel
          WITH CAPACITY <- RB_SIZE, queue <- queueBar, decided <- decidedBar, out <- outBar

\* Every step of the programs and of the polling thread is a step of the
\* bounded queue, or none: whatever the interleaving of reservations, stores
\* and submissions, the handler gets each hit that found room, in the order
\* of the reservations and with its own contents.
ImplementsChannel == Chan!Spec
=============================================================================
