---------------------------- MODULE TraceSession ----------------------------
(***************************************************************************)
(* What reaches the trace.  The daemon of SchedAnalyzer with the records   *)
(* in its rings told apart: the programs write from the moment they are    *)
(* attached, the threads hand on what they find, and perfetto keeps what a *)
(* handler emits between StartBlocking() and StopBlocking(), or until the  *)
(* session has ended by itself at its duration or file size.               *)
(***************************************************************************)
EXTENDS SchedAnalyzer, Sequences

CONSTANT MaxHits   \* bound: tracepoint hits per ring

ASSUME SessionAssumption == MaxHits \in Nat

VARIABLES
  hits,     \* hits[t]: tracepoint hits for ring t
  buf,      \* buf[t]: the hits whose records are in ring t
  dropped,  \* dropped[t]: the hits that found ring t full
  handled,  \* handled[t]: the last hit a handler was called for
  traced    \* traced[t]: the hits that are in the trace

recVars == <<hits, buf, dropped, handled, traced>>
sessionVars == <<vars, recVars>>

SessionInit ==
  /\ Init
  /\ hits = [t \in Threads |-> 0]
  /\ buf = [t \in Threads |-> <<>>]
  /\ dropped = [t \in Threads |-> {}]
  /\ handled = [t \in Threads |-> 0]
  /\ traced = [t \in Threads |-> <<>>]

-----------------------------------------------------------------------------
(* Mutated forms: plausible slips in this code.                            *)

\* Events are enabled only once main() has stopped waiting.
TracingLate == session = "started" /\ main # "wait"

\* The oldest record makes room for the newest.
DropOldest(t) ==
  /\ t \in attached
  /\ hits[t] < MaxHits
  /\ ring[t] = RingCap
  /\ hits' = [hits EXCEPT ![t] = @ + 1]
  /\ dropped' = [dropped EXCEPT ![t] = @ \cup {hits'[t]}]
  /\ buf' = [buf EXCEPT ![t] = Append(Tail(@), hits'[t])]
  /\ UNCHANGED <<vars, handled, traced>>

-----------------------------------------------------------------------------
\* A hit of an attached program: its record is queued ...
Write(t) ==
  /\ hits[t] < MaxHits
  /\ Produce(t)
  /\ hits' = [hits EXCEPT ![t] = @ + 1]
  /\ buf' = [buf EXCEPT ![t] = Append(@, hits'[t])]
  /\ UNCHANGED <<dropped, handled, traced>>

\* ... or bpf_ringbuf_reserve() returns NULL.
Drop(t) ==
  /\ t \in attached
  /\ hits[t] < MaxHits
  /\ ring[t] = RingCap
  /\ hits' = [hits EXCEPT ![t] = @ + 1]
  /\ dropped' = [dropped EXCEPT ![t] = @ \cup {hits'[t]}]
  /\ UNCHANGED <<vars, buf, handled, traced>>

\* TRACE_COUNTER() and TRACE_EVENT() do nothing without a session.
Tracing == session = "started"

\* handle_<event>_event() and the TRACE_COUNTER() in it.
HandleRecord(t) ==
  /\ Consume(t)
  /\ handled' = [handled EXCEPT ![t] = Head(buf[t])]
  /\ traced' = IF Tracing THEN [traced EXCEPT ![t] = Append(@, Head(buf[t]))] ELSE traced
  /\ buf' = [buf EXCEPT ![t] = Tail(@)]
  /\ UNCHANGED <<hits, dropped>>

\* The maps go with the skeleton, and what is in them.
Destroy ==
  /\ DestroySkel
  /\ buf' = [t \in Threads |-> <<>>]
  /\ UNCHANGED <<hits, dropped, handled, traced>>

MainRest ==
  \/ ParseArgs \/ OpenSkel \/ LoadSkel \/ AttachProg \/ AttachSkel
  \/ CreateThread \/ AllCreated \/ StartTrace
  \/ WaitExiting \/ StopTrace \/ JoinThread \/ AllJoined

\* The steps of a thread but the handling of a record.
PollStep(t) ==
  /\ CreateRb(t) \/ TestExiting(t) \/ PollReady(t) \/ PollTimeout(t) \/ Drained(t) \/ FreeRb(t)
  /\ UNCHANGED recVars

SessionNext ==
  \/ MainRest /\ UNCHANGED recVars
  \/ Destroy
  \/ (SessionEnds \/ Signal) /\ UNCHANGED recVars
  \/ \E t \in Threads :
       \/ PollStep(t)
       \/ PollError(t) /\ UNCHANGED recVars
       \/ HandleRecord(t)
       \/ Write(t) \/ Drop(t)

SessionFairness ==
  /\ WF_sessionVars((MainRest /\ UNCHANGED recVars) \/ Destroy)
  /\ \A t \in Threads : WF_sessionVars(PollStep(t) \/ HandleRecord(t))

SessionSpec == SessionInit /\ [][SessionNext]_sessionVars
SessionFairSpec == SessionSpec /\ SessionFairness

-----------------------------------------------------------------------------
(* Properties.                                                             *)

TracedSet(t) == {traced[t][n] : n \in 1..Len(traced[t])}

\* The trace of a ring has no holes but those of a full ring: between its
\* first and its last record every hit is there, once and in order, or was
\* dropped when the ring was full.  Poll errors, the other threads and the
\* moments at which the session starts and stops, or ends by itself, cost
\* records at the ends only.
TraceHasNoHoles ==
  \A t \in Threads :
    /\ \A m, n \in 1..Len(traced[t]) : m < n => traced[t][m] < traced[t][n]
    /\ \A n \in 1..hits[t] :
         (\E a, b \in TracedSet(t) : a <= n /\ n <= b) =>
           (n \in TracedSet(t) <=> n \notin dropped[t])

\* A record that is in a ring while the session runs gets into the trace,
\* unless CTRL+c or the end of the session by itself comes first, or the
\* thread has no ring_buffer.
QueuedIsTraced ==
  PollsRecover =>
    \A t \in Threads, n \in 1..MaxHits :
      (session = "started" /\ \E p \in 1..Len(buf[t]) : buf[t][p] = n)
        ~> (n \in TracedSet(t) \/ exiting \/ session = "ended" \/ rbFailed[t])
=============================================================================
