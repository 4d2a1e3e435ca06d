--------------------------- MODULE SchedAnalyzer ---------------------------
(***************************************************************************)
(* The life of the sched-analyzer daemon: main(), the polling thread it    *)
(* starts for every ring buffer, the signal handler, the BPF skeleton and  *)
(* the perfetto session, with every error path main() and the threads have.*)
(*                                                                         *)
(* Thread t is the t-th of the calls CREATE_EVENT_THREAD(rq_pelt) ..       *)
(* CREATE_EVENT_THREAD(ipi); DESTROY_EVENT_THREAD joins in the same order. *)
(* Of the records in a ring only their number matters here; EventRing      *)
(* models what is in them.  ring_buffer__poll() is libbpf's: it waits for  *)
(* data and then calls the handler until it finds the ring empty.          *)
(***************************************************************************)
EXTENDS Integers

CONSTANTS
  N,          \* number of polling threads (8 in the code)
  Producers,  \* rings whose BPF programs were not disabled by set_autoload
  RingCap     \* bound: capacity of a ring, in records

ASSUME LifeAssumption ==
  /\ N \in Nat \ {0}
  /\ Producers \subseteq 1..N
  /\ RingCap \in Nat \ {0}

Threads == 1..N

VARIABLES
  main,      \* where main() is
  k,         \* the thread main() creates or joins next
  exiting,   \* the flag the signal handler sets
  created,   \* created[t]: event##_err is 0
  thr,       \* thr[t]: where thread t is
  rb,        \* rb[t]: thread t's struct ring_buffer exists
  rbFailed,  \* rbFailed[t]: ring_buffer__new() failed in thread t
  ring,      \* ring[t]: records waiting in the BPF ring
  skel,      \* the BPF skeleton
  attached,  \* the rings for which a program is attached and writes
  fd,        \* the trace file: never opened, open, could not be opened, closed
  session,   \* the perfetto tracing session
  err,       \* main()'s err: 0, or negative after a failed call
  failed,    \* the first call of main() that failed, or "none"
  status     \* exit status of the process

mainVars == <<main, k, created, err, failed, status>>
thrVars == <<thr, rb, rbFailed>>
skelVars == <<skel, attached>>
traceVars == <<fd, session>>
vars == <<mainVars, exiting, thrVars, ring, skelVars, traceVars>>

MainPc == {"argp", "open", "load", "attach", "create", "start", "wait", "stop",
           "join", "destroy", "exited"}
ThreadPc == {"none", "new", "test", "poll", "drain", "free", "done"}

TypeOK ==
  /\ main \in MainPc
  /\ k \in 1..(N + 1)
  /\ exiting \in BOOLEAN
  /\ created \in [Threads -> BOOLEAN]
  /\ thr \in [Threads -> ThreadPc]
  /\ rb \in [Threads -> BOOLEAN]
  /\ rbFailed \in [Threads -> BOOLEAN]
  /\ ring \in [Threads -> 0..RingCap]
  /\ skel \in {"null", "open", "loaded", "attached", "destroyed"}
  /\ attached \subseteq Producers
  /\ fd \in {"zero", "open", "bad", "closed"}
  /\ session \in {"none", "started", "ended", "stopped"}
  /\ err \in {0, -1}
  /\ failed \in {"none", "argp", "open", "load", "attach", "create"}
  /\ status \in {0, 1}

Init ==
  /\ main = "argp"
  /\ k = 1
  /\ exiting = FALSE
  /\ created = [t \in Threads |-> FALSE]
  /\ thr = [t \in Threads |-> "none"]
  /\ rb = [t \in Threads |-> FALSE]
  /\ rbFailed = [t \in Threads |-> FALSE]
  /\ ring = [t \in Threads |-> 0]
  /\ skel = "null"
  /\ attached = {}
  /\ fd = "zero"
  /\ session = "none"
  /\ err = 0
  /\ failed = "none"
  /\ status = 0

Live(t) == thr[t] \notin {"none", "done"}

-----------------------------------------------------------------------------
(* Mutated forms of the definitions below: plausible slips in this code.   *)

\* pthread_join() is dropped from DESTROY_EVENT_THREAD.
JoinNoWait ==
  /\ main = "join"
  /\ k <= N
  /\ err' = 0
  /\ k' = k + 1
  /\ UNCHANGED <<main, created, failed, status, exiting, thrVars, ring, skelVars, traceVars>>

\* DESTROY_EVENT_THREAD does not test event##_err before it joins.
JoinUnchecked ==
  /\ main = "join"
  /\ k <= N
  /\ thr[k] = "done"
  /\ err' = 0
  /\ k' = k + 1
  /\ UNCHANGED <<main, created, failed, status, exiting, thrVars, ring, skelVars, traceVars>>

\* DESTROY_EVENT_THREAD keeps the error that led to cleanup.
JoinKeepsErr ==
  /\ main = "join"
  /\ k <= N
  /\ created[k] => thr[k] = "done"
  /\ k' = k + 1
  /\ UNCHANGED <<main, created, err, failed, status, exiting, thrVars, ring, skelVars, traceVars>>

\* An error of ring_buffer__poll() leaves the loop of the thread.
PollErrorEnds(t) ==
  /\ thr[t] = "poll"
  /\ thr' = [thr EXCEPT ![t] = "free"]
  /\ UNCHANGED <<rb, rbFailed, mainVars, exiting, ring, skelVars, traceVars>>

\* The thread returns without DESTROY_EVENT_RB.
FreeForgotten(t) ==
  /\ thr[t] = "free"
  /\ thr' = [thr EXCEPT ![t] = "done"]
  /\ UNCHANGED <<rb, rbFailed, mainVars, exiting, ring, skelVars, traceVars>>

\* libbpf hands the callback a record that is not there.
ConsumeUnchecked(t) ==
  /\ thr[t] = "drain"
  /\ ring' = [ring EXCEPT ![t] = @ - 1]
  /\ UNCHANGED <<mainVars, exiting, thrVars, skelVars, traceVars>>

-----------------------------------------------------------------------------
(* main().                                                                 *)

Early(what, code) ==   \* return before anything needs cleaning up
  /\ failed' = what
  /\ status' = code
  /\ main' = "exited"

Cleanup(what) ==       \* goto cleanup
  /\ failed' = what
  /\ main' = "join"
  /\ k' = 1

\* argp_parse() .. signal(): a wrong option ends the process.
ParseArgs ==
  /\ main = "argp"
  /\ \/ main' = "open" /\ UNCHANGED <<failed, status>>
     \/ Early("argp", 1)
  /\ UNCHANGED <<k, created, err, exiting, thrVars, ring, skelVars, traceVars>>

OpenSkel ==
  /\ main = "open"
  /\ \/ main' = "load" /\ skel' = "open" /\ UNCHANGED <<failed, status>>
     \/ Early("open", 1) /\ UNCHANGED skel
  /\ UNCHANGED <<k, created, err, exiting, thrVars, ring, attached, traceVars>>

LoadSkel ==
  /\ main = "load"
  /\ \/ main' = "attach" /\ skel' = "loaded" /\ err' = 0 /\ UNCHANGED <<k, failed>>
     \/ Cleanup("load") /\ err' = -1 /\ UNCHANGED skel
  /\ UNCHANGED <<created, status, exiting, thrVars, ring, attached, traceVars>>

\* sched_analyzer_bpf__attach() attaches the programs one by one: those of a
\* ring begin to write while others are still missing.
AttachProg ==
  /\ main = "attach"
  /\ \E t \in Producers \ attached : attached' = attached \cup {t}
  /\ UNCHANGED <<mainVars, exiting, thrVars, ring, skel, traceVars>>

\* It returns when all are attached, or fails at one of them and leaves the
\* others to sched_analyzer_bpf__destroy().
AttachSkel ==
  /\ main = "attach"
  /\ \/ /\ attached = Producers
        /\ main' = "create" /\ skel' = "attached" /\ err' = 0 /\ UNCHANGED <<k, failed>>
     \/ Cleanup("attach") /\ err' = -1 /\ UNCHANGED skel
  /\ UNCHANGED <<created, status, exiting, thrVars, ring, attached, traceVars>>

\* CREATE_EVENT_THREAD for the next event.
CreateThread ==
  /\ main = "create"
  /\ k <= N
  /\ \/ /\ created' = [created EXCEPT ![k] = TRUE]
        /\ thr' = [thr EXCEPT ![k] = "new"]
        /\ k' = k + 1
        /\ UNCHANGED <<main, failed>>
     \/ Cleanup("create") /\ UNCHANGED <<created, thr>>
  /\ UNCHANGED <<err, status, exiting, rb, rbFailed, ring, skelVars, traceVars>>

AllCreated ==
  /\ main = "create"
  /\ k = N + 1
  /\ main' = "start"
  /\ UNCHANGED <<k, created, err, failed, status, exiting, thrVars, ring, skelVars, traceVars>>

\* start_perfetto_trace(): without a trace file there is no session, and
\* main() does not notice.
StartTrace ==
  /\ main = "start"
  /\ \/ fd' = "open" /\ session' = "started"
     \/ fd' = "bad" /\ UNCHANGED session
  /\ main' = "wait"
  /\ UNCHANGED <<k, created, err, failed, status, exiting, thrVars, ring, skelVars>>

\* perfetto ends the session by itself, after set_duration_ms(3600000) or at
\* set_max_file_size_bytes(sa_opts.max_size): nothing tells main() or the
\* threads, which go on as before.
SessionEnds ==
  /\ session = "started"
  /\ session' = "ended"
  /\ UNCHANGED <<mainVars, exiting, thrVars, ring, skelVars, fd>>

\* while (!exiting) sleep(1);
WaitExiting ==
  /\ main = "wait"
  /\ exiting
  /\ main' = "stop"
  /\ UNCHANGED <<k, created, err, failed, status, exiting, thrVars, ring, skelVars, traceVars>>

\* stop_perfetto_trace(): a bad fd returns early.
StopTrace ==
  /\ main = "stop"
  /\ IF fd = "bad" THEN UNCHANGED traceVars
     ELSE fd' = "closed" /\ session' = "stopped"
  /\ main' = "join"
  /\ k' = 1
  /\ UNCHANGED <<created, err, failed, status, exiting, thrVars, ring, skelVars>>

\* DESTROY_EVENT_THREAD for the next event: joins the thread if it was
\* created, and sets err to the result of the join.
JoinThread ==
  /\ main = "join"
  /\ k <= N
  /\ created[k] => thr[k] = "done"
  /\ err' = 0
  /\ k' = k + 1
  /\ UNCHANGED <<main, created, failed, status, exiting, thrVars, ring, skelVars, traceVars>>

AllJoined ==
  /\ main = "join"
  /\ k = N + 1
  /\ main' = "destroy"
  /\ UNCHANGED <<k, created, err, failed, status, exiting, thrVars, ring, skelVars, traceVars>>

\* sched_analyzer_bpf__destroy() detaches the programs and frees the maps;
\* return err < 0 ? -err : 0.
DestroySkel ==
  /\ main = "destroy"
  /\ skel' = "destroyed"
  /\ attached' = {}
  /\ status' = IF err < 0 THEN -err ELSE 0
  /\ ring' = [t \in Threads |-> 0]
  /\ main' = "exited"
  /\ UNCHANGED <<k, created, err, failed, exiting, thrVars, traceVars>>

MainStep ==
  \/ ParseArgs \/ OpenSkel \/ LoadSkel \/ AttachProg \/ AttachSkel
  \/ CreateThread \/ AllCreated
  \/ StartTrace \/ WaitExiting \/ StopTrace
  \/ JoinThread \/ AllJoined \/ DestroySkel

-----------------------------------------------------------------------------
(* sig_handler(), installed after the options are parsed.                  *)

Signal ==
  /\ main \notin {"argp", "exited"}
  /\ exiting' = TRUE
  /\ UNCHANGED <<mainVars, thrVars, ring, skelVars, traceVars>>

-----------------------------------------------------------------------------
(* event##_thread_fn().                                                    *)

\* CREATE_EVENT_RB: needs the maps of the skeleton.
CreateRb(t) ==
  /\ thr[t] = "new"
  /\ \/ rb' = [rb EXCEPT ![t] = TRUE] /\ thr' = [thr EXCEPT ![t] = "test"] /\ UNCHANGED rbFailed
     \/ rbFailed' = [rbFailed EXCEPT ![t] = TRUE] /\ thr' = [thr EXCEPT ![t] = "free"] /\ UNCHANGED rb
  /\ UNCHANGED <<mainVars, exiting, ring, skelVars, traceVars>>

\* while (!exiting), after the usleep() of the previous round.
TestExiting(t) ==
  /\ thr[t] = "test"
  /\ thr' = [thr EXCEPT ![t] = IF exiting THEN "free" ELSE "poll"]
  /\ UNCHANGED <<rb, rbFailed, mainVars, exiting, ring, skelVars, traceVars>>

\* The wait inside ring_buffer__poll() ends with data ...
PollReady(t) ==
  /\ thr[t] = "poll"
  /\ ring[t] > 0
  /\ thr' = [thr EXCEPT ![t] = "drain"]
  /\ UNCHANGED <<rb, rbFailed, mainVars, exiting, ring, skelVars, traceVars>>

\* ... after its timeout of 1000 ms ...
PollTimeout(t) ==
  /\ thr[t] = "poll"
  /\ ring[t] = 0
  /\ thr' = [thr EXCEPT ![t] = "test"]
  /\ UNCHANGED <<rb, rbFailed, mainVars, exiting, ring, skelVars, traceVars>>

\* ... or with -EINTR or another error.  The break in POLL_EVENT_RB only
\* leaves the macro: the thread stays in its loop.
PollError(t) ==
  /\ thr[t] = "poll"
  /\ thr' = [thr EXCEPT ![t] = "test"]
  /\ UNCHANGED <<rb, rbFailed, mainVars, exiting, ring, skelVars, traceVars>>

\* handle_<event>_event() for one record.
Consume(t) ==
  /\ thr[t] = "drain"
  /\ ring[t] > 0
  /\ ring' = [ring EXCEPT ![t] = @ - 1]
  /\ UNCHANGED <<mainVars, exiting, thrVars, skelVars, traceVars>>

Drained(t) ==
  /\ thr[t] = "drain"
  /\ ring[t] = 0
  /\ thr' = [thr EXCEPT ![t] = "test"]
  /\ UNCHANGED <<rb, rbFailed, mainVars, exiting, ring, skelVars, traceVars>>

\* cleanup: DESTROY_EVENT_RB.
FreeRb(t) ==
  /\ thr[t] = "free"
  /\ rb' = [rb EXCEPT ![t] = FALSE]
  /\ thr' = [thr EXCEPT ![t] = "done"]
  /\ UNCHANGED <<rbFailed, mainVars, exiting, ring, skelVars, traceVars>>

ThreadStep(t) ==
  \/ CreateRb(t) \/ TestExiting(t) \/ PollReady(t) \/ PollTimeout(t)
  \/ Consume(t) \/ Drained(t) \/ FreeRb(t)

-----------------------------------------------------------------------------
(* The attached BPF programs: they run until the skeleton is destroyed.    *)

Produce(t) ==
  /\ t \in attached
  /\ ring[t] < RingCap
  /\ ring' = [ring EXCEPT ![t] = @ + 1]
  /\ UNCHANGED <<mainVars, exiting, thrVars, skelVars, traceVars>>

Next ==
  \/ MainStep
  \/ SessionEnds
  \/ Signal
  \/ \E t \in Threads : ThreadStep(t) \/ PollError(t) \/ Produce(t)

\* main() and every thread are scheduled by the kernel, and every call they
\* make returns.  Signals, poll errors, records and the end of the session come
\* or do not come.
Fairness ==
  /\ WF_vars(MainStep)
  /\ \A t \in Threads : WF_vars(ThreadStep(t))

Spec == Init /\ [][Next]_vars
FairSpec == Spec /\ Fairness

-----------------------------------------------------------------------------
(* Properties.                                                             *)

\* No thread is alive, and no ring_buffer exists, unless the skeleton whose
\* maps they use is attached and not yet destroyed: on no path through
\* main(), including a failed CREATE_EVENT_THREAD, is the skeleton destroyed
\* under a thread.
SkelOutlivesThreads ==
  \A t \in Threads : Live(t) \/ rb[t] => skel = "attached"

\* When the process returns from main() every thread has ended, every
\* ring_buffer is freed, and a session that was started was stopped, be it one
\* that had ended by itself.
CleanExit ==
  main = "exited" =>
    /\ \A t \in Threads : ~Live(t) /\ ~rb[t]
    /\ session \notin {"started", "ended"} /\ fd # "open"
    /\ skel \in {"null", "destroyed"}

\* Once a thread has its ring_buffer main() cannot return before a signal:
\* neither poll errors nor the failed creation of a later thread end it.  The
\* daemon then sits in pthread_join() until somebody presses CTRL+c.
OnlySignalEndsThreads ==
  main = "exited" =>
    exiting \/ \A t \in Threads : created[t] => rbFailed[t]

\* Every failure after sched_analyzer_bpf__open() is reported as success:
\* the joins of cleanup overwrite err before it becomes the exit status.
StatusOnlyOfEarlyFailures ==
  main = "exited" => (status # 0 <=> failed \in {"argp", "open"})

\* CTRL+c ends the daemon, from wherever main() and the threads are,
\* provided that no ring is refilled for ever as fast as it is drained:
\* ring_buffer__poll() does not come back, and exiting is not looked at,
\* before the ring was found empty, and the programs stay attached until all
\* threads are joined.
Calm == \A t \in Threads : []<>(thr[t] # "drain")
StopsOnSignal == Calm => (exiting ~> main = "exited")

\* In the end no poll fails any more that had data to find.  (With an empty
\* ring an error and a timeout come to the same.)
PollsRecover == <>[][\A t \in Threads : ring[t] > 0 => ~PollError(t)]_vars

\* A ring that has records is emptied, over and over, unless its thread never
\* came to read it: pthread_create() failed for it or an earlier one, or
\* ring_buffer__new() failed in it.  Errors of ring_buffer__poll(), the
\* failures of other threads and a main() that hangs in cleanup do not
\* matter, and what CTRL+c leaves in the ring goes with the skeleton.
RingsEmptied ==
  PollsRecover /\ Calm =>
    \A t \in Threads :
      ring[t] > 0 ~> ring[t] = 0 \/ rbFailed[t] \/ (failed = "create" /\ ~created[t])
=============================================================================
