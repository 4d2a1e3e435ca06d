------------------------- MODULE TraceSessionProofs -------------------------
(***************************************************************************)
(* Proofs about the life of the daemon for any number of polling threads,  *)
(* any set of active rings and any ring size.  LInv ties the position of   *)
(* main() to the state of the skeleton, the threads and the session; the   *)
(* properties are its instances at the positions they speak of.            *)
(*                                                                         *)
(* The second part is about what reaches the trace, for any number of      *)
(* hits.  The daemon of TraceSession is that of SchedAnalyzer, so that all *)
(* that is proved of the latter holds there; the inductive invariant       *)
(* accounts for every hit: it is traced, handled outside of the session,   *)
(* in the ring, or dropped.                                                *)
(***************************************************************************)
EXTENDS TraceSession, SequenceTheorems, TLAPS

\* The skeleton is what main() has made of it so far, and programs are
\* attached only while it is there.
SkelOK ==
  /\ main \in {"argp", "open"} => skel = "null"
  /\ main = "load" => skel = "open"
  /\ main = "attach" => skel = "loaded"
  /\ main \in {"create", "start", "wait", "stop"} => skel = "attached"
  /\ main \in {"join", "destroy"} =>
       skel \in {"open", "loaded", "attached"}
         /\ (\A t \in Threads : created[t] => skel = "attached")
  /\ main = "exited" => skel \in {"null", "destroyed"}
  /\ attached # {} => skel \in {"loaded", "attached"}

\* Threads exist only once main() creates them, and the ones main() has
\* joined are done.
ThreadsOK ==
  /\ \A t \in Threads : created[t] <=> thr[t] # "none"
  /\ main \in {"argp", "open", "load", "attach"} => \A t \in Threads : ~created[t]
  /\ main = "create" => \A t \in Threads : t >= k => ~created[t]
  /\ main = "join" => \A t \in Threads : t < k => ~Live(t)
  /\ main \in {"destroy", "exited"} => \A t \in Threads : ~Live(t)

\* A ring_buffer exists only inside the loop of its thread, and a thread only
\* leaves the loop after a signal, or never entered it.
RbOK ==
  \A t \in Threads :
    /\ rb[t] => thr[t] \in {"test", "poll", "drain", "free"}
    /\ thr[t] \in {"free", "done"} => exiting \/ rbFailed[t]

\* The session runs from StartTrace to StopTrace, or until it ends by itself.
SessionOK ==
  /\ main \in {"argp", "open", "load", "attach", "create", "start"} =>
       fd = "zero" /\ session = "none"
  /\ main \in {"wait", "stop"} =>
       \/ fd = "open" /\ session \in {"started", "ended"}
       \/ fd = "bad" /\ session = "none"
  /\ main \in {"join", "destroy", "exited"} =>
       fd # "open" /\ session \notin {"started", "ended"}

\* err is only ever negative on the way to the first join.
StatusOK ==
  /\ main # "exited" => status = 0 /\ failed \notin {"argp", "open"}
  /\ main \notin {"join", "exited"} => err = 0
  /\ main = "join" /\ k > 1 => err = 0
  /\ main = "exited" => (status # 0 <=> failed \in {"argp", "open"})

LInv == TypeOK /\ SkelOK /\ ThreadsOK /\ RbOK /\ SessionOK /\ StatusOK

-----------------------------------------------------------------------------
(* LInv is inductive: the steps before the threads exist, the creation and *)
(* the joining of threads, the session, and the steps of a thread.         *)

\* Before anything happened LInv holds.
LEMMA InitLInv == Init => LInv
<1> SUFFICES ASSUME Init PROVE LInv
  OBVIOUS
<1>1. TypeOK
  <2>1. /\ created \in [Threads -> BOOLEAN] /\ rb \in [Threads -> BOOLEAN]
        /\ rbFailed \in [Threads -> BOOLEAN] /\ exiting \in BOOLEAN
    BY Zenon DEF Init
  <2>2. thr \in [Threads -> ThreadPc] /\ ring \in [Threads -> 0..RingCap]
    BY LifeAssumption DEF Init, ThreadPc
  <2>3. k \in 1..(N + 1)
    BY LifeAssumption DEF Init
  <2> QED
    BY <2>1, <2>2, <2>3 DEF Init, TypeOK, MainPc
<1> QED
  BY <1>1 DEF LInv, Init, SkelOK, ThreadsOK, RbOK, SessionOK, StatusOK, Live

\* main() up to the attached skeleton, with its error paths.
LEMMA StartupLInv ==
  ASSUME LInv, ParseArgs \/ OpenSkel \/ LoadSkel \/ AttachProg \/ AttachSkel
  PROVE  LInv'
<1> USE LifeAssumption DEF LInv, ParseArgs, OpenSkel, LoadSkel, AttachProg, AttachSkel, Early, Cleanup
<1>1. TypeOK'
  <2>1. attached' \subseteq Producers
    <3>1. attached \subseteq Producers
      BY DEF TypeOK
    <3>2. CASE AttachProg
      BY <3>1, <3>2
    <3>3. CASE ~AttachProg
      <4>1. attached' = attached
        BY <3>3 DEF skelVars
      <4> QED
        BY <3>1, <4>1
    <3> QED
      BY <3>2, <3>3
  <2>2. CASE ParseArgs \/ OpenSkel
    BY <2>1, <2>2 DEF TypeOK, MainPc, mainVars, thrVars, skelVars, traceVars
  <2>3. CASE LoadSkel \/ AttachProg \/ AttachSkel
    BY <2>1, <2>3 DEF TypeOK, MainPc, mainVars, thrVars, skelVars, traceVars
  <2> QED
    BY <2>2, <2>3
<1>2. SkelOK'
  BY DEF TypeOK, SkelOK, ThreadsOK, mainVars, thrVars, skelVars, traceVars
<1>3. ThreadsOK'
  BY DEF TypeOK, ThreadsOK, Live, Threads, mainVars, thrVars, skelVars, traceVars
<1>4. RbOK'
  BY DEF TypeOK, RbOK, ThreadsOK, mainVars, thrVars, skelVars, traceVars
<1>5. SessionOK'
  BY DEF SessionOK, mainVars, thrVars, skelVars, traceVars
<1>6. StatusOK'
  BY DEF TypeOK, StatusOK, mainVars, thrVars, skelVars, traceVars
<1> QED
  BY <1>1, <1>2, <1>3, <1>4, <1>5, <1>6

\* Creation of the threads.
LEMMA CreateLInv ==
  ASSUME LInv, CreateThread \/ AllCreated
  PROVE  LInv'
<1> USE LifeAssumption DEF LInv, mainVars, thrVars, skelVars, traceVars
<1>1. CASE AllCreated \/ (CreateThread /\ Cleanup("create") /\ UNCHANGED <<created, thr>>)
  <2> USE DEF AllCreated, CreateThread, Cleanup
  <2>1. TypeOK'
    <3>1. attached' \subseteq Producers
      BY <1>1 DEF TypeOK, skelVars
    <3> QED
      BY <1>1, <3>1 DEF TypeOK, MainPc, skelVars
  <2>2. SkelOK' /\ SessionOK' /\ StatusOK'
    BY <1>1 DEF SkelOK, SessionOK, StatusOK
  <2>3. RbOK'
    BY <1>1 DEF RbOK
  <2>4. ThreadsOK'
    BY <1>1 DEF ThreadsOK, Live, Threads
  <2> QED
    BY <2>1, <2>2, <2>3, <2>4
<1>2. CASE /\ main = "create" /\ k <= N /\ k' = k + 1
           /\ created' = [created EXCEPT ![k] = TRUE]
           /\ thr' = [thr EXCEPT ![k] = "new"]
           /\ UNCHANGED <<main, failed, err, status, exiting, rb, rbFailed, ring, skel, attached,
                           fd, session>>
  <2>0. k \in Threads
    BY <1>2 DEF TypeOK, Threads
  <2>1. TypeOK'
    <3>1. created' \in [Threads -> BOOLEAN]
      BY <1>2 DEF TypeOK
    <3>2. thr' \in [Threads -> ThreadPc]
      BY <1>2 DEF TypeOK, ThreadPc
    <3>3. k' \in 1..(N + 1)
      BY <1>2 DEF TypeOK
    <3> QED
      BY <3>1, <3>2, <3>3, <1>2 DEF TypeOK
  <2>2. \A t \in Threads : t # k => created'[t] = created[t] /\ thr'[t] = thr[t]
    BY <1>2 DEF TypeOK
  <2>3. created'[k] = TRUE /\ thr'[k] = "new"
    BY <2>0, <1>2 DEF TypeOK
  <2>4. SkelOK' /\ SessionOK' /\ StatusOK'
    BY <1>2 DEF SkelOK, SessionOK, StatusOK
  <2>5. ThreadsOK'
    BY <2>0, <2>2, <2>3, <1>2 DEF ThreadsOK, Threads
  <2>6. RbOK'
    <3>1. ~rb[k]
      BY <2>0, <1>2 DEF RbOK, ThreadsOK, Threads
    <3> QED
      BY <3>1, <2>2, <2>3, <1>2 DEF RbOK
  <2> QED
    BY <2>1, <2>4, <2>5, <2>6
<1> QED
  BY <1>1, <1>2 DEF CreateThread

\* The session and the wait for the signal.
LEMMA TraceLInv ==
  ASSUME LInv, StartTrace \/ SessionEnds \/ WaitExiting \/ StopTrace \/ Signal
  PROVE  LInv'
<1> USE LifeAssumption DEF LInv, StartTrace, SessionEnds, WaitExiting, StopTrace, Signal
<1>1. TypeOK'
  <2>1. CASE Signal
    <3>1. exiting' \in BOOLEAN
      BY <2>1, Zenon DEF Signal
    <3>2. UNCHANGED <<main, k, created, err, failed, status, thr, rb, rbFailed, ring, skel,
                      attached, fd, session>>
      BY <2>1 DEF Signal, mainVars, thrVars, skelVars, traceVars
    <3> QED
      BY <3>1, <3>2 DEF TypeOK
  <2>2. CASE StartTrace \/ SessionEnds \/ WaitExiting \/ StopTrace
    <3>1. attached' \subseteq Producers
      BY <2>2 DEF TypeOK, skelVars
    <3>2. UNCHANGED <<exiting, created, thr, rb, rbFailed, ring, skel, err, failed, status>>
      BY <2>2 DEF mainVars, thrVars, skelVars
    <3> QED
      BY <2>2, <3>1, <3>2 DEF TypeOK, MainPc, mainVars, traceVars
  <2> QED
    BY <2>1, <2>2
<1>2. SkelOK'
  BY DEF TypeOK, SkelOK, ThreadsOK, mainVars, thrVars, skelVars, traceVars
<1>3. ThreadsOK'
  <2>1. UNCHANGED <<thr, created>> /\ \A t \in Threads : Live(t)' = Live(t)
    BY DEF mainVars, thrVars, Live
  <2>2. CASE Signal
    BY <2>1, <2>2 DEF ThreadsOK, mainVars
  <2>3. CASE StartTrace \/ SessionEnds \/ WaitExiting
    BY <2>1, <2>3 DEF ThreadsOK, mainVars
  <2>4. CASE StopTrace
    BY <2>1, <2>4 DEF ThreadsOK, Threads
  <2> QED
    BY <2>2, <2>3, <2>4
<1>4. RbOK'
  BY DEF TypeOK, RbOK, ThreadsOK, mainVars, thrVars, skelVars, traceVars
<1>5. SessionOK'
  BY DEF SessionOK, mainVars, thrVars, skelVars, traceVars
<1>6. StatusOK'
  BY DEF TypeOK, StatusOK, mainVars, thrVars, skelVars, traceVars
<1> QED
  BY <1>1, <1>2, <1>3, <1>4, <1>5, <1>6

\* Cleanup: joining the threads, destroying the skeleton.
LEMMA JoinLInv ==
  ASSUME LInv, JoinThread \/ AllJoined \/ DestroySkel
  PROVE  LInv'
<1> USE LifeAssumption DEF LInv, JoinThread, AllJoined, DestroySkel
<1>1. TypeOK'
  <2>1. CASE JoinThread
    BY <2>1 DEF TypeOK, thrVars, skelVars, traceVars
  <2>2. CASE AllJoined
    BY <2>2 DEF TypeOK, MainPc, thrVars, skelVars, traceVars
  <2>3. CASE DestroySkel
    <3>1. main' \in MainPc /\ status' \in {0, 1} /\ ring' \in [Threads -> 0..RingCap]
      BY <2>3 DEF TypeOK, MainPc
    <3> QED
      BY <2>3, <3>1 DEF TypeOK, thrVars, skelVars, traceVars
  <2> QED
    BY <2>1, <2>2, <2>3
<1>2. SkelOK'
  BY DEF TypeOK, SkelOK, ThreadsOK, mainVars, thrVars, skelVars, traceVars
<1>3. ThreadsOK'
  <2>1. UNCHANGED <<thr, created>> /\ \A t \in Threads : Live(t)' = Live(t)
    BY DEF mainVars, thrVars, Live
  <2>2. CASE JoinThread
    <3>1. \A t \in Threads : t < k + 1 => t < k \/ t = k
      BY DEF TypeOK, Threads
    <3>2. k \in Threads => ~Live(k)
      BY <2>2 DEF ThreadsOK, Live
    <3> QED
      BY <2>1, <2>2, <3>1, <3>2 DEF ThreadsOK
  <2>3. CASE AllJoined
    <3>1. \A t \in Threads : t < k
      BY <2>3 DEF Threads
    <3> QED
      BY <2>1, <2>3, <3>1 DEF ThreadsOK
  <2>4. CASE DestroySkel
    BY <2>1, <2>4 DEF ThreadsOK
  <2> QED
    BY <2>2, <2>3, <2>4
<1>4. RbOK'
  BY DEF TypeOK, RbOK, ThreadsOK, mainVars, thrVars, skelVars, traceVars
<1>5. SessionOK'
  BY DEF SessionOK, mainVars, thrVars, skelVars, traceVars
<1>6. StatusOK'
  BY DEF TypeOK, StatusOK, mainVars, thrVars, skelVars, traceVars
<1> QED
  BY <1>1, <1>2, <1>3, <1>4, <1>5, <1>6

\* A step of a thread.
LEMMA ThreadLInv ==
  ASSUME LInv, NEW t \in Threads, ThreadStep(t) \/ PollError(t)
  PROVE  LInv'
<1> USE LifeAssumption DEF LInv, mainVars, thrVars, skelVars, traceVars
<1>0. UNCHANGED <<main, k, created, err, failed, status, exiting, skel, attached, fd, session>>
  BY DEF ThreadStep, CreateRb, TestExiting, PollReady, PollTimeout, PollError, Consume,
     Drained, FreeRb
<1>1. ASSUME NEW x \in ThreadPc \ {"none", "free", "done"},
             thr[t] \in {"test", "poll", "drain"}, thr' = [thr EXCEPT ![t] = x],
             x \in {"test", "poll", "drain"}, UNCHANGED <<rb, rbFailed, ring>>
      PROVE  LInv'
  <2>1. \A u \in Threads : thr'[u] = IF u = t THEN x ELSE thr[u]
    BY <1>1 DEF TypeOK
  <2>2. TypeOK'
    BY <1>0, <1>1 DEF TypeOK
  <2>3. ThreadsOK'
    BY <1>0, <1>1, <2>1 DEF ThreadsOK, Live
  <2>4. RbOK'
    BY <1>0, <1>1, <2>1 DEF RbOK
  <2>5. SkelOK' /\ SessionOK' /\ StatusOK'
    BY <1>0 DEF SkelOK, SessionOK, StatusOK
  <2> QED
    BY <2>2, <2>3, <2>4, <2>5
<1>2. CASE PollReady(t) \/ PollTimeout(t) \/ PollError(t) \/ Drained(t)
           \/ (TestExiting(t) /\ ~exiting)
  BY <1>1, <1>2 DEF PollReady, PollTimeout, PollError, Drained, TestExiting, ThreadPc
<1>3. CASE TestExiting(t) /\ exiting
  <2>0. thr[t] = "test" /\ thr' = [thr EXCEPT ![t] = "free"] /\ UNCHANGED <<rb, rbFailed, ring>>
    BY <1>3 DEF TestExiting
  <2>1. \A u \in Threads : thr'[u] = IF u = t THEN "free" ELSE thr[u]
    BY <2>0 DEF TypeOK
  <2>2. TypeOK'
    BY <1>0, <2>0 DEF TypeOK, ThreadPc
  <2>3. ThreadsOK'
    BY <1>0, <2>0, <2>1 DEF ThreadsOK, Live
  <2>4. RbOK'
    BY <1>0, <1>3, <2>0, <2>1 DEF RbOK
  <2>5. SkelOK' /\ SessionOK' /\ StatusOK'
    BY <1>0 DEF SkelOK, SessionOK, StatusOK
  <2> QED
    BY <2>2, <2>3, <2>4, <2>5
<1>4. CASE CreateRb(t)
  <2>0. thr[t] = "new" /\ ~rb[t] /\ UNCHANGED ring
    BY <1>4 DEF CreateRb, RbOK, TypeOK
  <2>1. PICK x \in {"test", "free"} :
          /\ thr' = [thr EXCEPT ![t] = x]
          /\ x = "test" => rb' = [rb EXCEPT ![t] = TRUE] /\ rbFailed' = rbFailed
          /\ x = "free" => rb' = rb /\ rbFailed' = [rbFailed EXCEPT ![t] = TRUE]
    BY <1>4 DEF CreateRb
  <2>2. \A u \in Threads : thr'[u] = IF u = t THEN x ELSE thr[u]
    BY <2>1 DEF TypeOK
  <2>3. TypeOK'
    <3>1. thr' \in [Threads -> ThreadPc]
      BY <2>1 DEF TypeOK, ThreadPc
    <3>2. rb' \in [Threads -> BOOLEAN] /\ rbFailed' \in [Threads -> BOOLEAN]
      BY <2>1 DEF TypeOK
    <3> QED
      BY <3>1, <3>2, <1>0, <2>0 DEF TypeOK
  <2>4. ThreadsOK'
    BY <1>0, <2>0, <2>2 DEF ThreadsOK, Live
  <2>5. RbOK'
    BY <1>0, <2>0, <2>1, <2>2 DEF RbOK, TypeOK
  <2>6. SkelOK' /\ SessionOK' /\ StatusOK'
    BY <1>0 DEF SkelOK, SessionOK, StatusOK
  <2> QED
    BY <2>3, <2>4, <2>5, <2>6
<1>5. CASE Consume(t)
  <2>1. TypeOK'
    BY <1>5 DEF Consume, TypeOK
  <2> QED
    BY <1>5, <2>1 DEF Consume, SkelOK, ThreadsOK, RbOK, SessionOK, StatusOK, Live
<1>6. CASE FreeRb(t)
  <2>0. /\ thr[t] = "free" /\ thr' = [thr EXCEPT ![t] = "done"]
        /\ rb' = [rb EXCEPT ![t] = FALSE] /\ UNCHANGED <<rbFailed, ring>>
    BY <1>6 DEF FreeRb
  <2>1. \A u \in Threads : thr'[u] = IF u = t THEN "done" ELSE thr[u]
    BY <2>0 DEF TypeOK
  <2>a. rb'[t] = FALSE /\ \A u \in Threads : u # t => rb'[u] = rb[u]
    BY <2>0, Zenon DEF TypeOK
  <2>2. TypeOK'
    <3>1. thr' \in [Threads -> ThreadPc]
      BY <2>0 DEF TypeOK, ThreadPc
    <3>2. rb' \in [Threads -> BOOLEAN]
      BY <2>0 DEF TypeOK
    <3> QED
      BY <3>1, <3>2, <1>0, <2>0 DEF TypeOK
  <2>3. ThreadsOK'
    BY <1>0, <2>0, <2>1 DEF ThreadsOK, Live
  <2>4. RbOK'
    <3> SUFFICES ASSUME NEW u \in Threads
                 PROVE  /\ rb'[u] => thr'[u] \in {"test", "poll", "drain", "free"}
                        /\ thr'[u] \in {"free", "done"} => exiting \/ rbFailed[u]
      BY <1>0, <2>0 DEF RbOK
    <3>1. CASE u = t
      BY <3>1, <2>0, <2>a DEF RbOK
    <3>2. CASE u # t
      BY <3>2, <2>1, <2>a DEF RbOK
    <3> QED
      BY <3>1, <3>2
  <2>5. SkelOK' /\ SessionOK' /\ StatusOK'
    BY <1>0 DEF SkelOK, SessionOK, StatusOK
  <2> QED
    BY <2>2, <2>3, <2>4, <2>5
<1> QED
  BY <1>2, <1>3, <1>4, <1>5, <1>6 DEF ThreadStep

\* A BPF program adds a record.
LEMMA ProduceLInv ==
  ASSUME LInv, NEW t \in Threads, Produce(t)
  PROVE  LInv'
<1> USE LifeAssumption DEF LInv, Produce
<1>1. TypeOK'
  BY DEF TypeOK, MainPc, ThreadPc, Threads, mainVars, thrVars, skelVars, traceVars
<1>2. SkelOK'
  BY DEF TypeOK, SkelOK, ThreadsOK, mainVars, thrVars, skelVars, traceVars
<1>3. ThreadsOK'
  BY DEF TypeOK, ThreadsOK, Live, Threads, mainVars, thrVars, skelVars, traceVars
<1>4. RbOK'
  BY DEF TypeOK, RbOK, ThreadsOK, mainVars, thrVars, skelVars, traceVars
<1>5. SessionOK'
  BY DEF SessionOK, mainVars, thrVars, skelVars, traceVars
<1>6. StatusOK'
  BY DEF TypeOK, StatusOK, mainVars, thrVars, skelVars, traceVars
<1> QED
  BY <1>1, <1>2, <1>3, <1>4, <1>5, <1>6

\* LInv holds in every state of the daemon.
THEOREM LInvariance == Spec => []LInv
<1>1. Init => LInv
  BY InitLInv
<1>2. LInv /\ [Next]_vars => LInv'
  <2> SUFFICES ASSUME LInv, [Next]_vars PROVE LInv'
    OBVIOUS
  <2>1. CASE Next
    BY <2>1, StartupLInv, CreateLInv, TraceLInv, JoinLInv, ThreadLInv, ProduceLInv
       DEF Next, MainStep
  <2>2. CASE UNCHANGED vars
    BY <2>2 DEF vars, mainVars, thrVars, skelVars, traceVars, LInv, TypeOK, SkelOK, ThreadsOK,
       RbOK, SessionOK, StatusOK, Live
  <2> QED
    BY <2>1, <2>2
<1> QED
  BY <1>1, <1>2, PTL DEF Spec

\* The variables of the daemon keep their types: in particular a ring never
\* holds more records than its capacity nor fewer than none.
THEOREM LifeTypes == Spec => []TypeOK
<1>1. LInv => TypeOK
  BY DEF LInv
<1> QED
  BY <1>1, LInvariance, PTL

\* The skeleton is never destroyed under a thread or a ring_buffer that uses
\* its maps.
THEOREM SkelSafe == Spec => []SkelOutlivesThreads
<1>1. LInv => SkelOutlivesThreads
  BY DEF LInv, TypeOK, MainPc, SkelOK, ThreadsOK, RbOK, SkelOutlivesThreads, Live
<1> QED
  BY <1>1, LInvariance, PTL

\* main() returns with no thread, ring_buffer, session or skeleton left.
THEOREM ExitClean == Spec => []CleanExit
<1>1. LInv => CleanExit
  BY DEF LInv, SkelOK, ThreadsOK, RbOK, SessionOK, CleanExit, Live
<1> QED
  BY <1>1, LInvariance, PTL

\* A thread that polls keeps main() from returning until a signal arrives.
THEOREM SignalNeeded == Spec => []OnlySignalEndsThreads
<1>1. LInv => OnlySignalEndsThreads
  BY DEF LInv, TypeOK, ThreadPc, ThreadsOK, RbOK, OnlySignalEndsThreads, Live
<1> QED
  BY <1>1, LInvariance, PTL

\* A failure after the skeleton was opened never reaches the exit status.
THEOREM StatusLost == Spec => []StatusOnlyOfEarlyFailures
<1>1. LInv => StatusOnlyOfEarlyFailures
  BY DEF LInv, StatusOK, StatusOnlyOfEarlyFailures
<1> QED
  BY <1>1, LInvariance, PTL

-----------------------------------------------------------------------------
(* What reaches the trace.                                                 *)

Increasing(s) == \A m, n \in 1..Len(s) : m < n => s[m] < s[n]
In(n, s) == \E m \in 1..Len(s) : s[m] = n

RecTypeOK ==
  /\ hits \in [Threads -> Nat]
  /\ buf \in [Threads -> Seq(Nat)]
  /\ dropped \in [Threads -> SUBSET Nat]
  /\ handled \in [Threads -> Nat]
  /\ traced \in [Threads -> Seq(Nat)]

\* After the last handled hit x, of h, those not dropped (d) wait in b.
Waiting(h, b, d, x) ==
  /\ Increasing(b)
  /\ \A n \in Nat : In(n, b) => x < n /\ n <= h /\ n \notin d

AllWait(h, b, d, x) == \A n \in Nat : x < n /\ n <= h => n \in d \/ In(n, b)

\* Up to the last handled hit x those in the trace q leave no hole but d.
Gapless(d, x, q) ==
  /\ Increasing(q)
  /\ \A n \in Nat : In(n, q) => 1 <= n /\ n <= x /\ n \notin d
  /\ \A a, b, n \in Nat : In(a, q) /\ In(b, q) /\ a <= n /\ n <= b /\ n \notin d => In(n, q)

\* Every hit up to h is handled, waiting or dropped, and as long as the maps
\* exist (live) the ring holds r = Len(b) records.
Accounted(live, r, h, b, d, x) ==
  /\ x <= h
  /\ \A n \in d : 1 <= n /\ n <= h
  /\ Waiting(h, b, d, x)
  /\ live => r = Len(b) /\ AllWait(h, b, d, x)

\* While the session runs, the last handled hit is the last in the trace.
UpToDate(s, x, q) ==
  /\ s = "none" => q = <<>>
  /\ s = "started" => q = <<>> \/ In(x, q)

RecOK ==
  \A t \in Threads :
    /\ Accounted(skel # "destroyed", ring[t], hits[t], buf[t], dropped[t], handled[t])
    /\ Gapless(dropped[t], handled[t], traced[t])
    /\ UpToDate(session, handled[t], traced[t])

SInv == LInv /\ RecTypeOK /\ RecOK

-----------------------------------------------------------------------------
(* Increasing sequences of hits.                                           *)

\* What Append adds.
LEMMA InAppend ==
  ASSUME NEW s \in Seq(Nat), NEW e \in Nat, NEW n \in Nat
  PROVE  In(n, Append(s, e)) <=> In(n, s) \/ n = e
<1> DEFINE L == Len(s)
<1>1. L \in Nat /\ Len(Append(s, e)) = L + 1 /\ Append(s, e)[L + 1] = e
  BY AppendProperties, LenProperties
<1>2. \A i \in 1..L : Append(s, e)[i] = s[i]
  BY AppendProperties
<1>3. In(n, s) <=> \E m \in 1..L : s[m] = n
  BY DEF In
<1>4. In(n, Append(s, e)) <=> \E m \in 1..(L + 1) : Append(s, e)[m] = n
  BY <1>1 DEF In
<1> HIDE DEF L
<1> QED
  BY <1>1, <1>2, <1>3, <1>4

\* A later hit keeps the sequence increasing.
LEMMA IncreasingAppend ==
  ASSUME NEW s \in Seq(Nat), NEW e \in Nat, Increasing(s), \A n \in Nat : In(n, s) => n < e
  PROVE  Increasing(Append(s, e))
<1> DEFINE L == Len(s)
           q == Append(s, e)
<1>1. L \in Nat /\ Len(q) = L + 1 /\ q[L + 1] = e
  BY AppendProperties, LenProperties
<1>2. \A i \in 1..L : q[i] = s[i] /\ s[i] \in Nat /\ s[i] < e
  BY AppendProperties, ElementOfSeq DEF In
<1>3. \A m, n \in 1..L : m < n => s[m] < s[n]
  BY DEF Increasing
<1> HIDE DEF L, q
<1>4. ASSUME NEW m \in 1..(L + 1), NEW n \in 1..(L + 1), m < n PROVE q[m] < q[n]
  <2>1. m \in 1..L
    BY <1>1, <1>4
  <2>2. CASE n = L + 1
    BY <1>1, <1>2, <2>1, <2>2
  <2>3. CASE n # L + 1
    <3>1. n \in 1..L
      BY <1>1, <2>3
    <3> QED
      BY <1>2, <1>3, <1>4, <2>1, <3>1
  <2> QED
    BY <2>2, <2>3
<1> QED
  BY <1>1, <1>4 DEF Increasing, q

\* What Tail takes away, and what follows the head of an increasing sequence.
LEMMA InTail ==
  ASSUME NEW s \in Seq(Nat), s # <<>>, Increasing(s)
  PROVE  /\ Head(s) \in Nat /\ Tail(s) \in Seq(Nat) /\ Len(Tail(s)) = Len(s) - 1
         /\ In(Head(s), s)
         /\ Increasing(Tail(s))
         /\ \A n \in Nat : In(n, s) <=> n = Head(s) \/ In(n, Tail(s))
         /\ \A n \in Nat : In(n, Tail(s)) => Head(s) < n
<1> DEFINE L == Len(s)
           u == Tail(s)
           e == Head(s)
<1>1. L \in Nat \ {0} /\ e \in Nat /\ u \in Seq(Nat) /\ Len(u) = L - 1
  BY HeadTailProperties, EmptySeq
<1>2. e = s[1]
  OBVIOUS
<1>3. \A i \in 1..(L - 1) : u[i] = s[i + 1]
  BY HeadTailProperties
<1>4. \A m, n \in 1..L : m < n => s[m] < s[n]
  BY DEF Increasing
<1>5. \A n : In(n, s) <=> \E m \in 1..L : s[m] = n
  BY DEF In
<1>6. \A n : In(n, u) <=> \E m \in 1..(L - 1) : u[m] = n
  BY <1>1 DEF In
<1>7. Increasing(u) <=> \A m, n \in 1..(L - 1) : m < n => u[m] < u[n]
  BY <1>1 DEF Increasing
<1> HIDE DEF L, u, e
<1>8. Increasing(u)
  BY <1>1, <1>3, <1>4, <1>7
<1>9. ASSUME NEW n \in Nat PROVE In(n, s) <=> n = e \/ In(n, u)
  <2>1. ASSUME NEW m \in 1..L, s[m] = n PROVE n = e \/ In(n, u)
    <3>1. CASE m = 1
      BY <2>1, <3>1, <1>2
    <3>2. CASE m # 1
      <4>1. m - 1 \in 1..(L - 1) /\ (m - 1) + 1 = m
        BY <3>2, <1>1
      <4>2. u[m - 1] = n
        BY <2>1, <4>1, <1>3
      <4> QED
        BY <4>1, <4>2, <1>6
    <3> QED
      BY <3>1, <3>2
  <2>2. ASSUME NEW m \in 1..(L - 1), u[m] = n PROVE In(n, s)
    <3>1. m + 1 \in 1..L
      BY <1>1
    <3>2. s[m + 1] = n
      BY <2>2, <1>3
    <3> QED
      BY <3>1, <3>2, <1>5
  <2>3. n = e => In(n, s)
    BY <1>1, <1>2, <1>5
  <2> QED
    BY <2>1, <2>2, <2>3, <1>5, <1>6
<1>10. ASSUME NEW n \in Nat, In(n, u) PROVE e < n
  <2>1. PICK m \in 1..(L - 1) : u[m] = n
    BY <1>10, <1>6
  <2>2. 1 \in 1..L /\ m + 1 \in 1..L /\ 1 < m + 1
    BY <1>1
  <2>3. s[m + 1] = n
    BY <2>1, <1>3
  <2> QED
    BY <2>2, <2>3, <1>2, <1>4
<1> QED
  BY <1>1, <1>8, <1>9, <1>10 DEF L, u, e

\* Nothing is in the empty sequence.
LEMMA InEmpty ==
  Increasing(<<>>) /\ \A n : ~In(n, <<>>)
BY DEF Increasing, In

-----------------------------------------------------------------------------
(* What a hit, a handled record and the end of the maps do to the account. *)

\* A hit whose record is queued is the last to wait.
LEMMA WriteAccounted ==
  ASSUME NEW r \in Nat, NEW h \in Nat, NEW b \in Seq(Nat), NEW d \in SUBSET Nat, NEW x \in Nat,
         Accounted(TRUE, r, h, b, d, x)
  PROVE  Accounted(TRUE, r + 1, h + 1, Append(b, h + 1), d, x)
<1> DEFINE q == Append(b, h + 1)
<1>1. q \in Seq(Nat) /\ Len(q) = r + 1
  BY AppendProperties DEF Accounted
<1>2. \A n \in Nat : In(n, q) <=> In(n, b) \/ n = h + 1
  BY InAppend
<1>3. \A n \in Nat : In(n, b) => n < h + 1
  BY DEF Accounted, Waiting
<1>4. Increasing(q)
  BY <1>3, IncreasingAppend DEF Accounted, Waiting
<1> HIDE DEF q
<1>5. Waiting(h + 1, q, d, x)
  BY <1>2, <1>4 DEF Accounted, Waiting
<1>6. AllWait(h + 1, q, d, x)
  BY <1>2 DEF Accounted, AllWait
<1>7. Accounted(TRUE, r + 1, h + 1, q, d, x)
  BY <1>1, <1>5, <1>6 DEF Accounted
<1> QED
  BY <1>7 DEF q

\* A hit that found the ring full is dropped.
LEMMA DropAccounted ==
  ASSUME NEW r \in Nat, NEW h \in Nat, NEW b \in Seq(Nat), NEW d \in SUBSET Nat, NEW x \in Nat,
         Accounted(TRUE, r, h, b, d, x)
  PROVE  Accounted(TRUE, r, h + 1, b, d \cup {h + 1}, x)
<1>1. Waiting(h + 1, b, d \cup {h + 1}, x)
  BY DEF Accounted, Waiting
<1>2. AllWait(h + 1, b, d \cup {h + 1}, x)
  BY DEF Accounted, AllWait
<1> QED
  BY <1>1, <1>2 DEF Accounted

\* The trace does not know of it.
LEMMA DropGapless ==
  ASSUME NEW h \in Nat, NEW d \in SUBSET Nat, NEW x \in Nat, NEW q \in Seq(Nat), x <= h,
         Gapless(d, x, q)
  PROVE  Gapless(d \cup {h + 1}, x, q)
BY DEF Gapless

\* The handler takes the first hit that waits; what lies between it and the
\* last one handled was dropped.
LEMMA HandleAccounted ==
  ASSUME NEW r \in Nat, NEW h \in Nat, NEW b \in Seq(Nat), NEW d \in SUBSET Nat, NEW x \in Nat,
         r > 0, Accounted(TRUE, r, h, b, d, x)
  PROVE  /\ Head(b) \in Nat /\ Tail(b) \in Seq(Nat)
         /\ Accounted(TRUE, r - 1, h, Tail(b), d, Head(b))
         /\ x < Head(b) /\ Head(b) <= h /\ Head(b) \notin d
         /\ \A n \in Nat : x < n /\ n < Head(b) => n \in d
<1> DEFINE u == Tail(b)
           e == Head(b)
<1>1. Len(b) = r /\ b # <<>> /\ Increasing(b)
  BY EmptySeq DEF Accounted, Waiting
<1>2. /\ e \in Nat /\ u \in Seq(Nat) /\ Len(u) = r - 1
      /\ In(e, b)
      /\ Increasing(u)
      /\ \A n \in Nat : In(n, b) <=> n = e \/ In(n, u)
      /\ \A n \in Nat : In(n, u) => e < n
  BY <1>1, InTail
<1> HIDE DEF u, e
<1>3. x < e /\ e <= h /\ e \notin d
  BY <1>2 DEF Accounted, Waiting
<1>4. Waiting(h, u, d, e)
  BY <1>2 DEF Accounted, Waiting
<1>5. AllWait(h, u, d, e)
  BY <1>2, <1>3 DEF Accounted, AllWait
<1>6. Accounted(TRUE, r - 1, h, u, d, e)
  BY <1>2, <1>3, <1>4, <1>5 DEF Accounted
<1>7. \A n \in Nat : x < n /\ n < e => n \in d
  BY <1>2, <1>3 DEF Accounted, AllWait
<1> QED
  BY <1>2, <1>3, <1>6, <1>7 DEF u, e

\* Outside of the session a handled hit leaves the trace as it is.
LEMMA HandleUntraced ==
  ASSUME NEW d \in SUBSET Nat, NEW x \in Nat, NEW q \in Seq(Nat), NEW e \in Nat,
         Gapless(d, x, q), x < e
  PROVE  Gapless(d, e, q)
BY DEF Gapless

\* Inside of it the trace grows by the hit, and between its last record and
\* the new one all is dropped.
LEMMA HandleTraced ==
  ASSUME NEW d \in SUBSET Nat, NEW x \in Nat, NEW q \in Seq(Nat), NEW e \in Nat,
         Gapless(d, x, q), x < e, e \notin d,
         q = <<>> \/ In(x, q),
         \A n \in Nat : x < n /\ n < e => n \in d
  PROVE  Append(q, e) \in Seq(Nat) /\ Gapless(d, e, Append(q, e)) /\ In(e, Append(q, e))
<1> DEFINE p == Append(q, e)
<1>1. p \in Seq(Nat)
  BY AppendProperties
<1>2. \A n \in Nat : In(n, p) <=> In(n, q) \/ n = e
  BY InAppend
<1>3. Increasing(p)
  BY IncreasingAppend DEF Gapless
<1> HIDE DEF p
<1>4. \A n \in Nat : In(n, p) => 1 <= n /\ n <= e /\ n \notin d
  BY <1>2 DEF Gapless
<1>5. ASSUME NEW a \in Nat, NEW b \in Nat, NEW n \in Nat,
             In(a, p), In(b, p), a <= n, n <= b, n \notin d
      PROVE  In(n, p)
  <2>1. n <= e
    BY <1>4, <1>5
  <2>2. CASE n <= x
    <3>1. a # e /\ In(a, q)
      BY <2>2, <1>2, <1>5
    <3>2. In(x, q)
      BY <3>1, InEmpty
    <3>3. In(n, q)
      BY <3>1, <3>2, <2>2, <1>5 DEF Gapless
    <3> QED
      BY <3>3, <1>2
  <2>3. CASE ~(n <= x)
    <3>1. n = e
      BY <2>1, <2>3, <1>5
    <3> QED
      BY <3>1, <1>2
  <2> QED
    BY <2>2, <2>3
<1>6. Gapless(d, e, p)
  BY <1>3, <1>4, <1>5 DEF Gapless
<1> QED
  BY <1>1, <1>2, <1>6 DEF p

-----------------------------------------------------------------------------
(* The daemon of a session is the daemon of SchedAnalyzer.                 *)

\* Every step of a session is a step of the daemon or leaves it alone.
LEMMA SessionStep == SessionNext => Next \/ UNCHANGED vars
BY DEF SessionNext, MainRest, Destroy, PollStep, HandleRecord, Write, Drop,
   Next, MainStep, ThreadStep

\* All that is proved of the daemon holds while its records are told apart.
THEOREM SessionIsDaemon == SessionSpec => Spec
<1>1. SessionInit => Init
  BY DEF SessionInit
<1>2. [SessionNext]_sessionVars => [Next]_vars
  BY SessionStep DEF sessionVars
<1> QED
  BY <1>1, <1>2, PTL DEF SessionSpec, Spec

-----------------------------------------------------------------------------
(* The account is inductive.                                               *)

\* Before the first hit there is nothing to account for.
LEMMA InitSInv == SessionInit => RecTypeOK /\ RecOK
<1> SUFFICES ASSUME SessionInit PROVE RecTypeOK /\ RecOK
  OBVIOUS
<1>1. RecTypeOK
  BY EmptySeq DEF SessionInit, RecTypeOK
<1>2. ASSUME NEW t \in Threads
      PROVE  /\ ring[t] = 0 /\ hits[t] = 0 /\ buf[t] = <<>> /\ dropped[t] = {}
             /\ handled[t] = 0 /\ traced[t] = <<>> /\ session = "none"
  BY DEF SessionInit, Init
<1>3. Waiting(0, <<>>, {}, 0) /\ AllWait(0, <<>>, {}, 0)
  BY InEmpty DEF Waiting, AllWait
<1>4. Accounted(skel # "destroyed", 0, 0, <<>>, {}, 0)
  BY <1>3, EmptySeq DEF Accounted
<1>5. Gapless({}, 0, <<>>)
  BY InEmpty DEF Gapless
<1>6. UpToDate("none", 0, <<>>)
  BY DEF UpToDate
<1> QED
  BY <1>1, <1>2, <1>4, <1>5, <1>6 DEF RecOK

\* A step that touches no record: the rings are as they were, the session may
\* begin, when nothing is traced yet, end or be stopped.
LEMMA QuietStep ==
  ASSUME RecTypeOK, RecOK, UNCHANGED recVars, UNCHANGED ring,
         skel = "destroyed" => skel' = "destroyed",
         session' # session => session = "none" \/ session' \in {"ended", "stopped"}
  PROVE  RecTypeOK' /\ RecOK'
<1>1. RecTypeOK'
  BY DEF RecTypeOK, recVars
<1>2. ASSUME NEW t \in Threads
      PROVE  /\ Accounted(skel' # "destroyed", ring[t], hits[t], buf[t], dropped[t], handled[t])
             /\ UpToDate(session', handled[t], traced[t])
  <2>1. Accounted(skel # "destroyed", ring[t], hits[t], buf[t], dropped[t], handled[t])
    BY DEF RecOK
  <2>2. UpToDate(session, handled[t], traced[t])
    BY DEF RecOK
  <2>3. Accounted(skel' # "destroyed", ring[t], hits[t], buf[t], dropped[t], handled[t])
    BY <2>1 DEF Accounted
  <2>4. UpToDate(session', handled[t], traced[t])
    BY <2>2 DEF UpToDate
  <2> QED
    BY <2>3, <2>4
<1> QED
  BY <1>1, <1>2 DEF RecOK, recVars

\* The steps of main(), of a thread that handles nothing, and the signal are
\* such steps.
LEMMA OthersQuiet ==
  ASSUME LInv, UNCHANGED recVars,
         \/ MainRest \/ SessionEnds \/ Signal
         \/ \E t \in Threads : PollStep(t) \/ PollError(t)
  PROVE  /\ UNCHANGED ring
         /\ skel = "destroyed" => skel' = "destroyed"
         /\ session' # session => session = "none" \/ session' \in {"ended", "stopped"}
<1>1. main \in {"open", "load", "attach"} => skel # "destroyed"
  BY DEF LInv, SkelOK
<1>2. main = "start" => session = "none"
  BY DEF LInv, SessionOK
<1>3. CASE MainRest
  BY <1>1, <1>2, <1>3 DEF MainRest, ParseArgs, OpenSkel, LoadSkel, AttachProg, AttachSkel,
     CreateThread, AllCreated, StartTrace, WaitExiting, StopTrace, JoinThread, AllJoined,
     skelVars, traceVars
<1>4. CASE SessionEnds \/ Signal
  BY <1>4 DEF SessionEnds, Signal, skelVars, traceVars
<1>5. CASE \E t \in Threads : PollStep(t) \/ PollError(t)
  BY <1>5 DEF PollStep, CreateRb, TestExiting, PollReady, PollTimeout, Drained, FreeRb,
     PollError, skelVars, traceVars
<1> QED
  BY <1>3, <1>4, <1>5

\* The programs hit their tracepoints.
LEMMA HitSInv ==
  ASSUME LInv, RecTypeOK, RecOK, NEW t \in Threads, Write(t) \/ Drop(t)
  PROVE  RecTypeOK' /\ RecOK'
<1> USE DEF RecTypeOK
<1>1. skel # "destroyed" /\ skel' = skel /\ session' = session
  <2>1. t \in attached /\ skel' = skel /\ session' = session
    BY DEF Write, Drop, Produce, vars, skelVars, traceVars
  <2> QED
    BY <2>1 DEF LInv, SkelOK
<1>2. /\ ring \in [Threads -> Nat]
      /\ hits[t] \in Nat /\ buf[t] \in Seq(Nat) /\ dropped[t] \in SUBSET Nat
      /\ handled[t] \in Nat /\ traced[t] \in Seq(Nat) /\ ring[t] \in Nat
      /\ Accounted(TRUE, ring[t], hits[t], buf[t], dropped[t], handled[t])
      /\ Gapless(dropped[t], handled[t], traced[t])
      /\ UpToDate(session, handled[t], traced[t])
  <2>1. ring \in [Threads -> Nat]
    BY DEF LInv, TypeOK, LifeAssumption
  <2>2. Accounted(skel # "destroyed", ring[t], hits[t], buf[t], dropped[t], handled[t])
    BY DEF RecOK
  <2>3. Accounted(TRUE, ring[t], hits[t], buf[t], dropped[t], handled[t])
    BY <2>2, <1>1 DEF Accounted
  <2> QED
    BY <2>1, <2>3 DEF RecOK
<1>3. \A u \in Threads \ {t} :
        /\ ring'[u] = ring[u] /\ hits'[u] = hits[u] /\ buf'[u] = buf[u]
        /\ dropped'[u] = dropped[u] /\ handled'[u] = handled[u] /\ traced'[u] = traced[u]
  BY <1>2 DEF Write, Drop, Produce, vars
<1>4. /\ handled'[t] = handled[t] /\ traced'[t] = traced[t] /\ hits'[t] = hits[t] + 1
      /\ handled' = handled /\ traced' = traced
  BY DEF Write, Drop
<1>5. /\ RecTypeOK'
      /\ Accounted(TRUE, ring'[t], hits'[t], buf'[t], dropped'[t], handled[t])
      /\ Gapless(dropped'[t], handled[t], traced[t])
  <2>1. CASE Write(t)
    <3>1. /\ ring'[t] = ring[t] + 1 /\ buf' = [buf EXCEPT ![t] = Append(@, hits[t] + 1)]
          /\ hits' = [hits EXCEPT ![t] = @ + 1] /\ dropped' = dropped
      BY <2>1, <1>2, <1>4 DEF Write, Produce
    <3>2. Append(buf[t], hits[t] + 1) \in Seq(Nat)
      BY <1>2, AppendProperties
    <3>3. Accounted(TRUE, ring[t] + 1, hits[t] + 1, Append(buf[t], hits[t] + 1), dropped[t], handled[t])
      BY <1>2, WriteAccounted
    <3>4. buf'[t] = Append(buf[t], hits[t] + 1)
      BY <3>1
    <3>5. RecTypeOK'
      BY <3>1, <3>2, <1>4
    <3>6. dropped'[t] = dropped[t]
      BY <3>1
    <3>7. Accounted(TRUE, ring'[t], hits'[t], buf'[t], dropped'[t], handled[t])
      BY <3>1, <3>3, <3>4, <3>6, <1>4
    <3> QED
      BY <3>5, <3>6, <3>7, <1>2
  <2>2. CASE Drop(t)
    <3>1. /\ ring' = ring /\ buf' = buf
          /\ hits' = [hits EXCEPT ![t] = @ + 1]
          /\ dropped' = [dropped EXCEPT ![t] = @ \cup {hits[t] + 1}]
      BY <2>2, <1>4 DEF Drop, vars
    <3>2. Accounted(TRUE, ring[t], hits[t] + 1, buf[t], dropped[t] \cup {hits[t] + 1}, handled[t])
      BY <1>2, DropAccounted
    <3>3. handled[t] <= hits[t]
      BY <1>2 DEF Accounted
    <3>4. Gapless(dropped[t] \cup {hits[t] + 1}, handled[t], traced[t])
      BY <1>2, <3>3, DropGapless
    <3>5. dropped'[t] = dropped[t] \cup {hits[t] + 1} /\ dropped' \in [Threads -> SUBSET Nat]
      BY <3>1, <1>2
    <3> QED
      BY <3>1, <3>2, <3>4, <3>5, <1>4
  <2> QED
    BY <2>1, <2>2
<1>6. Accounted(skel' # "destroyed", ring'[t], hits'[t], buf'[t], dropped'[t], handled[t])
  BY <1>1, <1>5 DEF Accounted
<1>7. ASSUME NEW u \in Threads
      PROVE  /\ Accounted(skel' # "destroyed", ring'[u], hits'[u], buf'[u], dropped'[u], handled'[u])
             /\ Gapless(dropped'[u], handled'[u], traced'[u])
             /\ UpToDate(session', handled'[u], traced'[u])
  <2>1. CASE u = t
    BY <2>1, <1>1, <1>2, <1>4, <1>5, <1>6
  <2>2. CASE u # t
    BY <2>2, <1>1, <1>3 DEF RecOK
  <2> QED
    BY <2>1, <2>2
<1> QED
  BY <1>5, <1>7 DEF RecOK

\* A handler is called for the record at the head of its ring.
LEMMA HandleSInv ==
  ASSUME LInv, RecTypeOK, RecOK, NEW t \in Threads, HandleRecord(t)
  PROVE  RecTypeOK' /\ RecOK'
<1> USE DEF RecTypeOK
<1>1. skel = "attached" /\ skel' = skel /\ session' = session
  <2>1. LInv => SkelOutlivesThreads
    BY DEF LInv, TypeOK, MainPc, SkelOK, ThreadsOK, RbOK, SkelOutlivesThreads, Live
  <2> QED
    BY <2>1 DEF HandleRecord, Consume, SkelOutlivesThreads, Live, skelVars, traceVars
<1> DEFINE e == Head(buf[t])
<1>2. /\ ring \in [Threads -> Nat]
      /\ hits[t] \in Nat /\ buf[t] \in Seq(Nat) /\ dropped[t] \in SUBSET Nat
      /\ handled[t] \in Nat /\ traced[t] \in Seq(Nat) /\ ring[t] \in Nat
      /\ Accounted(TRUE, ring[t], hits[t], buf[t], dropped[t], handled[t])
      /\ Gapless(dropped[t], handled[t], traced[t])
      /\ UpToDate(session, handled[t], traced[t])
  <2>1. ring \in [Threads -> Nat]
    BY DEF LInv, TypeOK, LifeAssumption
  <2>2. Accounted(skel # "destroyed", ring[t], hits[t], buf[t], dropped[t], handled[t])
    BY DEF RecOK
  <2>3. Accounted(TRUE, ring[t], hits[t], buf[t], dropped[t], handled[t])
    BY <2>2, <1>1 DEF Accounted
  <2> QED
    BY <2>1, <2>3 DEF RecOK
<1>3. /\ ring[t] > 0
      /\ ring' = [ring EXCEPT ![t] = @ - 1]
      /\ buf' = [buf EXCEPT ![t] = Tail(buf[t])]
      /\ handled' = [handled EXCEPT ![t] = e]
      /\ hits' = hits /\ dropped' = dropped
  BY DEF HandleRecord, Consume
<1>4. /\ e \in Nat /\ Tail(buf[t]) \in Seq(Nat)
      /\ Accounted(TRUE, ring[t] - 1, hits[t], Tail(buf[t]), dropped[t], e)
      /\ handled[t] < e /\ e <= hits[t] /\ e \notin dropped[t]
      /\ \A n \in Nat : handled[t] < n /\ n < e => n \in dropped[t]
  BY <1>2, <1>3, HandleAccounted
<1> HIDE DEF e
<1>5. /\ traced' \in [Threads -> Seq(Nat)]
      /\ \A u \in Threads \ {t} : traced'[u] = traced[u]
      /\ Gapless(dropped[t], e, traced'[t])
      /\ UpToDate(session, e, traced'[t])
  <2>1. CASE session = "started"
    <3>1. traced' = [traced EXCEPT ![t] = Append(traced[t], e)]
      BY <2>1 DEF HandleRecord, Tracing, e
    <3>2. traced[t] = <<>> \/ In(handled[t], traced[t])
      BY <2>1, <1>2 DEF UpToDate
    <3>3. /\ Append(traced[t], e) \in Seq(Nat)
          /\ Gapless(dropped[t], e, Append(traced[t], e))
          /\ In(e, Append(traced[t], e))
      BY <1>2, <1>4, <3>2, HandleTraced
    <3>4. traced'[t] = Append(traced[t], e)
      BY <3>1
    <3> QED
      BY <2>1, <3>1, <3>3, <3>4 DEF UpToDate
  <2>2. CASE session # "started"
    <3>1. traced' = traced
      BY <2>2 DEF HandleRecord, Tracing
    <3>2. Gapless(dropped[t], e, traced[t])
      BY <1>2, <1>4, HandleUntraced
    <3> QED
      BY <2>2, <3>1, <3>2, <1>2 DEF UpToDate
  <2> QED
    BY <2>1, <2>2
<1>6. RecTypeOK'
  BY <1>3, <1>4, <1>5
<1>7. /\ ring'[t] = ring[t] - 1 /\ buf'[t] = Tail(buf[t]) /\ handled'[t] = e
      /\ \A u \in Threads \ {t} :
           ring'[u] = ring[u] /\ buf'[u] = buf[u] /\ handled'[u] = handled[u]
  BY <1>2, <1>3
<1>8. Accounted(skel' # "destroyed", ring'[t], hits[t], buf'[t], dropped[t], e)
  BY <1>1, <1>4, <1>7 DEF Accounted
<1>9. ASSUME NEW u \in Threads
      PROVE  /\ Accounted(skel' # "destroyed", ring'[u], hits'[u], buf'[u], dropped'[u], handled'[u])
             /\ Gapless(dropped'[u], handled'[u], traced'[u])
             /\ UpToDate(session', handled'[u], traced'[u])
  <2>1. CASE u = t
    BY <2>1, <1>1, <1>3, <1>5, <1>7, <1>8
  <2>2. CASE u # t
    BY <2>2, <1>1, <1>3, <1>5, <1>7 DEF RecOK
  <2> QED
    BY <2>1, <2>2
<1> QED
  BY <1>6, <1>9 DEF RecOK

\* What is left in the rings goes with the maps: nothing waits any more.
LEMMA DestroySInv ==
  ASSUME RecTypeOK, RecOK, Destroy
  PROVE  RecTypeOK' /\ RecOK'
<1>1. RecTypeOK'
  BY EmptySeq DEF Destroy, RecTypeOK
<1>2. ASSUME NEW t \in Threads
      PROVE  /\ Accounted(skel' # "destroyed", ring'[t], hits[t], buf'[t], dropped[t], handled[t])
             /\ Gapless(dropped[t], handled[t], traced[t])
             /\ UpToDate(session', handled[t], traced[t])
  <2>1. skel' = "destroyed" /\ buf'[t] = <<>> /\ session' = session
    BY DEF Destroy, DestroySkel, traceVars
  <2>2. Waiting(hits[t], <<>>, dropped[t], handled[t])
    BY InEmpty DEF Waiting
  <2>3. Accounted(skel # "destroyed", ring[t], hits[t], buf[t], dropped[t], handled[t])
    BY DEF RecOK
  <2>4. Accounted(skel' # "destroyed", ring'[t], hits[t], buf'[t], dropped[t], handled[t])
    BY <2>1, <2>2, <2>3 DEF Accounted
  <2> QED
    BY <2>1, <2>4 DEF RecOK
<1> QED
  BY <1>1, <1>2 DEF RecOK, Destroy

\* The account is kept in every state.
THEOREM SInvariance == SessionSpec => []SInv
<1>1. SessionInit => RecTypeOK /\ RecOK
  BY InitSInv
<1>2. LInv /\ RecTypeOK /\ RecOK /\ [SessionNext]_sessionVars => RecTypeOK' /\ RecOK'
  <2> SUFFICES ASSUME LInv, RecTypeOK, RecOK, [SessionNext]_sessionVars
               PROVE  RecTypeOK' /\ RecOK'
    OBVIOUS
  <2>1. CASE \/ MainRest /\ UNCHANGED recVars
             \/ (SessionEnds \/ Signal) /\ UNCHANGED recVars
             \/ \E t \in Threads : PollStep(t) \/ (PollError(t) /\ UNCHANGED recVars)
    <3>1. UNCHANGED recVars
      BY <2>1 DEF PollStep
    <3> QED
      BY <2>1, <3>1, OthersQuiet, QuietStep
  <2>2. CASE Destroy
    BY <2>2, DestroySInv
  <2>3. CASE \E t \in Threads : HandleRecord(t) \/ Write(t) \/ Drop(t)
    BY <2>3, HandleSInv, HitSInv
  <2>4. CASE UNCHANGED sessionVars
    BY <2>4, QuietStep DEF sessionVars, vars, skelVars, traceVars
  <2> QED
    BY <2>1, <2>2, <2>3, <2>4 DEF SessionNext
<1> QED
  BY <1>1, <1>2, SessionIsDaemon, LInvariance, PTL DEF SessionSpec, SInv

\* Between its first and its last record the trace of a ring lacks only what
\* was dropped at a full ring.
THEOREM NoHoles == SessionSpec => []TraceHasNoHoles
<1>1. SInv => TraceHasNoHoles
  <2> SUFFICES ASSUME SInv, NEW t \in Threads
               PROVE  /\ \A m, n \in 1..Len(traced[t]) : m < n => traced[t][m] < traced[t][n]
                      /\ \A n \in 1..hits[t] :
                           (\E a, b \in TracedSet(t) : a <= n /\ n <= b) =>
                             (n \in TracedSet(t) <=> n \notin dropped[t])
    BY DEF TraceHasNoHoles
  <2>1. traced[t] \in Seq(Nat) /\ hits[t] \in Nat
    BY DEF SInv, RecTypeOK
  <2>2. Gapless(dropped[t], handled[t], traced[t])
    BY DEF SInv, RecOK
  <2>3. \A n : n \in TracedSet(t) <=> In(n, traced[t])
    BY DEF TracedSet, In
  <2>4. \A n \in TracedSet(t) : n \in Nat
    BY <2>1, ElementOfSeq DEF TracedSet
  <2>5. \A m, n \in 1..Len(traced[t]) : m < n => traced[t][m] < traced[t][n]
    BY <2>2 DEF Gapless, Increasing
  <2>6. ASSUME NEW n \in 1..hits[t], NEW a \in TracedSet(t), NEW b \in TracedSet(t),
               a <= n, n <= b
        PROVE  n \in TracedSet(t) <=> n \notin dropped[t]
    <3>1. a \in Nat /\ b \in Nat /\ n \in Nat /\ In(a, traced[t]) /\ In(b, traced[t])
      BY <2>1, <2>3, <2>4
    <3> QED
      BY <3>1, <2>2, <2>3, <2>6 DEF Gapless
  <2> QED
    BY <2>5, <2>6
<1> QED
  BY <1>1, SInvariance, PTL
=============================================================================
