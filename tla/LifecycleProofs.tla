-------------------------- MODULE LifecycleProofs --------------------------
(***************************************************************************)
(* Proofs about Lifecycle, for any number of workers and session slots:    *)
(* the chain of accepts and the chain of timer waits are kept until        *)
(* close(), whatever pause, resume and the workers do in between, and      *)
(* close() leaves nobody but the sessions it cannot find.                  *)
(***************************************************************************)
EXTENDS Lifecycle, FiniteSetTheorems, TLAPS

Closing == {"removing", "joining", "ended"}

\* No two workers are in the middle of the same handler.
OneHandlerEach == \A v, w \in Workers : job[v] = job[w] /\ job[v] # NoSession => v = w

\* Acceptor and m_paused as the main thread leaves them between its calls.
Acceptor ==
  /\ main = "console" /\ ~paused => acceptor = "listening"
  /\ main = "console" /\ paused /\ ~bindFailed => acceptor = "closed"
  /\ main = "resuming" => paused
  /\ main \in Closing => acceptor = "closed"

\* The accept chain: an accept is waiting, or a worker is about to make it.
AcceptChain ==
  main = "console" /\ ~paused /\ ~broken =>
    \E s \in Slots : life[s] \in {"accepting", "accepted", "starting"}

\* The timer chain; cancelled only by close().
TimerChain ==
  /\ main \in {"console", "resuming"} =>
       timer \in {"armed", "fired"} \/ \E w \in Workers : job[w] = TimerJob
  /\ \A w \in Workers : job[w] = TimerJob => timer = "off"
  /\ timer = "cancelled" => main \notin {"console", "resuming"}

\* Once removeSessions is over, the connections accepted before it are the only
\* ones that can still be started, the acceptor being closed for good.
Latecomers ==
  main \in {"joining", "ended"} =>
    /\ \A s \in Slots : life[s] = "accepted" => s \in missed
    /\ open \subseteq missed

\* The inductive invariant.
Inv == TypeOK /\ OneHandlerEach /\ Acceptor /\ AcceptChain /\ TimerChain /\ Latecomers

LEMMA AtMostOne ==
  ASSUME NEW S, \A x, y \in S : x = y
  PROVE  Cardinality(S) <= 1
<1>1. CASE S = {}
  BY <1>1, FS_EmptySet
<1>2. ASSUME NEW x \in S PROVE Cardinality(S) <= 1
  <2>1. S = {x}
    OBVIOUS
  <2>. QED
    BY <2>1, FS_Singleton
<1>. QED
  BY <1>1, <1>2

LEMMA LifeInit == Init => Inv
<1>. SUFFICES ASSUME Init PROVE Inv
  OBVIOUS
<1>. USE LifecycleAssumption
<1>1. PICK s \in Slots : life = [x \in Slots |-> IF x = s THEN "accepting" ELSE "none"]
  BY DEF Init
<1>2. TypeOK
  BY <1>1 DEF Init, TypeOK
<1>3. AcceptChain
  BY <1>1 DEF AcceptChain
<1>4. OneHandlerEach /\ Acceptor /\ TimerChain /\ Latecomers
  BY DEF Init, OneHandlerEach, Acceptor, TimerChain, Latecomers, Closing
<1>. QED
  BY <1>2, <1>3, <1>4 DEF Inv

\* The pending accept completes.
LEMMA ConnectStep ==
  ASSUME Inv, NEW s \in Slots, Connect(s) \/ AcceptFails(s)
  PROVE  Inv'
<1>. USE LifecycleAssumption DEF Inv, Connect, AcceptFails
<1>0. /\ life[s] = "accepting"
      /\ life' = [life EXCEPT ![s] = "accepted"] \/ life' = [life EXCEPT ![s] = "refused"]
      /\ broken' \in {broken, TRUE}
      /\ UNCHANGED <<acceptor, open, paused, timer, job, main, exited, bindFailed, late, missed, moving>>
  OBVIOUS
<1>1. TypeOK' /\ OneHandlerEach'
  <2>1. {paused, broken, bindFailed, late}' \subseteq BOOLEAN
    BY <1>0 DEF TypeOK
  <2>2. \A w \in Workers : job'[w] \in Slots => life'[job'[w]] = "starting"
    BY <1>0 DEF TypeOK
  <2>. QED
    BY <1>0, <2>1, <2>2 DEF TypeOK, OneHandlerEach
<1>2. Acceptor' /\ TimerChain' /\ Latecomers'
  BY DEF TypeOK, Acceptor, TimerChain, Latecomers, Closing
<1>3. AcceptChain'
  <2>1. CASE Connect(s)
    BY <2>1 DEF TypeOK, AcceptChain
  <2>2. CASE AcceptFails(s)
    BY <2>2 DEF AcceptChain
  <2>. QED
    BY <2>1, <2>2
<1>. QED
  BY <1>1, <1>2, <1>3

\* handleSession up to accept(), or with an error, a login and the end of a
\* session.
LEMMA SessionStep ==
  ASSUME Inv, NEW s \in Slots, NEW w \in Workers,
         \/ HandleSession(w, s) \/ HandleSessionError(w, s) \/ SessionEnds(w, s)
         \/ LoginRemove(w, s)
  PROVE  Inv'
<1>. USE LifecycleAssumption DEF Inv, Idle, Moving, HandleSession, HandleSessionError, SessionEnds,
                               LoginRemove
<1>1. TypeOK' /\ OneHandlerEach'
  BY DEF TypeOK, OneHandlerEach
<1>2. Acceptor' /\ TimerChain' /\ Latecomers'
  BY DEF TypeOK, Acceptor, TimerChain, Latecomers, Closing
<1>3. AcceptChain'
  <2>1. CASE HandleSession(w, s)
    BY <2>1 DEF TypeOK, AcceptChain
  <2>2. CASE HandleSessionError(w, s) \/ SessionEnds(w, s) \/ LoginRemove(w, s)
    BY <2>2 DEF TypeOK, AcceptChain
  <2>. QED
    BY <2>1, <2>2
<1>. QED
  BY <1>1, <1>2, <1>3

\* handleSession goes on to accept().
LEMMA AcceptStep ==
  ASSUME Inv, NEW w \in Workers, HandleSessionAccept(w)
  PROVE  Inv'
<1>. USE LifecycleAssumption DEF Inv
<1>1. PICK n \in Free : life' = [life EXCEPT ![job[w]] = "serving", ![n] = Accepting]
  BY DEF HandleSessionAccept
<1>2. /\ n \in Slots /\ life[n] = "none" /\ job[w] \in Slots /\ life[job[w]] = "starting"
      /\ Accepting \in {"accepting", "refused"}
      /\ job' = [job EXCEPT ![w] = NoSession]
      /\ UNCHANGED <<acceptor, open, paused, timer, main, exited, broken, bindFailed, late,
                     missed, moving>>
  BY DEF Free, Accepting, TypeOK, HandleSessionAccept
<1>3. /\ life' \in [Slots -> {"none", "accepting", "accepted", "aborted", "refused",
                              "starting", "serving"}]
      /\ life'[n] = Accepting /\ life'[job[w]] = "serving"
      /\ \A s \in Slots \ {n, job[w]} : life'[s] = life[s]
  BY <1>1, <1>2 DEF TypeOK
<1>4. TypeOK' /\ OneHandlerEach'
  BY <1>2, <1>3 DEF TypeOK, OneHandlerEach
<1>5. Acceptor' /\ TimerChain'
  BY <1>2 DEF Acceptor, TimerChain, TypeOK
<1>6. AcceptChain'
  BY <1>2, <1>3 DEF AcceptChain, Acceptor, Accepting
<1>7. Latecomers'
  BY <1>2, <1>3 DEF Latecomers
<1>. QED
  BY <1>4, <1>5, <1>6, <1>7

\* The steps of the timer, the end of a login, and that of a worker.
LEMMA TimerStep ==
  ASSUME Inv, NEW w \in Workers,
         OnTimer(w) \/ OnTimerRearm(w) \/ OnTimerCancelled(w) \/ LoginAppend(w) \/ WorkerExits(w)
  PROVE  Inv'
<1>. USE LifecycleAssumption DEF Inv, OnTimer, OnTimerRearm, OnTimerCancelled, LoginAppend,
                               WorkerExits
<1>1. TypeOK'
  BY DEF TypeOK, Idle
<1>2. OneHandlerEach'
  BY DEF TypeOK, OneHandlerEach, TimerChain, Idle
<1>3. TimerChain'
  BY DEF TypeOK, OneHandlerEach, TimerChain, Idle
<1>4. Acceptor' /\ AcceptChain' /\ Latecomers'
  BY DEF Acceptor, AcceptChain, Latecomers
<1>. QED
  BY <1>1, <1>2, <1>3, <1>4

\* The steps of the main thread.
LEMMA MainThreadStep ==
  ASSUME Inv, Console \/ MainStep
  PROVE  Inv'
<1>. USE LifecycleAssumption DEF Inv
<1>1. CASE Pause \/ CloseAcceptor
  <2>1. /\ life' = Aborted /\ acceptor' = "closed"
        /\ UNCHANGED <<open, timer, job, exited, broken, bindFailed, late>>
    BY <1>1 DEF Pause, CloseAcceptor
  <2>2. TypeOK'
    BY <1>1, <2>1 DEF TypeOK, Aborted, Pause, CloseAcceptor
  <2>3. OneHandlerEach' /\ Acceptor' /\ AcceptChain' /\ TimerChain'
    BY <1>1, <2>1 DEF TypeOK, OneHandlerEach, Acceptor, AcceptChain, TimerChain, Pause,
                      CloseAcceptor, Closing
  <2>4. Latecomers'
    BY <1>1, <2>1 DEF TypeOK, Latecomers, Aborted, Pause, CloseAcceptor, Closing
  <2>. QED
    BY <2>2, <2>3, <2>4
<1>2. CASE ResumeListen
  <2>1. PICK n \in Free : life' = [life EXCEPT ![n] = "accepting"]
    BY <1>2 DEF ResumeListen
  <2>2. n \in Slots /\ life[n] = "none"
    BY DEF Free
  <2>. QED
    BY <1>2, <2>1, <2>2 DEF TypeOK, OneHandlerEach, Acceptor, AcceptChain, TimerChain,
                            Latecomers, ResumeListen, Closing
<1>3. CASE CancelTimer
  <2>1. late' \in BOOLEAN
    BY <1>3 DEF CancelTimer
  <2>. QED
    BY <1>3, <2>1 DEF TypeOK, OneHandlerEach, Acceptor, AcceptChain, TimerChain, Latecomers,
                      CancelTimer, Closing
<1>4. CASE ResumeOpen \/ ResumeFails \/ RemoveSessions \/ CloseRest \/ JoinAll
  <2>1. TypeOK' /\ OneHandlerEach'
    BY <1>4 DEF TypeOK, OneHandlerEach, Moving, ResumeOpen, ResumeFails, RemoveSessions, CloseRest, JoinAll
  <2>2. Acceptor' /\ AcceptChain'
    BY <1>4 DEF Acceptor, AcceptChain, ResumeOpen, ResumeFails, RemoveSessions, CloseRest,
                JoinAll, Closing
  <2>3. TimerChain' /\ Latecomers'
    BY <1>4 DEF TimerChain, Latecomers, Moving, ResumeOpen, ResumeFails, RemoveSessions, CloseRest,
                JoinAll, Closing
  <2>. QED
    BY <2>1, <2>2, <2>3
<1>. QED
  BY <1>1, <1>2, <1>3, <1>4 DEF Console, MainStep

LEMMA LifeInv == Spec => []Inv
<1>1. Inv /\ [Next]_vars => Inv'
  <2>. SUFFICES ASSUME Inv, [Next]_vars PROVE Inv'
    OBVIOUS
  <2>1. CASE Expire
    BY <2>1 DEF Expire, Inv, TypeOK, OneHandlerEach, Acceptor, AcceptChain, TimerChain, Latecomers
  <2>2. CASE UNCHANGED vars
    BY <2>2 DEF vars, Inv, TypeOK, OneHandlerEach, Acceptor, AcceptChain, TimerChain, Latecomers
  <2>. QED
    BY <2>1, <2>2, ConnectStep, SessionStep, AcceptStep, TimerStep, MainThreadStep DEF Next, WorkerStep
<1>. QED
  BY <1>1, LifeInit, PTL DEF Spec

\* Every variable of the process model keeps its type, and the worker in the
\* middle of handleSession has a session that is starting.
THEOREM LifeTypeCorrect == Spec => []TypeOK
<1>1. Inv => TypeOK
  BY DEF Inv
<1>. QED
  BY <1>1, LifeInv, PTL

\* Until close() there is an accept waiting or about to be made unless the
\* server is paused or an accept has failed, and a paused server can be resumed
\* until a resume failed to bind.
THEOREM LifeServing == Spec => []Serving
<1>1. Inv => Serving
  BY DEF Inv, Acceptor, AcceptChain, Serving
<1>. QED
  BY <1>1, LifeInv, PTL

\* Until close() the timer is armed or its handler queued or running, once.
THEOREM LifeTicks == Spec => []Ticks
<1>1. Inv => Ticks
  <2>. SUFFICES ASSUME Inv PROVE Ticks
    OBVIOUS
  <2>. DEFINE running == {w \in Workers : job[w] = TimerJob}
  <2>1. Cardinality(running) <= 1
    <3>1. TimerJob # NoSession
      BY LifecycleAssumption
    <3>2. \A v, w \in running : v = w
      BY <3>1 DEF Inv, OneHandlerEach
    <3>. QED
      BY <3>2, AtMostOne
  <2>2. main \in {"console", "resuming"} => timer \in {"armed", "fired"} \/ running # {}
    BY DEF Inv, TimerChain
  <2>3. running # {} => timer = "off"
    BY DEF Inv, TimerChain
  <2>. QED
    BY <2>1, <2>2, <2>3 DEF Ticks
<1>. QED
  BY <1>1, LifeInv, PTL

\* After close() only those sessions have an open socket that its
\* removeSessions could not find: accepted and not started, or between the
\* removeSession and the appendSession of a login.
THEOREM LifeNobodyLeft == Spec => []NobodyLeft
<1>1. Inv => NobodyLeft
  BY DEF Inv, Latecomers, NobodyLeft
<1>. QED
  BY <1>1, LifeInv, PTL
============================================================================
