----------------------------- MODULE Lifecycle -----------------------------
(***************************************************************************)
(* The server as a process (src/src/server.cpp, src/src/main.cpp): the     *)
(* chain of asynchronous accepts, the chain of timer waits, pause and      *)
(* resume from the console, and close() followed by join_all.  Main thread *)
(* and workers share the acceptor and the timer without a lock.            *)
(*                                                                         *)
(* A worker's run() returns when the work object is gone and no operation  *)
(* is outstanding.  The initial state is that after Server::start.         *)
(***************************************************************************)
EXTENDS Naturals, FiniteSets

CONSTANTS
  Workers,    \* threads in io_service::run
  Slots,      \* bound on the session objects alive at a time
  NoSession, TimerJob

ASSUME LifecycleAssumption ==
  /\ IsFiniteSet(Slots) /\ Slots # {}
  /\ NoSession \notin Slots \cup {TimerJob} /\ TimerJob \notin Slots

VARIABLES
  acceptor,   \* "closed", "opened" (no listen yet), "listening"
  life,       \* where the session object in a slot is
  open,       \* sessions that have started, sockets open
  paused,     \* m_paused
  timer,      \* "armed", "fired" (handler queued), "cancelled", "off"
  job,        \* the handler each worker is in the middle of
  main,       \* where the main thread is
  exited,     \* workers whose run() has returned
  broken,     \* history: an accept has failed since the last resume
  bindFailed, \* history: a resume could not bind
  late,       \* history: cancel() found the timer's handler queued or running
  missed,     \* history: sessions that removeSessions of close() could not find
  moving      \* moving[w]: the session that worker w, in processLogin, has taken
              \* out of m_sessions and not put back

vars == <<acceptor, life, open, paused, timer, job, main, exited, broken, bindFailed,
          late, missed, moving>>

Free == {s \in Slots : life[s] = "none"}

Init ==
  /\ acceptor = "listening"
  /\ \E s \in Slots : life = [x \in Slots |-> IF x = s THEN "accepting" ELSE "none"]
  /\ open = {} /\ paused = FALSE
  /\ timer = "armed"
  /\ job = [w \in Workers |-> NoSession]
  /\ main = "console" /\ exited = {}
  /\ broken = FALSE /\ bindFailed = FALSE /\ late = FALSE /\ missed = {}
  /\ moving = [w \in Workers |-> NoSession]

Idle(w) == w \notin exited /\ job[w] = NoSession /\ moving[w] = NoSession

\* Open sessions that are not in m_sessions.
Moving == {s \in Slots : \E w \in Workers : moving[w] = s}

\* What becomes of an async_accept: it waits, or fails at once because the
\* acceptor does not listen.
Accepting == IF acceptor = "listening" THEN "accepting" ELSE "refused"

-----------------------------------------------------------------------------
\* A client connects.  The guard keeps a slot for the accept that follows.
Connect(s) ==
  /\ acceptor = "listening" /\ life[s] = "accepting"
  /\ Cardinality(Free) > Cardinality({x \in Slots : life[x] \in {"accepted", "starting"}})
  /\ life' = [life EXCEPT ![s] = "accepted"]
  /\ UNCHANGED <<acceptor, open, paused, timer, job, main, exited, broken, bindFailed,
                 late, missed, moving>>

\* The accept fails: the descriptors are used up, or the client is gone.
AcceptFails(s) ==
  /\ acceptor = "listening" /\ life[s] = "accepting"
  /\ life' = [life EXCEPT ![s] = "refused"]
  /\ broken' = TRUE
  /\ UNCHANGED <<acceptor, open, paused, timer, job, main, exited, bindFailed, late, missed, moving>>

\* handleSession without an error, up to accept(): start() registers the
\* session and begins the handshake.
HandleSession(w, s) ==
  /\ Idle(w) /\ life[s] = "accepted"
  /\ life' = [life EXCEPT ![s] = "starting"]
  /\ open' = open \cup {s}
  /\ job' = [job EXCEPT ![w] = s]
  /\ UNCHANGED <<acceptor, paused, timer, main, exited, broken, bindFailed, late, missed, moving>>

\* Mutant of HandleSessionAccept: the chain ends here.
HandleSessionLast(w) ==
  /\ job[w] \in Slots
  /\ life' = [life EXCEPT ![job[w]] = "serving"]
  /\ job' = [job EXCEPT ![w] = NoSession]
  /\ UNCHANGED <<acceptor, open, paused, timer, main, exited, broken, bindFailed, late,
                 missed, moving>>

\* handleSession: accept() for the next client.
HandleSessionAccept(w) ==
  /\ job[w] \in Slots
  /\ \E n \in Free : life' = [life EXCEPT ![job[w]] = "serving", ![n] = Accepting]
  /\ job' = [job EXCEPT ![w] = NoSession]
  /\ UNCHANGED <<acceptor, open, paused, timer, main, exited, broken, bindFailed, late,
                 missed, moving>>

\* handleSession with an error: logged at most.
HandleSessionError(w, s) ==
  /\ Idle(w) /\ life[s] \in {"aborted", "refused"}
  /\ life' = [life EXCEPT ![s] = "none"]
  /\ UNCHANGED <<acceptor, open, paused, timer, job, main, exited, broken, bindFailed,
                 late, missed, moving>>

\* Mutant of SessionEnds: the slot is given up under handleSession.
SessionEndsEarly(w, s) ==
  /\ Idle(w) /\ life[s] \in {"starting", "serving"} /\ s \notin Moving
  /\ life' = [life EXCEPT ![s] = "none"]
  /\ open' = open \ {s}
  /\ missed' = missed \ {s}
  /\ UNCHANGED <<acceptor, paused, timer, job, main, exited, broken, bindFailed, late, moving>>

\* The last handler of a session whose client has gone or whose socket was
\* closed by removeSessions.
SessionEnds(w, s) ==
  /\ Idle(w) /\ life[s] = "serving" /\ s \notin Moving
  /\ life' = [life EXCEPT ![s] = "none"]
  /\ open' = open \ {s}
  /\ missed' = missed \ {s}
  /\ UNCHANGED <<acceptor, paused, timer, job, main, exited, broken, bindFailed, late, moving>>

\* processLogin: "remove temporary session".  On a socket closed meanwhile it
\* moves an entry that nobody needs, which is left out.
LoginRemove(w, s) ==
  /\ Idle(w) /\ s \in open \ Moving
  /\ moving' = [moving EXCEPT ![w] = s]
  /\ UNCHANGED <<acceptor, life, open, paused, timer, job, main, exited, broken, bindFailed,
                 late, missed>>

\* processLogin: "append authenticated session".
LoginAppend(w) ==
  /\ moving[w] # NoSession
  /\ moving' = [moving EXCEPT ![w] = NoSession]
  /\ UNCHANGED <<acceptor, life, open, paused, timer, job, main, exited, broken, bindFailed,
                 late, missed>>

-----------------------------------------------------------------------------
\* Two seconds are over.
Expire ==
  /\ timer = "armed"
  /\ timer' = "fired"
  /\ UNCHANGED <<acceptor, life, open, paused, job, main, exited, broken, bindFailed,
                 late, missed, moving>>

\* onTimer without an error: poll the senders, evict buffers.
OnTimer(w) ==
  /\ Idle(w) /\ timer = "fired"
  /\ timer' = "off"
  /\ job' = [job EXCEPT ![w] = TimerJob]
  /\ UNCHANGED <<acceptor, life, open, paused, main, exited, broken, bindFailed, late,
                 missed, moving>>

\* Mutant of OnTimerRearm: the paused server does not tick.
OnTimerRearmUnpaused(w) ==
  /\ job[w] = TimerJob
  /\ timer' = IF paused THEN "off" ELSE "armed"
  /\ job' = [job EXCEPT ![w] = NoSession]
  /\ UNCHANGED <<acceptor, life, open, paused, main, exited, broken, bindFailed, late,
                 missed, moving>>

\* onTimer: wait again, whatever close() has done meanwhile.
OnTimerRearm(w) ==
  /\ job[w] = TimerJob
  /\ timer' = "armed"
  /\ job' = [job EXCEPT ![w] = NoSession]
  /\ UNCHANGED <<acceptor, life, open, paused, main, exited, broken, bindFailed, late,
                 missed, moving>>

\* onTimer with operation_aborted.
OnTimerCancelled(w) ==
  /\ Idle(w) /\ timer = "cancelled"
  /\ timer' = "off"
  /\ UNCHANGED <<acceptor, life, open, paused, job, main, exited, broken, bindFailed,
                 late, missed, moving>>

-----------------------------------------------------------------------------
\* Closing the acceptor ends its waiting accepts.
Aborted == [s \in Slots |-> IF life[s] = "accepting" THEN "aborted" ELSE life[s]]

\* The console's p: pause.
Pause ==
  /\ main = "console" /\ ~paused
  /\ acceptor' = "closed"
  /\ life' = Aborted
  /\ paused' = TRUE
  /\ UNCHANGED <<open, timer, job, main, exited, broken, bindFailed, late, missed, moving>>

\* The console's p again: resume begins with open, which throws if an earlier
\* resume got no further.
ResumeOpen ==
  /\ main = "console" /\ paused
  /\ acceptor = "closed"
  /\ acceptor' = "opened"
  /\ main' = "resuming"
  /\ UNCHANGED <<life, open, paused, timer, job, exited, broken, bindFailed, late, missed, moving>>

\* resume: bind, listen, accept.
ResumeListen ==
  /\ main = "resuming"
  /\ Cardinality(Free) > Cardinality({x \in Slots : life[x] \in {"accepted", "starting"}})
  /\ acceptor' = "listening"
  /\ \E n \in Free : life' = [life EXCEPT ![n] = "accepting"]
  /\ paused' = FALSE
  /\ broken' = FALSE
  /\ main' = "console"
  /\ UNCHANGED <<open, timer, job, exited, bindFailed, late, missed, moving>>

\* resume: bind throws, the address being in use (connections of the time
\* before the pause hold it, and reuse_address is commented out).
ResumeFails ==
  /\ main = "resuming"
  /\ bindFailed' = TRUE
  /\ main' = "console"
  /\ UNCHANGED <<acceptor, life, open, paused, timer, job, exited, broken, late, missed, moving>>

\* The console's r: it finds the sessions of m_sessions.
RemoveSessions ==
  /\ main = "console"
  /\ open' = open \cap Moving
  /\ UNCHANGED <<acceptor, life, paused, timer, job, main, exited, broken, bindFailed,
                 late, missed, moving>>

\* Mutant of CancelTimer: close() leaves the timer alone.
CancelNothing ==
  /\ main = "console"
  /\ main' = "closing"
  /\ UNCHANGED <<acceptor, life, open, paused, timer, job, exited, broken, bindFailed,
                 late, missed, moving>>

\* The console's e: close() begins with m_timer.cancel, which reaches a wait
\* and not a handler.
CancelTimer ==
  /\ main = "console"
  /\ timer' = IF timer = "armed" THEN "cancelled" ELSE timer
  /\ late' = (timer = "fired" \/ \E w \in Workers : job[w] = TimerJob)
  /\ main' = "closing"
  /\ UNCHANGED <<acceptor, life, open, paused, job, exited, broken, bindFailed, missed, moving>>

\* Mutant of CloseAcceptor: close() forgets it.
CloseNothing ==
  /\ main = "closing"
  /\ main' = "removing"
  /\ UNCHANGED <<acceptor, life, open, paused, timer, job, exited, broken, bindFailed, late,
                 missed, moving>>

\* close(): m_acceptor.close.
CloseAcceptor ==
  /\ main = "closing"
  /\ acceptor' = "closed"
  /\ life' = Aborted
  /\ main' = "removing"
  /\ UNCHANGED <<open, paused, timer, job, exited, broken, bindFailed, late, missed, moving>>

\* close(): removeSessions and DB::cleanup; main: work.reset.
CloseRest ==
  /\ main = "removing"
  /\ open' = open \cap Moving
  /\ missed' = Moving \cup {s \in Slots : life[s] = "accepted"}
  /\ main' = "joining"
  /\ UNCHANGED <<acceptor, life, paused, timer, job, exited, broken, bindFailed, late, moving>>

\* run() returns.
WorkerExits(w) ==
  /\ main = "joining" /\ Idle(w)
  /\ timer = "off" /\ Free = Slots /\ \A v \in Workers : job[v] = NoSession
  /\ exited' = exited \cup {w}
  /\ UNCHANGED <<acceptor, life, open, paused, timer, job, main, broken, bindFailed, late,
                 missed, moving>>

\* main: join_all, and the end.
JoinAll ==
  /\ main = "joining" /\ exited = Workers
  /\ main' = "ended"
  /\ UNCHANGED <<acceptor, life, open, paused, timer, job, exited, broken, bindFailed,
                 late, missed, moving>>

-----------------------------------------------------------------------------
Console == Pause \/ ResumeOpen \/ RemoveSessions \/ CancelTimer

MainStep == ResumeListen \/ ResumeFails \/ CloseAcceptor \/ CloseRest \/ JoinAll

\* A handler goes on, or one without a wait for anybody begins.
WorkerStep(w) ==
  \/ HandleSessionAccept(w) \/ LoginAppend(w)
  \/ OnTimerRearm(w) \/ OnTimerCancelled(w) \/ WorkerExits(w)

Next ==
  \/ \E s \in Slots : Connect(s) \/ AcceptFails(s)
  \/ \E w \in Workers, s \in Slots :
       \/ HandleSession(w, s) \/ HandleSessionError(w, s) \/ SessionEnds(w, s)
       \/ LoginRemove(w, s)
  \/ \E w \in Workers : OnTimer(w) \/ WorkerStep(w)
  \/ Expire \/ Console \/ MainStep

\* Queued handlers are run and run to their end; reads on a closed socket
\* fail; the main thread goes on.  Clients and the operator owe nothing.
Fairness ==
  /\ \A w \in Workers : WF_vars(WorkerStep(w))
  /\ \A s \in Slots :
       /\ WF_vars(\E w \in Workers : HandleSession(w, s) \/ HandleSessionError(w, s))
       /\ WF_vars(s \notin open /\ \E w \in Workers : SessionEnds(w, s))
  /\ WF_vars(\E w \in Workers : OnTimer(w))
  /\ WF_vars(Expire)
  /\ WF_vars(MainStep)

Spec == Init /\ [][Next]_vars /\ Fairness
-----------------------------------------------------------------------------
\* Every variable has its type; the worker in the middle of handleSession has
\* a session that is starting, and one in the middle of a login an open one.
TypeOK ==
  /\ acceptor \in {"closed", "opened", "listening"}
  /\ life \in [Slots -> {"none", "accepting", "accepted", "aborted", "refused",
                         "starting", "serving"}]
  /\ open \subseteq Slots /\ missed \subseteq Slots /\ exited \subseteq Workers
  /\ timer \in {"armed", "fired", "cancelled", "off"}
  /\ job \in [Workers -> Slots \cup {NoSession, TimerJob}]
  /\ main \in {"console", "resuming", "closing", "removing", "joining", "ended"}
  /\ {paused, broken, bindFailed, late} \subseteq BOOLEAN
  /\ moving \in [Workers -> Slots \cup {NoSession}]
  /\ \A w \in Workers :
       /\ job[w] \in Slots => life[job[w]] = "starting"
       /\ moving[w] \in Slots => moving[w] \in open

\* While the server is not paused there is always an accept waiting or about to
\* be made again, however pauses and resumes fall between start() and accept()
\* of a running handleSession; only a failed accept ends the chain, and pause
\* and resume mend it.  A paused server can be resumed, until a resume has
\* failed to bind.
Serving ==
  main = "console" =>
    /\ ~paused /\ ~broken =>
         acceptor = "listening" /\ \E s \in Slots : life[s] \in {"accepting", "accepted", "starting"}
    /\ paused /\ ~bindFailed => acceptor = "closed"

\* Until close(), one timer wait or its handler is alive, and one only: slow
\* senders are polled and idle buffers evicted, paused or not.
Ticks ==
  LET running == {w \in Workers : job[w] = TimerJob}
  IN /\ main \in {"console", "resuming"} => timer \in {"armed", "fired"} \/ running # {}
     /\ Cardinality(running) <= 1
     /\ running # {} => timer = "off"

\* When close() has gone through, no session has an open socket but those that
\* its removeSessions could not find in m_sessions: accepted before the acceptor
\* was closed and not started yet, or just then between the removeSession and
\* the appendSession of a login.
NobodyLeft == main \in {"joining", "ended"} => open \subseteq missed

\* The process comes to its end after e: join_all returns, unless the timer's
\* handler was queued or running at cancel(), which arms it again for good, or
\* the client of a session that NobodyLeft exempts, started late or caught in
\* the middle of a login, stays for ever.
Ends == main = "closing" /\ ~late ~> main = "ended" \/ [](open # {})
=============================================================================
