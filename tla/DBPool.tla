------------------------------ MODULE DBPool ------------------------------
(***************************************************************************)
(* The pool of MongoDB clients (src/src/db.cpp).  Every DB:: function      *)
(* calls acquire(), works on the connection it gets and gives it back when *)
(* the Connection::Lock goes out of scope, so a thread holds one           *)
(* connection at most and is in one acquire() at most.                     *)
(*                                                                         *)
(* m_connectionsMutex protects the queue: one queue access is one step.    *)
(* m_mutex protects nothing but the condition variable; its critical       *)
(* sections contain one visible step each (the wait, the second            *)
(* getConnection, the notify), so it needs no variable of its own.         *)
(***************************************************************************)
EXTENDS Naturals, Sequences, FiniteSets, Functions

CONSTANTS
  Threads,      \* the io_service workers and the main thread
  Connections,  \* the client objects made by DB::startup
  NoConnection  \* the null shared_ptr

ASSUME PoolAssumption ==
  /\ IsFiniteSet(Threads)
  /\ IsFiniteSet(Connections)
  /\ Connections # {}
  /\ NoConnection \notin Connections

VARIABLES
  pool,    \* m_connections, front first
  pc,      \* where each thread is in acquire / unlock
  con,     \* con[t]: the m_con of the Lock that t holds
  closed   \* DB::cleanup has run

vars == <<pool, pc, con, closed>>

\* Mutant of Startup: the loop stops one short.
StartupOneShort ==
  {p \in [1 .. Cardinality(Connections) - 1 -> Connections] : IsInjective(p)}

\* DB::startup pushes every connection once.
Startup == {p \in [1 .. Cardinality(Connections) -> Connections] : IsInjective(p)}

Init ==
  /\ pool \in Startup
  /\ pc = [t \in Threads |-> "idle"]
  /\ con = [t \in Threads |-> NoConnection]
  /\ closed = FALSE

Goto(t, l) == pc' = [pc EXCEPT ![t] = l]

\* Mutant of GetConnection: the front is read and not popped.
GetWithoutPop(t, otherwise) ==
  /\ UNCHANGED pool
  /\ \/ pool # <<>> /\ con' = [con EXCEPT ![t] = Head(pool)] /\ Goto(t, "using")
     \/ pool = <<>> /\ UNCHANGED con /\ Goto(t, otherwise)

\* getConnection: take the front of the queue, or come away empty-handed
\* and go on at otherwise.
GetConnection(t, otherwise) ==
  \/ /\ pool # <<>>
     /\ con' = [con EXCEPT ![t] = Head(pool)]
     /\ pool' = Tail(pool)
     /\ Goto(t, "using")
  \/ /\ pool = <<>>
     /\ Goto(t, otherwise)
     /\ UNCHANGED <<pool, con>>

\* acquire, up to the first getConnection.
Acquire(t) ==
  /\ pc[t] = "idle"
  /\ GetConnection(t, "empty")
  /\ UNCHANGED closed

\* m_condition.wait_for, without a predicate: a push that came in between
\* is not noticed.
Wait(t) ==
  /\ pc[t] = "empty"
  /\ Goto(t, "waiting")
  /\ UNCHANGED <<pool, con, closed>>

\* Mutant of Timeout: wait instead of wait_for.
TimeoutNever(t) == pc[t] = "never" /\ UNCHANGED vars

\* The ten seconds are over, or the wake-up is spurious.
Timeout(t) ==
  /\ pc[t] = "waiting"
  /\ Goto(t, "woken")
  /\ UNCHANGED <<pool, con, closed>>

\* The second and last getConnection; acquire returns nullptr when it fails,
\* and no caller looks before it writes lock->db().
Retry(t) ==
  /\ pc[t] = "woken"
  /\ GetConnection(t, "null")
  /\ UNCHANGED closed

\* Lock::unlock, first half: the connection goes to the back of the queue.
Unlock(t) ==
  /\ pc[t] = "using"
  /\ pool' = Append(pool, con[t])
  /\ con' = [con EXCEPT ![t] = NoConnection]
  /\ Goto(t, "pushed")
  /\ UNCHANGED closed

\* Lock::unlock, second half: notify_one wakes any one waiter.
Notify(t) ==
  LET waiters == {w \in Threads : pc[w] = "waiting"}
  IN /\ pc[t] = "pushed"
     /\ IF waiters = {}
        THEN Goto(t, "idle")
        ELSE \E w \in waiters :
               pc' = [pc EXCEPT ![t] = "idle", ![w] = "woken"]
     /\ UNCHANGED <<pool, con, closed>>

\* DB::cleanup: Server::close drops the queue while handlers may still run.
Cleanup ==
  /\ ~closed
  /\ closed' = TRUE
  /\ pool' = <<>>
  /\ UNCHANGED <<pc, con>>

Thread(t) ==
  Acquire(t) \/ Wait(t) \/ Timeout(t) \/ Retry(t) \/ Unlock(t) \/ Notify(t)

Next == (\E t \in Threads : Thread(t)) \/ Cleanup

\* Threads keep running, wait_for returns after ten seconds at the latest and
\* a database call returns; nobody has to start one (Acquire).
Fairness ==
  \A t \in Threads :
    WF_vars(Wait(t) \/ Timeout(t) \/ Retry(t) \/ Unlock(t) \/ Notify(t))

Spec == Init /\ [][Next]_vars /\ Fairness

---------------------------------------------------------------------------
\* Every variable has its type, and con[t] is set just while t uses it.
TypeOK ==
  /\ pool \in Seq(Connections)
  /\ pc \in [Threads -> {"idle", "empty", "waiting", "woken", "using", "pushed", "null"}]
  /\ con \in [Threads -> Connections \cup {NoConnection}]
  /\ closed \in BOOLEAN
  /\ \A t \in Threads : con[t] # NoConnection <=> pc[t] = "using"

Pooled == {pool[i] : i \in 1 .. Len(pool)}
Held == {con[t] : t \in {u \in Threads : pc[u] = "using"}}

\* server.cpp:53 asks that "one client instance should only be used by one
\* single thread": no two threads hold the same connection, none that is held
\* is in the queue, and none is in the queue twice, shutdown included.
ExclusiveUse ==
  /\ \A t, u \in Threads : con[t] = con[u] /\ con[t] # NoConnection => t = u
  /\ \A i \in 1 .. Len(pool) : \A t \in Threads : con[t] # pool[i]
  /\ \A i, j \in 1 .. Len(pool) : pool[i] = pool[j] => i = j

\* Until cleanup drops the queue no connection leaks, whatever the order of
\* time-outs, wake-ups and unlocks.
NoLeak == ~closed => Pooled \cup Held = Connections

\* acquire() returns nullptr, which every caller dereferences, only if there
\* are more threads than connections or the shutdown has begun: with the
\* default 20 workers and 25 connections no thread ever even waits.
PoolSuffices ==
  Cardinality(Threads) <= Cardinality(Connections) /\ ~closed =>
    \A t \in Threads : pc[t] \notin {"empty", "waiting", "woken", "null"}

\* An acquire() that found the queue empty comes back, although the wake-up
\* sent between its getConnection and its wait_for is lost.
AcquireReturns ==
  \A t \in Threads :
    pc[t] \in {"empty", "waiting", "woken"} ~> pc[t] \in {"using", "null"}

---------------------------------------------------------------------------
\* The abstract pool: the owner of each connection.
Free == "free"
Gone == "gone"

ASSUME OwnerAssumption == Free \notin Threads /\ Gone \notin Threads

holder ==
  [c \in Connections |->
     IF \E t \in Threads : con[t] = c THEN CHOOSE t \in Threads : con[t] = c
     ELSE IF c \in Pooled THEN Free ELSE Gone]

Abstract == INSTANCE ConnectionPool

\* DBPool implements ConnectionPool: waiting, waking and notifying are
\* stutters, and a connection changes hands only through the queue.
Refines == Abstract!Spec
===========================================================================
