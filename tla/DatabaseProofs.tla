--------------------------- MODULE DatabaseProofs ---------------------------
(***************************************************************************)
(* Proofs about DBPool, for any number of threads and connections, and     *)
(* about Accounts, for any number of registrations, workers and names.     *)
(***************************************************************************)
EXTENDS DBPool, Accounts, FiniteSetTheorems, TLAPS

(***************************************************************************)
(* The pool.                                                               *)
(***************************************************************************)

\* What getConnection and Startup rely on: the pool is as large as the number
\* of connections is.
LEMMA PoolSize == Cardinality(Connections) \in Nat
BY FS_CardinalityType, PoolAssumption

\* Every initial queue holds every connection exactly once.
LEMMA StartupFills ==
  ASSUME NEW p \in Startup
  PROVE  /\ p \in Seq(Connections)
         /\ Len(p) = Cardinality(Connections)
         /\ \A i, j \in 1 .. Len(p) : p[i] = p[j] => i = j
         /\ {p[i] : i \in 1 .. Len(p)} = Connections
<1> DEFINE N == Cardinality(Connections)
<1>0. N \in Nat
  BY PoolSize
<1>1. p \in [1 .. N -> Connections] /\ IsInjective(p)
  BY DEF Startup
<1>2. p \in Seq(Connections) /\ Len(p) = N
  BY <1>0, <1>1
<1>3. \A i, j \in 1 .. N : p[i] = p[j] => i = j
  BY <1>1 DEF IsInjective
<1>4. p \in Injection(1 .. N, Connections)
  BY <1>1 DEF Injection
<1>5. Cardinality(1 .. N) = N
  BY <1>0, FS_Interval
<1>6. p \in Surjection(1 .. N, Connections)
  BY <1>4, <1>5, FS_Injection, PoolAssumption
<1>7. \A c \in Connections : \E i \in 1 .. N : p[i] = c
  BY <1>6 DEF Surjection
<1>. QED
  BY <1>1, <1>2, <1>3, <1>7

\* The steps of the type invariant.
LEMMA PoolTypeInit == Init => TypeOK
BY StartupFills, PoolAssumption DEF Init, TypeOK

LEMMA PoolTypeStep == TypeOK /\ [Next]_vars => TypeOK'
<1>. SUFFICES ASSUME TypeOK, [Next]_vars PROVE TypeOK'
  OBVIOUS
<1>. USE PoolAssumption DEF TypeOK, Goto
<1>1. ASSUME NEW t \in Threads, Acquire(t) PROVE TypeOK'
  BY <1>1, SMTT(30) DEF Acquire, GetConnection
<1>2. ASSUME NEW t \in Threads, Wait(t) PROVE TypeOK'
  BY <1>2 DEF Wait
<1>3. ASSUME NEW t \in Threads, Timeout(t) PROVE TypeOK'
  BY <1>3 DEF Timeout
<1>4. ASSUME NEW t \in Threads, Retry(t) PROVE TypeOK'
  BY <1>4 DEF Retry, GetConnection
<1>5. ASSUME NEW t \in Threads, Unlock(t) PROVE TypeOK'
  BY <1>5 DEF Unlock
<1>6. ASSUME NEW t \in Threads, Notify(t) PROVE TypeOK'
  BY <1>6 DEF Notify
<1>7. CASE Cleanup
  BY <1>7 DEF Cleanup
<1>8. CASE UNCHANGED vars
  BY <1>8 DEF vars
<1>. QED
  BY <1>1, <1>2, <1>3, <1>4, <1>5, <1>6, <1>7, <1>8 DEF Next, Thread
\* Type correctness of the pool and of the threads' program counters
\* (db.cpp, acquire and Lock::unlock).
THEOREM PoolTypeCorrect == Spec => []TypeOK
BY PoolTypeInit, PoolTypeStep, PTL DEF Spec

---------------------------------------------------------------------------
Elems(p) == {p[i] : i \in 1 .. Len(p)}
Distinct(p) == \A i, j \in 1 .. Len(p) : p[i] = p[j] => i = j

\* Taking the front of the queue: what is left, and what is no longer there.
LEMMA PopFront ==
  ASSUME NEW p \in Seq(Connections), p # <<>>, Distinct(p)
  PROVE  /\ Head(p) \in Elems(p)
         /\ Elems(Tail(p)) = Elems(p) \ {Head(p)}
         /\ Distinct(Tail(p))
<1> DEFINE q == Tail(p)
<1>1. /\ Len(p) \in Nat \ {0} /\ Len(q) = Len(p) - 1
      /\ \A i \in 1 .. Len(q) : q[i] = p[i + 1]
      /\ Head(p) = p[1]
  OBVIOUS
<1>2. \A i \in 2 .. Len(p) : p[i] = q[i - 1] /\ i - 1 \in 1 .. Len(q)
  BY <1>1
<1>3. \A i, j \in 1 .. Len(q) : q[i] = q[j] => i = j
  BY <1>1 DEF Distinct
<1>4. ASSUME NEW i \in 1 .. Len(q)
      PROVE  i + 1 \in 1 .. Len(p) /\ q[i] = p[i + 1] /\ q[i] # p[1]
  BY <1>1 DEF Distinct
<1>. QED
  BY <1>1, <1>2, <1>3, <1>4, SMTT(30) DEF Elems, Distinct

\* Pushing what is not in the queue.
LEMMA PushBack ==
  ASSUME NEW p \in Seq(Connections), NEW c \in Connections,
         Distinct(p), c \notin Elems(p)
  PROVE  /\ Elems(Append(p, c)) = Elems(p) \cup {c}
         /\ Distinct(Append(p, c))
<1> DEFINE q == Append(p, c)
<1>1. /\ Len(p) \in Nat /\ Len(q) = Len(p) + 1
      /\ \A i \in 1 .. Len(p) : q[i] = p[i] /\ i \in 1 .. Len(q)
      /\ q[Len(q)] = c
      /\ \A i \in 1 .. Len(q) : i \in 1 .. Len(p) \/ i = Len(q)
  OBVIOUS
<1>. QED
  BY <1>1 DEF Elems, Distinct

\* The inductive invariant: connections are neither shared nor lost.
Ownership == ExclusiveUse /\ NoLeak

LEMMA OwnershipInit == Init => Ownership
<1>. SUFFICES ASSUME Init PROVE Ownership
  OBVIOUS
<1>1. \A t \in Threads : con[t] = NoConnection
  BY DEF Init
<1>2. /\ \A i, j \in 1 .. Len(pool) : pool[i] = pool[j] => i = j
      /\ Pooled = Connections
      /\ pool \in Seq(Connections)
  BY StartupFills DEF Init, Pooled
<1>3. Held = {}
  BY DEF Init, Held
<1>. QED
  BY <1>1, <1>2, <1>3, PoolAssumption DEF Ownership, ExclusiveUse, NoLeak

\* ExclusiveUse and Pooled in those terms.
LEMMA ExclusiveUseSets ==
  ExclusiveUse <=>
    /\ \A t, u \in Threads : con[t] = con[u] /\ con[t] # NoConnection => t = u
    /\ \A t \in Threads : con[t] \notin Pooled
    /\ Distinct(pool)
BY DEF ExclusiveUse, Pooled, Distinct

\* getConnection moves the front of the queue into the thread's hands.
LEMMA TakeKeepsOwnership ==
  ASSUME TypeOK, Ownership, NEW t \in Threads, con[t] = NoConnection, pool # <<>>,
         con' = [con EXCEPT ![t] = Head(pool)], pool' = Tail(pool),
         pc' = [pc EXCEPT ![t] = "using"], closed' = closed
  PROVE  Ownership'
<1>1. /\ pool \in Seq(Connections)
      /\ Distinct(pool)
      /\ \A u \in Threads : con[u] \notin Pooled
      /\ \A u, v \in Threads : con[u] = con[v] /\ con[u] # NoConnection => u = v
  BY ExclusiveUseSets DEF TypeOK, Ownership
<1>2. /\ Head(pool) \in Pooled
      /\ Pooled' = Pooled \ {Head(pool)}
      /\ Distinct(pool')
  <2>1. /\ Head(pool) \in Elems(pool)
        /\ Elems(pool') = Elems(pool) \ {Head(pool)}
        /\ Distinct(pool')
    BY <1>1, PopFront
  <2>. QED
    BY <2>1 DEF Pooled, Elems
<1>3. \A u \in Threads : con'[u] = IF u = t THEN Head(pool) ELSE con[u]
  BY DEF TypeOK
<1>4. ExclusiveUse'
  <2>1. \A u, v \in Threads : con'[u] = con'[v] /\ con'[u] # NoConnection => u = v
    BY <1>1, <1>2, <1>3
  <2>2. \A u \in Threads : con'[u] \notin Pooled'
    BY <1>1, <1>2, <1>3
  <2>. QED
    BY <2>1, <2>2, <1>2 DEF ExclusiveUse, Pooled, Distinct
<1>5. Held' = Held \cup {Head(pool)}
  <2>1. \A u \in Threads : pc'[u] = "using" <=> u = t \/ pc[u] = "using"
    BY DEF TypeOK
  <2>2. pc[t] # "using"
    BY DEF TypeOK
  <2>. QED
    BY <2>1, <2>2, <1>3 DEF Held
<1>6. NoLeak'
  BY <1>2, <1>5 DEF Ownership, NoLeak
<1>. QED
  BY <1>4, <1>6 DEF Ownership

\* Lock::unlock moves it back.
LEMMA GiveKeepsOwnership ==
  ASSUME TypeOK, Ownership, NEW t \in Threads, Unlock(t)
  PROVE  Ownership'
<1>1. /\ pool \in Seq(Connections) /\ con[t] \in Connections /\ con[t] # NoConnection
      /\ Distinct(pool)
      /\ \A u \in Threads : con[u] \notin Pooled
      /\ \A u, v \in Threads : con[u] = con[v] /\ con[u] # NoConnection => u = v
      /\ pool' = Append(pool, con[t])
  BY ExclusiveUseSets DEF TypeOK, Ownership, Unlock
<1>2. /\ Pooled' = Pooled \cup {con[t]}
      /\ Distinct(pool')
  <2>1. con[t] \notin Elems(pool)
    BY <1>1 DEF Pooled, Elems
  <2>2. Elems(pool') = Elems(pool) \cup {con[t]} /\ Distinct(pool')
    BY <1>1, <2>1, PushBack
  <2>. QED
    BY <2>2 DEF Pooled, Elems
<1>3. \A u \in Threads : con'[u] = IF u = t THEN NoConnection ELSE con[u]
  BY DEF TypeOK, Unlock
<1>4. ExclusiveUse'
  <2>1. NoConnection \notin Pooled'
    <3>1. Pooled \subseteq Connections
      BY <1>1 DEF Pooled
    <3>. QED
      BY <3>1, <1>1, <1>2, PoolAssumption
  <2>2. \A u \in Threads : con'[u] \notin Pooled'
    BY <1>1, <1>2, <1>3, <2>1
  <2>3. \A u, v \in Threads : con'[u] = con'[v] /\ con'[u] # NoConnection => u = v
    BY <1>1, <1>3
  <2>. QED
    BY <2>2, <2>3, <1>2 DEF ExclusiveUse, Pooled, Distinct
<1>5. Held \subseteq Held' \cup {con[t]} /\ Held' \subseteq Held /\ con[t] \in Held
  <2>1. \A u \in Threads : pc'[u] = "using" <=> u # t /\ pc[u] = "using"
    BY DEF TypeOK, Unlock, Goto
  <2>2. pc[t] = "using"
    BY DEF Unlock
  <2>. QED
    BY <2>1, <2>2, <1>3 DEF Held
<1>6. NoLeak'
  <2>1. closed' = closed
    BY DEF Unlock
  <2>. QED
    BY <2>1, <1>2, <1>5 DEF Ownership, NoLeak
<1>. QED
  BY <1>4, <1>6 DEF Ownership

\* A step that moves no connection.
LEMMA StillKeepsOwnership ==
  ASSUME Ownership, UNCHANGED <<pool, con, closed>>,
         \A u \in Threads : pc'[u] = "using" <=> pc[u] = "using"
  PROVE  Ownership'
<1>1. Held' = Held
  BY DEF Held
<1>. QED
  BY <1>1 DEF Ownership, ExclusiveUse, NoLeak, Pooled

LEMMA OwnershipStep == TypeOK /\ Ownership /\ [Next]_vars => Ownership'
<1>. SUFFICES ASSUME TypeOK, Ownership, [Next]_vars PROVE Ownership'
  OBVIOUS
<1>1. ASSUME NEW t \in Threads, NEW l, GetConnection(t, l), UNCHANGED closed,
             pc[t] # "using", l # "using"
      PROVE  Ownership'
  <2>1. con[t] = NoConnection
    BY <1>1 DEF TypeOK
  <2>2. CASE pool # <<>>
    BY <1>1, <2>1, <2>2, TakeKeepsOwnership DEF GetConnection, Goto
  <2>3. CASE pool = <<>>
    <3>1. UNCHANGED <<pool, con, closed>> /\ pc' = [pc EXCEPT ![t] = l]
      BY <1>1, <2>3 DEF GetConnection, Goto
    <3>. QED
      BY <1>1, <3>1, StillKeepsOwnership DEF TypeOK
  <2>. QED
    BY <2>2, <2>3
<1>2. ASSUME NEW t \in Threads, Acquire(t) PROVE Ownership'
  BY <1>1, <1>2 DEF Acquire
<1>3. ASSUME NEW t \in Threads, Retry(t) PROVE Ownership'
  BY <1>1, <1>3 DEF Retry
<1>4. ASSUME NEW t \in Threads, Wait(t) \/ Timeout(t) PROVE Ownership'
  BY <1>4, StillKeepsOwnership DEF Wait, Timeout, Goto, TypeOK
<1>5. ASSUME NEW t \in Threads, Notify(t) PROVE Ownership'
  BY <1>5, StillKeepsOwnership DEF Notify, Goto, TypeOK
<1>6. ASSUME NEW t \in Threads, Unlock(t) PROVE Ownership'
  BY <1>6, GiveKeepsOwnership
<1>7. CASE Cleanup
  <2>1. closed' = TRUE /\ pool' = <<>> /\ UNCHANGED <<pc, con>>
    BY <1>7 DEF Cleanup
  <2>. QED
    BY <2>1 DEF Ownership, ExclusiveUse, NoLeak
<1>8. CASE UNCHANGED vars
  BY <1>8, StillKeepsOwnership DEF vars
<1>. QED
  BY <1>2, <1>3, <1>4, <1>5, <1>6, <1>7, <1>8 DEF Next, Thread

\* A MongoDB client is never used by two threads (server.cpp:53), and none is
\* lost before the shutdown, for any number of threads and connections.
THEOREM PoolOwnership == Spec => [](ExclusiveUse /\ NoLeak)
<1>1. TypeOK /\ Ownership /\ [Next]_vars => (TypeOK /\ Ownership)'
  BY PoolTypeStep, OwnershipStep
<1>2. Init => TypeOK /\ Ownership
  BY PoolTypeInit, OwnershipInit
<1>3. Ownership => ExclusiveUse /\ NoLeak
  BY DEF Ownership
<1>. QED
  BY <1>1, <1>2, <1>3, PTL DEF Spec

---------------------------------------------------------------------------
\* The pigeonhole argument: a thread that finds the queue empty is one of more
\* threads than there are connections.
LEMMA EmptyMeansBusy ==
  ASSUME TypeOK, Ownership, ~closed, pool = <<>>,
         NEW t \in Threads, pc[t] # "using"
  PROVE  Cardinality(Connections) < Cardinality(Threads)
<1> DEFINE user(c) == CHOOSE u \in Threads : pc[u] = "using" /\ con[u] = c
           f == [c \in Connections |-> user(c)]
           Others == Threads \ {t}
<1>1. Pooled = {}
  BY DEF Pooled
<1>2. \A c \in Connections : \E u \in Threads : pc[u] = "using" /\ con[u] = c
  BY <1>1 DEF Ownership, NoLeak, Held
<1>3. \A c \in Connections : user(c) \in Threads /\ pc[user(c)] = "using" /\ con[user(c)] = c
  BY <1>2
<1>4. \A c \in Connections : f[c] \in Others /\ con[f[c]] = c
  BY <1>3
<1>. HIDE DEF f
<1>5. f \in [Connections -> Others]
  BY <1>4 DEF f
<1>6. IsInjective(f)
  BY <1>4, <1>5 DEF IsInjective
<1>7. f \in Injection(Connections, Others)
  BY <1>5, <1>6 DEF Injection
<1>8. IsFiniteSet(Others) /\ Cardinality(Others) = Cardinality(Threads) - 1
  BY FS_RemoveElement, PoolAssumption
<1>9. Cardinality(Connections) <= Cardinality(Others)
  BY <1>7, <1>8, FS_Injection
<1>. QED
  BY <1>8, <1>9, FS_CardinalityType, PoolAssumption

LEMMA SufficesStep ==
  TypeOK /\ Ownership /\ PoolSuffices /\ [Next]_vars => PoolSuffices'
<1>. SUFFICES ASSUME TypeOK, Ownership, PoolSuffices, [Next]_vars,
                     Cardinality(Threads) <= Cardinality(Connections), ~closed'
              PROVE  \A t \in Threads : pc'[t] \notin {"empty", "waiting", "woken", "null"}
  BY DEF PoolSuffices
<1>1. Cardinality(Threads) \in Nat /\ Cardinality(Connections) \in Nat
  BY FS_CardinalityType, PoolAssumption
<1>2. closed' = closed
  BY DEF Next, Thread, Acquire, Wait, Timeout, Retry, Unlock, Notify, Cleanup, vars
<1>3. \A t \in Threads : pc[t] \notin {"empty", "waiting", "woken", "null"}
  BY <1>2 DEF PoolSuffices
<1>4. ASSUME NEW t \in Threads, Acquire(t)
      PROVE  \A u \in Threads : pc'[u] \notin {"empty", "waiting", "woken", "null"}
  <2>1. pool # <<>>
    BY <1>1, <1>2, <1>4, EmptyMeansBusy DEF Acquire
  <2>. QED
    BY <1>3, <1>4, <2>1 DEF Acquire, GetConnection, Goto, TypeOK
<1>5. ASSUME NEW t \in Threads, Wait(t) \/ Timeout(t) \/ Retry(t) PROVE FALSE
  BY <1>3, <1>5 DEF Wait, Timeout, Retry
<1>6. ASSUME NEW t \in Threads, Unlock(t) \/ Notify(t)
      PROVE  \A u \in Threads : pc'[u] \notin {"empty", "waiting", "woken", "null"}
  BY <1>3, <1>6 DEF Unlock, Notify, Goto, TypeOK
<1>7. CASE Cleanup \/ UNCHANGED vars
  BY <1>3, <1>7 DEF Cleanup, vars
<1>. QED
  BY <1>4, <1>5, <1>6, <1>7 DEF Next, Thread

\* With no more threads than connections, acquire() never waits and never
\* returns nullptr before the shutdown, whatever the two numbers are.
THEOREM PoolLargeEnough == Spec => []PoolSuffices
<1>1. Init => TypeOK /\ Ownership /\ PoolSuffices
  BY PoolTypeInit, OwnershipInit DEF Init, PoolSuffices
<1>2. TypeOK /\ Ownership /\ PoolSuffices /\ [Next]_vars
        => (TypeOK /\ Ownership /\ PoolSuffices)'
  BY PoolTypeStep, OwnershipStep, SufficesStep
<1>. QED
  BY <1>1, <1>2, PTL DEF Spec

---------------------------------------------------------------------------
\* What the refinement mapping says of one connection.
HolderFacts ==
  \A c \in Connections :
    /\ \A t \in Threads : con[t] = c => holder[c] = t
    /\ (\A t \in Threads : con[t] # c) => holder[c] = IF c \in Pooled THEN Free ELSE Gone

LEMMA HolderIs == ExclusiveUse => HolderFacts
<1>. SUFFICES ASSUME ExclusiveUse, NEW c \in Connections
              PROVE  /\ \A t \in Threads : con[t] = c => holder[c] = t
                     /\ (\A t \in Threads : con[t] # c)
                          => holder[c] = IF c \in Pooled THEN Free ELSE Gone
  BY DEF HolderFacts
<1>1. ASSUME NEW t \in Threads, con[t] = c PROVE holder[c] = t
  <2>1. \A u \in Threads : con[u] = c => u = t
    BY <1>1, PoolAssumption DEF ExclusiveUse
  <2>2. (CHOOSE u \in Threads : con[u] = c) = t
    BY <1>1, <2>1
  <2>. QED
    BY <1>1, <2>2 DEF holder
<1>. QED
  BY <1>1 DEF holder

LEMMA HolderDomain == holder = [c \in Connections |-> holder[c]]
BY DEF holder

\* Taking a connection is Take, for the thread that gets it.
LEMMA TakeRefines ==
  ASSUME TypeOK, ExclusiveUse, ExclusiveUse', NEW t \in Threads,
         con[t] = NoConnection, pool # <<>>,
         con' = [con EXCEPT ![t] = Head(pool)], pool' = Tail(pool)
  PROVE  Abstract!Take(t, Head(pool))
<1> DEFINE h == Head(pool)
<1>1. HolderFacts /\ HolderFacts'
  <2>1. (ExclusiveUse => HolderFacts)'
    BY HolderIs, PTL
  <2>. QED
    BY <2>1, HolderIs
<1>2. /\ pool \in Seq(Connections) /\ h \in Connections /\ h \in Pooled
      /\ Pooled' = Pooled \ {h}
  <2>1. pool \in Seq(Connections) /\ Distinct(pool)
    BY ExclusiveUseSets DEF TypeOK
  <2>2. h \in Elems(pool) /\ Elems(pool') = Elems(pool) \ {h}
    BY <2>1, PopFront
  <2>3. h \in Connections
    BY <2>1
  <2>. QED
    BY <2>1, <2>2, <2>3 DEF Elems, Pooled
<1>3. \A u \in Threads : con[u] # h
  BY <1>2, ExclusiveUseSets
<1>4. \A u \in Threads : con'[u] = IF u = t THEN h ELSE con[u]
  BY DEF TypeOK
<1>5. NoConnection \notin Connections
  BY PoolAssumption
<1>. HIDE DEF h
<1>6. holder[h] = Free
  BY <1>1, <1>2, <1>3 DEF HolderFacts
<1>7. \A d \in Connections : holder[d] # t
  BY <1>1, <1>5, OwnerAssumption DEF HolderFacts
<1>8. \A d \in Connections : holder'[d] = IF d = h THEN t ELSE holder[d]
  <2>1. holder'[h] = t
    BY <1>1, <1>2, <1>4 DEF HolderFacts
  <2>2. ASSUME NEW d \in Connections, d # h PROVE holder'[d] = holder[d]
    <3>1. CASE \E u \in Threads : con[u] = d
      <4>1. PICK u \in Threads : con[u] = d
        BY <3>1
      <4>2. con'[u] = d
        BY <4>1, <1>4, <1>5
      <4>. QED
        BY <4>1, <4>2, <1>1 DEF HolderFacts
    <3>2. CASE \A u \in Threads : con[u] # d
      <4>1. \A u \in Threads : con'[u] # d
        BY <3>2, <2>2, <1>4
      <4>. QED
        BY <4>1, <3>2, <2>2, <1>1, <1>2 DEF HolderFacts
    <3>. QED
      BY <3>1, <3>2
  <2>. QED
    BY <2>1, <2>2
<1>9. holder' = [holder EXCEPT ![h] = t]
  <2>1. holder' = [c \in Connections |-> holder'[c]]
    BY DEF holder
  <2>. QED
    BY <2>1, <1>2, <1>8, HolderDomain
<1>. QED
  BY <1>6, <1>7, <1>9 DEF Abstract!Take, h

\* Giving one back is Give.
LEMMA GiveRefines ==
  ASSUME TypeOK, ExclusiveUse, ExclusiveUse', NEW t \in Threads, Unlock(t)
  PROVE  Abstract!Give(t, con[t])
<1> DEFINE h == con[t]
<1>1. HolderFacts /\ HolderFacts'
  <2>1. (ExclusiveUse => HolderFacts)'
    BY HolderIs, PTL
  <2>. QED
    BY <2>1, HolderIs
<1>2. /\ h \in Connections /\ h # NoConnection
      /\ Pooled' = Pooled \cup {h}
  <2>1. /\ pool \in Seq(Connections) /\ Distinct(pool) /\ h \in Connections
        /\ h \notin Pooled /\ h # NoConnection /\ pool' = Append(pool, h)
    BY ExclusiveUseSets DEF TypeOK, Unlock
  <2>2. h \notin Elems(pool)
    BY <2>1 DEF Pooled, Elems
  <2>3. Elems(pool') = Elems(pool) \cup {h}
    BY <2>1, <2>2, PushBack
  <2>. QED
    BY <2>1, <2>3 DEF Elems, Pooled
<1>3. \A u \in Threads : con[u] = h => u = t
  BY <1>2 DEF ExclusiveUse
<1>4. \A u \in Threads : con'[u] = IF u = t THEN NoConnection ELSE con[u]
  BY DEF TypeOK, Unlock
<1>5. NoConnection \notin Connections
  BY PoolAssumption
<1>6. holder[h] = t
  BY <1>1, <1>2 DEF HolderFacts
<1>. HIDE DEF h
<1>7. \A d \in Connections : holder'[d] = IF d = h THEN Free ELSE holder[d]
  <2>1. holder'[h] = Free
    <3>1. \A u \in Threads : con'[u] # h
      BY <1>2, <1>3, <1>4
    <3>. QED
      BY <3>1, <1>1, <1>2 DEF HolderFacts
  <2>2. ASSUME NEW d \in Connections, d # h PROVE holder'[d] = holder[d]
    <3>1. CASE \E u \in Threads : con[u] = d
      <4>1. PICK u \in Threads : con[u] = d
        BY <3>1
      <4>2. con'[u] = d
        BY <4>1, <2>2, <1>4 DEF h
      <4>. QED
        BY <4>1, <4>2, <1>1 DEF HolderFacts
    <3>2. CASE \A u \in Threads : con[u] # d
      <4>1. \A u \in Threads : con'[u] # d
        BY <3>2, <1>4, <1>5
      <4>. QED
        BY <4>1, <3>2, <2>2, <1>1, <1>2 DEF HolderFacts
    <3>. QED
      BY <3>1, <3>2
  <2>. QED
    BY <2>1, <2>2
<1>8. holder' = [holder EXCEPT ![h] = Free]
  <2>1. holder' = [c \in Connections |-> holder'[c]]
    BY DEF holder
  <2>. QED
    BY <2>1, <1>2, <1>7, HolderDomain
<1>. QED
  BY <1>6, <1>8 DEF Abstract!Give, h

\* Dropping the queue is Close.
LEMMA CleanupRefines ==
  ASSUME ExclusiveUse, ExclusiveUse', Cleanup
  PROVE  Abstract!Close
<1>1. HolderFacts /\ HolderFacts'
  <2>1. (ExclusiveUse => HolderFacts)'
    BY HolderIs, PTL
  <2>. QED
    BY <2>1, HolderIs
<1>2. Pooled' = {} /\ con' = con
  BY DEF Cleanup, Pooled
<1>3. ASSUME NEW c \in Connections
      PROVE  holder'[c] = IF holder[c] = Free THEN Gone ELSE holder[c]
  <2>1. CASE \E u \in Threads : con[u] = c
    BY <2>1, <1>1, <1>2, OwnerAssumption DEF HolderFacts
  <2>2. CASE \A u \in Threads : con[u] # c
    BY <2>2, <1>1, <1>2 DEF HolderFacts, Free, Gone
  <2>. QED
    BY <2>1, <2>2
<1>4. holder' = [c \in Connections |-> holder'[c]]
  BY DEF holder
<1>. QED
  BY <1>3, <1>4 DEF Abstract!Close

LEMMA StepRefines ==
  TypeOK /\ ExclusiveUse /\ ExclusiveUse' /\ [Next]_vars => [Abstract!Next]_holder
<1>. SUFFICES ASSUME TypeOK, ExclusiveUse, ExclusiveUse', [Next]_vars
              PROVE  [Abstract!Next]_holder
  OBVIOUS
<1>1. ASSUME UNCHANGED <<pool, con>> PROVE [Abstract!Next]_holder
  BY <1>1 DEF holder, Pooled
<1>2. ASSUME NEW t \in Threads, NEW l, GetConnection(t, l), pc[t] # "using"
      PROVE  [Abstract!Next]_holder
  <2>1. con[t] = NoConnection
    BY <1>2 DEF TypeOK
  <2>2. CASE pool # <<>>
    <3>1. Abstract!Take(t, Head(pool))
      BY <1>2, <2>1, <2>2, TakeRefines DEF GetConnection
    <3>2. Head(pool) \in Connections
      BY <2>2 DEF TypeOK
    <3>. QED
      BY <3>1, <3>2 DEF Abstract!Next
  <2>3. CASE pool = <<>>
    BY <1>1, <1>2, <2>3 DEF GetConnection
  <2>. QED
    BY <2>2, <2>3
<1>3. ASSUME NEW t \in Threads, Acquire(t) \/ Retry(t) PROVE [Abstract!Next]_holder
  BY <1>2, <1>3 DEF Acquire, Retry
<1>4. ASSUME NEW t \in Threads, Wait(t) \/ Timeout(t) \/ Notify(t)
      PROVE  [Abstract!Next]_holder
  BY <1>1, <1>4 DEF Wait, Timeout, Notify
<1>5. ASSUME NEW t \in Threads, Unlock(t) PROVE [Abstract!Next]_holder
  <2>1. con[t] \in Connections
    BY <1>5 DEF TypeOK, Unlock
  <2>. QED
    BY <1>5, <2>1, GiveRefines DEF Abstract!Next
<1>6. CASE Cleanup
  BY <1>6, CleanupRefines DEF Abstract!Next
<1>7. CASE UNCHANGED vars
  BY <1>1, <1>7 DEF vars
<1>. QED
  BY <1>3, <1>4, <1>5, <1>6, <1>7 DEF Next, Thread

\* The queue, the condition variable and the time-outs of db.cpp implement the
\* abstract pool, for any number of threads and connections.
THEOREM PoolRefines == Spec => Refines
<1>1. Init => Abstract!Init
  <2>. SUFFICES ASSUME Init PROVE holder = [c \in Connections |-> Free]
    BY DEF Abstract!Init
  <2>1. Pooled = Connections
    BY StartupFills DEF Init, Pooled
  <2>2. \A c \in Connections : \A t \in Threads : con[t] # c
    BY PoolAssumption DEF Init
  <2>. QED
    BY <2>1, <2>2 DEF holder
<1>2. Init => TypeOK /\ Ownership
  BY PoolTypeInit, OwnershipInit
<1>3. TypeOK /\ Ownership /\ [Next]_vars => (TypeOK /\ Ownership)'
  BY PoolTypeStep, OwnershipStep
<1>4. TypeOK /\ Ownership /\ (TypeOK /\ Ownership)' /\ [Next]_vars => [Abstract!Next]_holder
  BY StepRefines DEF Ownership
<1>. QED
  BY <1>1, <1>2, <1>3, <1>4, PTL DEF Spec, Refines, Abstract!Spec
(***************************************************************************)
(* Registrations.                                                          *)
(***************************************************************************)
\* An account that is stored is finished with, and newAccountId's query finds a
\* highest id whenever there is an account.
Stored ==
  /\ \A r \in accounts : at[r] = "done"
  /\ accounts # {} => \E a \in accounts : \A b \in accounts : id[b] <= id[a]

\* As many handlers run as there are workers.
Workers == Cardinality(Running) <= NumWorkers

\* What a registration that began after others were answered knows of them at
\* each of its calls.
Fresh ==
  \A r \in Registrations : \A q \in before[r] :
    /\ q \in accounts
    /\ ~ failed /\ at[r] \in {"id", "insert", "done"} => <<name[r], name[q]>> \notin Matches
    /\ ~ failed /\ at[r] \in {"insert", "done"} => id[q] < id[r]

\* The registrations that have, or are about to store, the id v.
Holders(v) == {q \in Registrations : (q \in accounts \/ at[q] = "insert") /\ id[q] = v}

Shared == ~ failed => \A v \in Nat : Cardinality(Holders(v)) <= NumWorkers

\* The inductive invariant.
AccountsInv == AccountsTypeOK /\ Stored /\ Workers /\ Fresh /\ Shared

LEMMA RegistrationsFinite ==
  ASSUME NEW S \in SUBSET Registrations
  PROVE  IsFiniteSet(S) /\ Cardinality(S) \in Nat
BY AccountsAssumption, FS_Subset, FS_CardinalityType

LEMMA SubsetSmaller ==
  ASSUME NEW S \in SUBSET Registrations, NEW T \in SUBSET S
  PROVE  Cardinality(T) <= Cardinality(S)
BY RegistrationsFinite, FS_Subset

\* What the descending sort of newAccountId finds.
LEMMA HighestIs ==
  ASSUME AccountsTypeOK, Stored, accounts # {}
  PROVE  /\ Highest \in Nat
         /\ \A a \in accounts : id[a] <= Highest
<1>1. \E i \in {id[a] : a \in accounts} : \A a \in accounts : i >= id[a]
  BY DEF Stored, AccountsTypeOK
<1>2. Highest \in {id[a] : a \in accounts} /\ \A a \in accounts : Highest >= id[a]
  BY <1>1 DEF Highest
<1>. QED
  BY <1>2 DEF AccountsTypeOK

\* The id newAccountId returns is above every stored one, when nothing throws.
LEMMA NewIdIs ==
  ASSUME AccountsTypeOK, Stored, NEW r \in Registrations, NewAccountId(r)
  PROVE  \E v \in Nat :
           /\ id' = [id EXCEPT ![r] = v]
           /\ ~ failed' => ~ failed /\ \A a \in accounts : id[a] < v
<1>1. CASE id' = [id EXCEPT ![r] = IF accounts = {} THEN 1 ELSE Highest + 1] /\ failed' = failed
  <2>1. CASE accounts = {}
    BY <1>1, <2>1
  <2>2. CASE accounts # {}
    <3>1. Highest + 1 \in Nat /\ \A a \in accounts : id[a] < Highest + 1
      BY <2>2, HighestIs DEF AccountsTypeOK
    <3>. QED
      BY <1>1, <2>2, <3>1
  <2>. QED
    BY <2>1, <2>2
<1>2. CASE id' = [id EXCEPT ![r] = 0] /\ failed' = TRUE
  BY <1>2
<1>. QED
  BY <1>1, <1>2 DEF NewAccountId

LEMMA AccountsInvInit == AccountsInit => AccountsInv
<1>. SUFFICES ASSUME AccountsInit PROVE AccountsInv
  OBVIOUS
<1>. USE DEF AccountsInit
<1>1. AccountsTypeOK /\ Stored /\ Fresh
  BY DEF AccountsTypeOK, Stored, Fresh
<1>2. Running = {} /\ \A v \in Nat : Holders(v) = {}
  BY DEF Running, Holders
<1>3. Cardinality({}) = 0 /\ 0 <= NumWorkers
  BY FS_EmptySet, AccountsAssumption
<1>4. Workers
  BY <1>2, <1>3 DEF Workers
<1>5. Shared
  BY <1>2, <1>3 DEF Shared
<1>. QED
  BY <1>1, <1>4, <1>5 DEF AccountsInv

LEMMA AccountsTypeStep ==
  AccountsTypeOK /\ Stored /\ [AccountsNext]_accountsVars => AccountsTypeOK'
<1>. SUFFICES ASSUME AccountsTypeOK, Stored, [AccountsNext]_accountsVars PROVE AccountsTypeOK'
  OBVIOUS
<1>. USE DEF AccountsTypeOK, Proceed
<1>1. ASSUME NEW r \in Registrations, CreateAccount(r) \/ GetAccount(r) \/ InsertAccount(r)
      PROVE  AccountsTypeOK'
  BY <1>1 DEF CreateAccount, GetAccount, InsertAccount
<1>2. ASSUME NEW r \in Registrations, NewAccountId(r) PROVE AccountsTypeOK'
  <2>1. PICK v \in Nat : id' = [id EXCEPT ![r] = v]
    BY <1>2, NewIdIs
  <2>. QED
    BY <1>2, <2>1 DEF NewAccountId
<1>. QED
  BY <1>1, <1>2 DEF AccountsNext, accountsVars

LEMMA StoredStep ==
  AccountsTypeOK /\ Stored /\ [AccountsNext]_accountsVars => Stored'
<1>. SUFFICES ASSUME AccountsTypeOK, Stored, [AccountsNext]_accountsVars PROVE Stored'
  OBVIOUS
<1>. USE DEF AccountsTypeOK, Stored, Proceed
<1>1. ASSUME NEW r \in Registrations, CreateAccount(r) \/ GetAccount(r) PROVE Stored'
  BY <1>1 DEF CreateAccount, GetAccount
<1>2. ASSUME NEW r \in Registrations, NewAccountId(r) PROVE Stored'
  <2>1. r \notin accounts /\ accounts' = accounts
    BY <1>2 DEF NewAccountId
  <2>2. PICK v \in Nat : id' = [id EXCEPT ![r] = v]
    BY <1>2, NewIdIs
  <2>3. \A a \in accounts : id'[a] = id[a]
    BY <2>1, <2>2
  <2>4. \A a \in accounts : at'[a] = "done"
    BY <1>2, <2>1 DEF NewAccountId
  <2>. QED
    BY <2>1, <2>3, <2>4
<1>3. ASSUME NEW r \in Registrations, InsertAccount(r) PROVE Stored'
  <2>1. CASE accounts' = accounts
    BY <1>3, <2>1 DEF InsertAccount
  <2>2. CASE accounts' = accounts \cup {r} /\ at' = [at EXCEPT ![r] = "done"]
    <3>1. id' = id
      BY <1>3 DEF InsertAccount
    <3>2. \E a \in accounts' : \A b \in accounts' : id[b] <= id[a]
      <4>1. CASE accounts = {}
        BY <2>2, <4>1
      <4>2. CASE accounts # {}
        <5>1. PICK m \in accounts : \A b \in accounts : id[b] <= id[m]
          BY <4>2
        <5>2. CASE id[r] <= id[m]
          BY <2>2, <5>1, <5>2
        <5>3. CASE ~ (id[r] <= id[m])
          BY <2>2, <5>1, <5>3
        <5>. QED
          BY <5>2, <5>3
      <4>. QED
        BY <4>1, <4>2
    <3>. QED
      BY <2>2, <3>1, <3>2
  <2>. QED
    BY <1>3, <2>1, <2>2 DEF InsertAccount
<1>. QED
  BY <1>1, <1>2, <1>3 DEF AccountsNext, accountsVars

LEMMA WorkersStep ==
  AccountsTypeOK /\ Workers /\ [AccountsNext]_accountsVars => Workers'
<1>. SUFFICES ASSUME AccountsTypeOK, Workers, [AccountsNext]_accountsVars PROVE Workers'
  OBVIOUS
<1>0. Running \in SUBSET Registrations /\ IsFiniteSet(Running) /\ Cardinality(Running) \in Nat
  BY RegistrationsFinite DEF Running
<1>1. ASSUME NEW r \in Registrations, CreateAccount(r) PROVE Workers'
  <2>1. Running' = Running \cup {r}
    BY <1>1 DEF CreateAccount, Proceed, Running, AccountsTypeOK
  <2>2. Cardinality(Running) < NumWorkers
    BY <1>1 DEF CreateAccount
  <2>3. Cardinality(Running \cup {r}) <= Cardinality(Running) + 1
    BY <1>0, FS_AddElement
  <2>. QED
    BY <1>0, <2>1, <2>2, <2>3, RegistrationsFinite, AccountsAssumption DEF Workers
<1>2. ASSUME Running' \in SUBSET Running PROVE Workers'
  BY <1>0, <1>2, SubsetSmaller, RegistrationsFinite, AccountsAssumption DEF Workers
<1>3. ASSUME NEW r \in Registrations, GetAccount(r) \/ NewAccountId(r) \/ InsertAccount(r)
      PROVE  Workers'
  <2>1. Running' \in SUBSET Running
    BY <1>3 DEF GetAccount, NewAccountId, InsertAccount, Proceed, Running, AccountsTypeOK
  <2>. QED
    BY <1>2, <2>1
<1>4. CASE UNCHANGED accountsVars
  <2>1. Running' = Running
    BY <1>4 DEF accountsVars, Running
  <2>. QED
    BY <1>2, <2>1
<1>. QED
  BY <1>1, <1>3, <1>4 DEF AccountsNext

LEMMA FreshStep ==
  AccountsTypeOK /\ Stored /\ Fresh /\ [AccountsNext]_accountsVars => Fresh'
<1>. SUFFICES ASSUME AccountsTypeOK, Stored, Fresh, [AccountsNext]_accountsVars PROVE Fresh'
  OBVIOUS
<1>. USE DEF AccountsTypeOK, Fresh, Proceed
<1>1. ASSUME NEW r \in Registrations, CreateAccount(r) PROVE Fresh'
  BY <1>1 DEF CreateAccount
<1>2. ASSUME NEW r \in Registrations, GetAccount(r) PROVE Fresh'
  <2>1. /\ UNCHANGED <<accounts, name, id, before>>
        /\ at[r] = "name" /\ \A q \in Registrations \ {r} : at'[q] = at[q]
    BY <1>2 DEF GetAccount
  <2>2. ~ failed' => /\ ~ failed
                     /\ at'[r] = "refused" \/ (at'[r] = "id" /\ \A a \in accounts : <<name[r], name[a]>> \notin Matches)
    BY <1>2 DEF GetAccount
  <2>. QED
    BY <2>1, <2>2
<1>3. ASSUME NEW r \in Registrations, NewAccountId(r) PROVE Fresh'
  <2>1. PICK v \in Nat :
          /\ id' = [id EXCEPT ![r] = v]
          /\ ~ failed' => ~ failed /\ \A a \in accounts : id[a] < v
    BY <1>3, NewIdIs
  <2>2. /\ UNCHANGED <<accounts, name, before>>
        /\ at[r] = "id" /\ at' = [at EXCEPT ![r] = "insert"]
    BY <1>3 DEF NewAccountId
  <2>3. \A q \in accounts : id'[q] = id[q]
    BY <2>1, <2>2 DEF Stored
  <2>. QED
    BY <2>1, <2>2, <2>3
<1>4. ASSUME NEW r \in Registrations, InsertAccount(r) PROVE Fresh'
  <2>1. /\ UNCHANGED <<name, id, before, failed>> /\ accounts \subseteq accounts'
        /\ at[r] = "insert" /\ \A q \in Registrations \ {r} : at'[q] = at[q]
    BY <1>4 DEF InsertAccount
  <2>. QED
    BY <2>1
<1>5. CASE UNCHANGED accountsVars
  BY <1>5 DEF accountsVars
<1>. QED
  BY <1>1, <1>2, <1>3, <1>4, <1>5 DEF AccountsNext

\* A new id is above all stored ones, so its holders are all still running; from
\* the first insert of an id on, nobody joins its holders.
LEMMA SharedStep ==
  AccountsTypeOK /\ Stored /\ Workers' /\ Shared /\ [AccountsNext]_accountsVars => Shared'
<1>. SUFFICES ASSUME AccountsTypeOK, Stored, Workers', Shared, [AccountsNext]_accountsVars,
                     ~ failed', NEW v \in Nat
              PROVE  Cardinality(Holders(v)') <= NumWorkers
  BY DEF Shared
<1>0. /\ Holders(v) \in SUBSET Registrations /\ Running' \in SUBSET Registrations
      /\ Cardinality(Holders(v)) \in Nat /\ Cardinality(Running') \in Nat
  BY RegistrationsFinite DEF Holders, Running
<1>1. ASSUME ~ failed, Holders(v)' \in SUBSET Holders(v)
      PROVE  Cardinality(Holders(v)') <= NumWorkers
  <2>1. Cardinality(Holders(v)) <= NumWorkers
    BY <1>1 DEF Shared
  <2>2. Cardinality(Holders(v)') \in Nat
    BY <1>0, <1>1, RegistrationsFinite
  <2>. QED
    BY <1>0, <1>1, <2>1, <2>2, SubsetSmaller, AccountsAssumption
<1>. USE DEF AccountsTypeOK, Proceed
<1>2. ASSUME NEW r \in Registrations, CreateAccount(r) \/ GetAccount(r) \/ InsertAccount(r)
      PROVE  Cardinality(Holders(v)') <= NumWorkers
  <2>1. ~ failed /\ Holders(v)' \in SUBSET Holders(v)
    BY <1>2 DEF CreateAccount, GetAccount, InsertAccount, Holders
  <2>. QED
    BY <1>1, <2>1
<1>3. ASSUME NEW r \in Registrations, NewAccountId(r)
      PROVE  Cardinality(Holders(v)') <= NumWorkers
  <2>1. PICK n \in Nat :
          /\ id' = [id EXCEPT ![r] = n]
          /\ ~ failed' => ~ failed /\ \A a \in accounts : id[a] < n
    BY <1>3, NewIdIs
  <2>2. /\ accounts' = accounts /\ r \notin accounts
        /\ at[r] = "id" /\ at' = [at EXCEPT ![r] = "insert"]
    BY <1>3 DEF NewAccountId, Stored
  <2>3. CASE v # n
    <3>1. Holders(v)' \in SUBSET Holders(v)
      BY <2>1, <2>2, <2>3 DEF Holders
    <3>. QED
      BY <1>1, <2>1, <3>1
  <2>4. CASE v = n
    <3>1. \A a \in accounts : id'[a] # n
      BY <2>1, <2>2
    <3>2. Holders(v)' \in SUBSET Running'
      BY <2>2, <2>4, <3>1 DEF Holders, Running
    <3>3. Cardinality(Holders(v)') \in Nat /\ Cardinality(Holders(v)') <= Cardinality(Running')
      BY <1>0, <3>2, SubsetSmaller, RegistrationsFinite
    <3>. QED
      BY <1>0, <3>3, AccountsAssumption DEF Workers
  <2>. QED
    BY <2>3, <2>4
<1>4. CASE UNCHANGED accountsVars
  <2>1. ~ failed /\ Holders(v)' = Holders(v)
    BY <1>4 DEF accountsVars, Holders
  <2>. QED
    BY <1>1, <2>1
<1>. QED
  BY <1>2, <1>3, <1>4 DEF AccountsNext

LEMMA AccountsInvariant == AccountsSpec => []AccountsInv
<1>1. AccountsInv /\ [AccountsNext]_accountsVars => AccountsInv'
  BY AccountsTypeStep, StoredStep, WorkersStep, FreshStep, SharedStep DEF AccountsInv
<1>. QED
  BY <1>1, AccountsInvInit, PTL DEF AccountsSpec

\* Type correctness, with it that processCreateAccount reports only accounts
\* which are stored.
THEOREM AccountsTypeCorrect == AccountsSpec => []AccountsTypeOK
<1>1. AccountsInv => AccountsTypeOK
  BY DEF AccountsInv
<1>. QED
  BY <1>1, AccountsInvariant, PTL

\* Without a throwing query, processCreateAccount gives one that begins after
\* another was answered a higher id and a name that does not match.
THEOREM AccountsFresh == AccountsSpec => []FreshAfterReply
<1>1. AccountsInv => FreshAfterReply
  BY DEF AccountsInv, AccountsTypeOK, Stored, Fresh, FreshAfterReply
<1>. QED
  BY <1>1, AccountsInvariant, PTL

\* However many registrations there are, newAccountId gives the same id to no
\* more of them than there are workers.
THEOREM AccountsCollisions == AccountsSpec => []Collisions
<1>1. AccountsInv => Collisions
  <2>. SUFFICES ASSUME AccountsInv, ~ failed, NEW r \in accounts
                PROVE  Cardinality({q \in accounts : id[q] = id[r]}) <= NumWorkers
    BY DEF Collisions
  <2>1. id[r] \in Nat /\ {q \in accounts : id[q] = id[r]} \in SUBSET Holders(id[r])
    BY DEF AccountsInv, AccountsTypeOK, Holders
  <2>2. Holders(id[r]) \in SUBSET Registrations
    BY DEF Holders
  <2>3. /\ Cardinality(Holders(id[r])) \in Nat
        /\ Cardinality({q \in accounts : id[q] = id[r]}) \in Nat
        /\ Cardinality({q \in accounts : id[q] = id[r]}) <= Cardinality(Holders(id[r]))
    BY <2>1, <2>2, SubsetSmaller, RegistrationsFinite
  <2>4. Cardinality(Holders(id[r])) <= NumWorkers
    BY <2>1 DEF AccountsInv, Shared
  <2>. QED
    BY <2>3, <2>4, AccountsAssumption
<1>. QED
  BY <1>1, AccountsInvariant, PTL

\* With one worker the ids of stored accounts are unique, unless a query threw.
THEOREM AccountsUnique ==
  ASSUME NumWorkers = 1
  PROVE  AccountsSpec => [](~ failed => \A q, r \in accounts : id[q] = id[r] => q = r)
<1>1. AccountsInv => (~ failed => \A q, r \in accounts : id[q] = id[r] => q = r)
  <2>. SUFFICES ASSUME AccountsInv, ~ failed, NEW q \in accounts, NEW r \in accounts,
                       id[q] = id[r], q # r
                PROVE  FALSE
    OBVIOUS
  <2>1. id[r] \in Nat /\ {q, r} \in SUBSET Holders(id[r]) /\ Holders(id[r]) \in SUBSET Registrations
    BY DEF AccountsInv, AccountsTypeOK, Holders
  <2>2. Cardinality(Holders(id[r])) <= 1
    BY <2>1 DEF AccountsInv, Shared
  <2>3. /\ Cardinality(Holders(id[r])) \in Nat /\ Cardinality({q, r}) \in Nat
        /\ Cardinality({q, r}) <= Cardinality(Holders(id[r]))
    BY <2>1, SubsetSmaller, RegistrationsFinite
  <2>4. Cardinality({q} \cup {r}) = 2
    <3>1. IsFiniteSet({q}) /\ Cardinality({q}) = 1
      BY FS_Singleton
    <3>2. Cardinality({q} \cup {r}) = Cardinality({q}) + 1
      BY <3>1, FS_AddElement
    <3>. QED
      BY <3>1, <3>2
  <2>5. {q} \cup {r} = {q, r}
    OBVIOUS
  <2>. QED
    BY <2>2, <2>3, <2>4, <2>5
<1>. QED
  BY <1>1, AccountsInvariant, PTL
===========================================================================
