-------------------------- MODULE LockOrderProofs --------------------------
(* Proofs about LockOrder, for any threads, sessions and stream buffers. *)
EXTENDS LockOrder, SequenceTheorems, TLAPS

\* The order behind it all.
Rank(l) ==
  CASE l[1] \in {"contacts", "senders"} -> 1
    [] l[1] \in {"sessions", "sending", "queue"} -> 2
    [] l[1] \in {"buffers", "mutex", "status"} -> 3
    [] OTHER -> 4

\* Every thread takes its mutexes in ascending rank.
Ascending ==
  \A t \in Threads :
    /\ \A i, j \in 1 .. Len(held[t]) : i < j => Rank(held[t][i]) < Rank(held[t][j])
    /\ wanted[t] # None =>
         \A i \in 1 .. Len(held[t]) : Rank(held[t][i]) < Rank(wanted[t])

Types ==
  /\ held \in [Threads -> Seq(Locks)]
  /\ wanted \in [Threads -> Locks \cup {None}]

Exclusive ==
  \A t, u \in Threads : \A l \in Locks : Holds(t, l) /\ Holds(u, l) => t = u

\* The inductive invariant.
LockInv == Types /\ Exclusive /\ Ascending

LEMMA RankRange == \A l \in Locks : Rank(l) \in 1 .. 4
BY DEF Locks, Rank

\* The code's nesting goes up in rank.
LEMMA InsideAscends ==
  ASSUME NEW l \in Locks, NEW m \in Inside(l)
  PROVE  m \in Locks /\ Rank(l) < Rank(m)
<1>. USE DEF Locks, Rank, SendPacketLocks, BufferLocks
<1>1. CASE l[1] = "contacts"
  BY <1>1 DEF Inside, InsideContacts
<1>2. CASE l[1] = "senders"
  BY <1>2 DEF Inside, InsideSenders
<1>3. CASE l[1] = "sessions"
  BY <1>3 DEF Inside, InsideSessions
<1>4. CASE l[1] = "queue"
  BY <1>4 DEF Inside, InsideQueue
<1>5. CASE l[1] = "buffers"
  BY <1>5 DEF Inside, InsideBuffers
<1>6. CASE l[1] = "mutex"
  BY <1>6 DEF Inside, InsideMutex
<1>7. CASE l[1] \notin {"contacts", "senders", "sessions", "queue", "buffers", "mutex"}
  BY <1>7 DEF Inside
<1>. QED
  BY <1>1, <1>2, <1>3, <1>4, <1>5, <1>6, <1>7

LEMMA LockInit == Init => LockInv
BY LockAssumption DEF Init, LockInv, Types, Exclusive, Ascending, Holds

LEMMA RequestStep ==
  ASSUME LockInv, NEW t \in Threads, NEW l \in Locks, Request(t, l)
  PROVE  LockInv'
<1>. USE DEF LockInv, Types
<1>1. /\ wanted[t] = None /\ (held[t] # <<>> => l \in Inside(Top(t)))
      /\ wanted' = [wanted EXCEPT ![t] = l] /\ held' = held
  BY DEF Request
<1>2. Types' /\ Exclusive'
  BY <1>1, SMTT(30) DEF Exclusive, Holds
<1>3. ASSUME NEW i \in 1 .. Len(held[t]) PROVE Rank(held[t][i]) < Rank(l)
  <2>1. /\ Len(held[t]) \in Nat \ {0} /\ held[t] # <<>>
        /\ Top(t) \in Locks /\ held[t][i] \in Locks
    BY <1>3 DEF Top
  <2>2. Rank(Top(t)) < Rank(l)
    BY <1>1, <2>1, InsideAscends
  <2>3. i = Len(held[t]) \/ Rank(held[t][i]) < Rank(Top(t))
    BY <2>1 DEF Ascending, Top
  <2>4. Rank(held[t][i]) \in Nat /\ Rank(Top(t)) \in Nat /\ Rank(l) \in Nat
    BY <2>1, RankRange
  <2>. QED
    BY <2>2, <2>3, <2>4 DEF Top
<1>4. Ascending'
  BY <1>1, <1>3 DEF Ascending
<1>. QED
  BY <1>2, <1>4

LEMMA AcquireStep ==
  ASSUME LockInv, NEW t \in Threads, Acquire(t)
  PROVE  LockInv'
<1>. USE DEF LockInv, Types
<1>1. /\ wanted[t] \in Locks
      /\ held' = [held EXCEPT ![t] = Append(held[t], wanted[t])]
      /\ wanted' = [wanted EXCEPT ![t] = None]
      /\ \A u \in Threads : ~ Holds(u, wanted[t])
  BY DEF Acquire
<1>2. Types'
  BY <1>1
<1>3. /\ held'[t] \in Seq(Locks) /\ Len(held'[t]) = Len(held[t]) + 1 /\ Len(held[t]) \in Nat
      /\ held'[t][Len(held[t]) + 1] = wanted[t]
      /\ \A i \in 1 .. Len(held[t]) : held'[t][i] = held[t][i]
  BY <1>1, <1>2
<1>4. Exclusive'
  <2>1. ASSUME NEW u \in Threads, NEW l \in Locks
        PROVE  Holds(u, l)' <=> (Holds(u, l) \/ (u = t /\ l = wanted[t]))
    <3>1. CASE u = t
      BY <3>1, <1>3, SMTT(30) DEF Holds
    <3>2. CASE u # t
      BY <3>2, <1>1 DEF Holds
    <3>. QED
      BY <3>1, <3>2
  <2>. QED
    BY <2>1, <1>1 DEF Exclusive
<1>5. Ascending'
  <2>1. ASSUME NEW u \in Threads, u # t
        PROVE  held'[u] = held[u] /\ wanted'[u] = wanted[u]
    BY <1>1, <2>1
  <2>2. wanted'[t] = None
    BY <1>1
  <2>3. \A i, j \in 1 .. Len(held'[t]) : i < j => Rank(held'[t][i]) < Rank(held'[t][j])
    <3>. SUFFICES ASSUME NEW i \in 1 .. Len(held[t]) + 1, NEW j \in 1 .. Len(held[t]) + 1, i < j
                  PROVE  Rank(held'[t][i]) < Rank(held'[t][j])
      BY <1>3
    <3>1. CASE j = Len(held[t]) + 1
      <4>1. i \in 1 .. Len(held[t])
        BY <3>1, <1>3
      <4>2. Rank(held[t][i]) < Rank(wanted[t])
        BY <4>1, <1>1, LockAssumption DEF Ascending
      <4>. QED
        BY <4>1, <4>2, <3>1, <1>3
    <3>2. CASE j # Len(held[t]) + 1
      BY <3>2, <1>3 DEF Ascending
    <3>. QED
      BY <3>1, <3>2
  <2>4. ASSUME NEW u \in Threads
        PROVE  /\ \A i, j \in 1 .. Len(held'[u]) : i < j => Rank(held'[u][i]) < Rank(held'[u][j])
               /\ wanted'[u] # None =>
                    \A i \in 1 .. Len(held'[u]) : Rank(held'[u][i]) < Rank(wanted'[u])
    <3>1. CASE u = t
      BY <3>1, <2>2, <2>3
    <3>2. CASE u # t
      BY <3>2, <2>1 DEF Ascending
    <3>. QED
      BY <3>1, <3>2
  <2>. QED
    BY <2>4 DEF Ascending
<1>. QED
  BY <1>2, <1>4, <1>5

LEMMA AllButLast ==
  ASSUME NEW T, NEW q \in Seq(T), q # <<>>
  PROVE  LET r == SubSeq(q, 1, Len(q) - 1)
         IN  /\ r \in Seq(T) /\ Len(r) = Len(q) - 1
             /\ Len(q) \in Nat \ {0}
             /\ \A i \in 1 .. Len(q) - 1 : r[i] = q[i]
<1>1. Len(q) \in Nat \ {0}
  BY EmptySeq
<1>. DEFINE n == Len(q) - 1
<1>2. n \in Nat /\ n <= Len(q)
  BY <1>1
<1>3. \A i \in 1 .. n : q[i] \in T
  BY <1>1, ElementOfSeq
<1>. HIDE DEF n
<1>4. SubSeq(q, 1, n) \in Seq(T) /\ Len(SubSeq(q, 1, n)) = n
      /\ \A i \in 1 .. n : SubSeq(q, 1, n)[i] = q[i]
  BY <1>1, <1>2, <1>3, SubSeqProperties
<1>. QED
  BY <1>1, <1>4 DEF n

LEMMA ReleaseStep ==
  ASSUME LockInv, NEW t \in Threads, Release(t)
  PROVE  LockInv'
<1>. USE DEF LockInv, Types
<1>1. /\ wanted[t] = None /\ held[t] # <<>> /\ wanted' = wanted
      /\ held' = [held EXCEPT ![t] = SubSeq(held[t], 1, Len(held[t]) - 1)]
  BY DEF Release
<1>2. /\ held'[t] \in Seq(Locks) /\ Len(held'[t]) = Len(held[t]) - 1
      /\ Len(held[t]) \in Nat \ {0}
      /\ \A i \in 1 .. Len(held[t]) - 1 : held'[t][i] = held[t][i]
  <2>1. held[t] \in Seq(Locks) /\ held[t] # <<>>
    BY <1>1
  <2>2. held'[t] = SubSeq(held[t], 1, Len(held[t]) - 1)
    BY <1>1
  <2>. QED
    BY <2>1, <2>2, AllButLast
<1>3. Types'
  BY <1>1, <1>2
<1>4. \A u \in Threads : u # t => held'[u] = held[u]
  BY <1>1
<1>5. \A u \in Threads, l \in Locks : Holds(u, l)' => Holds(u, l)
  <2>. SUFFICES ASSUME NEW u \in Threads, NEW l \in Locks, Holds(u, l)' PROVE Holds(u, l)
    OBVIOUS
  <2>1. CASE u = t
    BY <2>1, <1>2 DEF Holds
  <2>2. CASE u # t
    BY <2>2, <1>4 DEF Holds
  <2>. QED
    BY <2>1, <2>2
<1>6. Exclusive'
  BY <1>5 DEF Exclusive
<1>7. ASSUME NEW u \in Threads
      PROVE  /\ \A i, j \in 1 .. Len(held'[u]) : i < j => Rank(held'[u][i]) < Rank(held'[u][j])
             /\ wanted'[u] # None =>
                  \A i \in 1 .. Len(held'[u]) : Rank(held'[u][i]) < Rank(wanted'[u])
  <2>1. CASE u = t
    BY <2>1, <1>1, <1>2 DEF Ascending
  <2>2. CASE u # t
    BY <2>2, <1>1, <1>4 DEF Ascending
  <2>. QED
    BY <2>1, <2>2
<1>8. Ascending'
  BY <1>7 DEF Ascending
<1>. QED
  BY <1>3, <1>6, <1>8

LEMMA LockStep == LockInv /\ [Next]_vars => LockInv'
<1>. SUFFICES ASSUME LockInv, [Next]_vars PROVE LockInv'
  OBVIOUS
<1>1. CASE UNCHANGED vars
  BY <1>1 DEF vars, LockInv, Types, Exclusive, Ascending, Holds
<1>2. CASE Next
  BY <1>2, RequestStep, AcquireStep, ReleaseStep DEF Next
<1>. QED
  BY <1>1, <1>2

\* A waiting thread's mutex is below what its holder waits for.
LEMMA WaitsUp ==
  ASSUME LockInv, NEW t \in Threads, NEW u \in Threads, WaitsFor(t, u), wanted[u] # None
  PROVE  Rank(wanted[t]) < Rank(wanted[u])
BY DEF LockInv, Types, Ascending, WaitsFor, Holds

LEMMA NoCircle == LockInv => NoCircularWait
<1>. SUFFICES ASSUME LockInv, NEW S \in SUBSET Threads, S # {},
                     \A t \in S : \E u \in S : WaitsFor(t, u)
              PROVE  FALSE
  BY DEF NoCircularWait
<1>1. \A t \in S : wanted[t] # None /\ wanted[t] \in Locks
  BY DEF WaitsFor, LockInv, Types
<1>. DEFINE R(t) == Rank(wanted[t])
<1>2. \A t \in S : R(t) \in 1 .. 4
  BY <1>1, RankRange
<1>3. \A t \in S : \E u \in S : R(t) < R(u)
  BY <1>1, WaitsUp
<1>. HIDE DEF R
<1>4. \E t \in S : R(t) >= 1
  BY <1>2
<1>5. \E t \in S : R(t) >= 2
  BY <1>2, <1>3, <1>4
<1>6. \E t \in S : R(t) >= 3
  BY <1>2, <1>3, <1>5
<1>7. \E t \in S : R(t) >= 4
  BY <1>2, <1>3, <1>6
<1>. QED
  BY <1>2, <1>3, <1>7

\* The variables have their types and no mutex has two holders.
THEOREM LockTypeCorrect == Spec => []TypeOK
<1>1. LockInv => TypeOK
  BY DEF LockInv, Types, Exclusive, TypeOK
<1>. QED
  BY <1>1, LockInit, LockStep, PTL DEF Spec

\* The nesting of the server's mutexes admits no deadlock, for any number of
\* workers, sessions and buffers.
THEOREM LockNoDeadlock == Spec => []NoCircularWait
<1>. QED
  BY LockInit, LockStep, NoCircle, PTL DEF Spec
=============================================================================
