----------------------------- MODULE LockOrder -----------------------------
(***************************************************************************)
(* Who waits for which mutex while holding which (all of src/src).  The    *)
(* code takes its mutexes with scoped locks, so a thread holds them as a   *)
(* stack; while the innermost one is l, it may go on to take one of        *)
(* Inside(l), which is read off the calls made in l's critical sections.   *)
(* boost::mutex is not recursive: a thread can also wait for itself.       *)
(***************************************************************************)
EXTENDS Naturals, Sequences, FiniteSets

CONSTANTS
  Threads, Sessions,
  Buffers,   \* stream buffers
  Server,    \* the owner of the mutexes that exist once
  None

Locks ==
  ({"contacts", "sending", "queue", "status"} \X Sessions)
    \cup ({"senders", "sessions", "buffers", "mutex", "connections"} \X {Server})
    \cup ({"file", "counter"} \X Buffers)

ASSUME LockAssumption == None \notin Locks

VARIABLES
  held,    \* the stack of mutexes of each thread, innermost last
  wanted   \* the mutex a thread is in lock() of, or None

vars == <<held, wanted>>

SendPacketLocks == {"sending", "queue"} \X Sessions
BufferLocks == {"file", "counter"} \X Buffers

\* m_contacts, held by broadcastStatus and by the status queries of processLogin
\* and processContactStatusRequest: getSessions, addUbjSender, which leads to
\* sendPacket of another session, and the end of a session whose last reference
\* was in the list of getSessions, with its files.
InsideContacts == {<<"sessions", Server>>} \cup SendPacketLocks \cup BufferLocks

\* m_senders, held by Server::onTimer: sendPacket of every listed session, and
\* the end of completed senders with their sessions and files.
InsideSenders == SendPacketLocks \cup BufferLocks

\* Mutant of InsideSessions: removeSessions' close() tells the contacts.
InsideSessionsTold ==
  ({"status", "contacts"} \X Sessions) \cup BufferLocks
    \cup {<<"buffers", Server>>, <<"mutex", Server>>, <<"connections", Server>>}

\* m_sessions: removeSessions closes sessions under it (status, and the files
\* of those it destroys), info() reads accounts and the number of buffers.
InsideSessions ==
  ({"status"} \X Sessions) \cup BufferLocks
    \cup {<<"buffers", Server>>, <<"mutex", Server>>, <<"connections", Server>>}

\* m_packetQueue, held while processStreamSenders makes packets: getStreamBuffer
\* and StreamBuffer::read.
InsideQueue == {<<"buffers", Server>>} \cup BufferLocks

\* m_buffers: onTimer reads m_lastActivity and destroys evicted buffers.
InsideBuffers == BufferLocks

\* DB::m_mutex: the second getConnection of acquire.
InsideMutex == {<<"connections", Server>>}

Inside(l) ==
  CASE l[1] = "contacts" -> InsideContacts
    [] l[1] = "senders" -> InsideSenders
    [] l[1] = "sessions" -> InsideSessions
    [] l[1] = "queue" -> InsideQueue
    [] l[1] = "buffers" -> InsideBuffers
    [] l[1] = "mutex" -> InsideMutex
    [] OTHER -> {}

Init ==
  /\ held = [t \in Threads |-> <<>>]
  /\ wanted = [t \in Threads |-> None]

Top(t) == held[t][Len(held[t])]

Holds(t, l) == \E i \in 1 .. Len(held[t]) : held[t][i] = l

\* A thread enters a critical section, at top level or inside another.
Request(t, l) ==
  /\ wanted[t] = None
  /\ held[t] # <<>> => l \in Inside(Top(t))
  /\ wanted' = [wanted EXCEPT ![t] = l]
  /\ UNCHANGED held

\* lock() returns.
Acquire(t) ==
  /\ wanted[t] # None
  /\ \A u \in Threads : ~ Holds(u, wanted[t])
  /\ held' = [held EXCEPT ![t] = Append(@, wanted[t])]
  /\ wanted' = [wanted EXCEPT ![t] = None]

\* The innermost critical section ends.
Release(t) ==
  /\ wanted[t] = None
  /\ held[t] # <<>>
  /\ held' = [held EXCEPT ![t] = SubSeq(@, 1, Len(@) - 1)]
  /\ UNCHANGED wanted

Next ==
  \E t \in Threads : (\E l \in Locks : Request(t, l)) \/ Acquire(t) \/ Release(t)

Spec == Init /\ [][Next]_vars
-----------------------------------------------------------------------------
\* Every variable has its type, and a mutex has one holder.
TypeOK ==
  /\ held \in [Threads -> Seq(Locks)]
  /\ wanted \in [Threads -> Locks \cup {None}]
  /\ \A t, u \in Threads : \A l \in Locks : Holds(t, l) /\ Holds(u, l) => t = u

\* t waits for something u has.
WaitsFor(t, u) == wanted[t] # None /\ Holds(u, wanted[t])

\* broadcastStatus holds m_contacts of its session while it takes m_sessions
\* and the send locks of others, onTimer m_senders, removeSessions m_sessions:
\* however these nest in different threads, no threads wait for each other in a
\* circle, and none for itself.
NoCircularWait ==
  \A S \in SUBSET Threads :
    S # {} => \E t \in S : \A u \in S : ~ WaitsFor(t, u)

=============================================================================
