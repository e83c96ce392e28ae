------------------------------ MODULE SendPath ------------------------------
(***************************************************************************)
(* The sending half of a ClientSession (src/src/session.cpp): postPacket,  *)
(* addStreamSender, sendPacket and onPacketSent, run by any of the         *)
(* io_service's workers, and the part of Server::onTimer that polls the    *)
(* senders of slow stream buffers.                                         *)
(*                                                                         *)
(* m_sending is read, released, and written two critical sections later,   *)
(* so every critical section is a step of its own here.                    *)
(***************************************************************************)
EXTENDS Naturals, Sequences, FiniteSets

CONSTANTS Workers, Packets, NoPacket

ASSUME SendAssumption == IsFiniteSet(Packets) /\ NoPacket \notin Packets

VARIABLES
  sending,   \* m_sending
  queue,     \* m_packetQueue, front first
  senders,   \* packets the engine's stream senders can produce now (external)
  awaited,   \* packets of stream buffers whose bytes are still being uploaded
  slow,      \* packets whose sender is in the server's m_senders list
  pc,        \* where each worker is
  pkt,       \* the packet a worker carries from the queue to async_write
  inflight,  \* async_writes that have not completed
  wire,      \* history: the packets in the order their async_write began
  entered,   \* history: the packets in the order they entered the queue
  raced      \* history: two workers were between reading and setting m_sending

vars == <<sending, queue, senders, awaited, slow, pc, pkt, inflight, wire, entered, raced>>

Ran(s) == {s[i] : i \in 1 .. Len(s)}

Init ==
  /\ sending = FALSE
  /\ queue = <<>>
  /\ senders = {} /\ awaited = {} /\ slow = {}
  /\ pc = [w \in Workers |-> "idle"]
  /\ pkt = [w \in Workers |-> NoPacket]
  /\ inflight = {}
  /\ wire = <<>>
  /\ entered = <<>>
  /\ raced = FALSE

Goto(w, l) == pc' = [pc EXCEPT ![w] = l]

\* A packet is a new object each time.
Fresh(p) == p \notin senders \cup awaited \cup Ran(entered)

\* postPacket: push under m_packetQueue, then call sendPacket.
PostPacket(w, p) ==
  /\ pc[w] = "idle" /\ Fresh(p)
  /\ queue' = Append(queue, p)
  /\ entered' = Append(entered, p)
  /\ Goto(w, "check")
  /\ UNCHANGED <<sending, senders, awaited, slow, pkt, inflight, wire, raced>>

\* addStreamSender, for a sender that has its bytes: responses, requests and
\* complete stream buffers.
AddStreamSender(w, p) ==
  /\ pc[w] = "idle" /\ Fresh(p)
  /\ senders' = senders \cup {p}
  /\ Goto(w, "check")
  /\ UNCHANGED <<sending, queue, awaited, slow, pkt, inflight, wire, entered, raced>>

\* addStreamSender for a StreamBufferSender whose upload is still running; the
\* caller also enters it in the server's m_senders.  That follows the sendPacket
\* in the code and is here at its start: until then, the timer may poll as well
\* as not.
AddSlowSender(w, p) ==
  /\ pc[w] = "idle" /\ Fresh(p)
  /\ awaited' = awaited \cup {p}
  /\ slow' = slow \cup {p}
  /\ Goto(w, "check")
  /\ UNCHANGED <<sending, queue, senders, pkt, inflight, wire, entered, raced>>

\* The bytes arrive through the uploader's own session, which does not call
\* sendPacket on this one.
Upload(p) ==
  /\ p \in awaited
  /\ awaited' = awaited \ {p}
  /\ senders' = senders \cup {p}
  /\ UNCHANGED <<sending, queue, slow, pc, pkt, inflight, wire, entered, raced>>

\* Mutant of OnTimer: the timer forgets the listed senders.
OnTimerForgets(w) == pc[w] = "never" /\ UNCHANGED vars

\* Server::onTimer, every two seconds: sendPacket for each listed sender that
\* has not completed.
OnTimer(w) ==
  /\ pc[w] = "idle"
  /\ slow \cap (awaited \cup senders) # {}
  /\ Goto(w, "check")
  /\ UNCHANGED <<sending, queue, senders, awaited, slow, pkt, inflight, wire, entered, raced>>

\* Two workers found m_sending false and neither has set it yet.
NoteRace(w) ==
  raced' = IF ~sending /\ \E u \in Workers \ {w} : pc[u] \in {"pop", "set"}
           THEN TRUE ELSE raced

\* Mutant of CheckSending: m_sending is not consulted.
CheckNothing(w) ==
  /\ pc[w] = "check"
  /\ Goto(w, "pop")
  /\ NoteRace(w)
  /\ UNCHANGED <<sending, queue, senders, awaited, slow, pkt, inflight, wire, entered>>

\* sendPacket: read m_sending under its lock, and release the lock.
CheckSending(w) ==
  /\ pc[w] = "check"
  /\ Goto(w, IF sending THEN "idle" ELSE "pop")
  /\ NoteRace(w)
  /\ UNCHANGED <<sending, queue, senders, awaited, slow, pkt, inflight, wire, entered>>

\* The non-empty sequences of distinct packets the engine may produce from its
\* senders in one processStreamSenders call (external).
Batches == UNION {{b \in [1 .. n -> senders] :
                     \A i, j \in 1 .. n : b[i] = b[j] => i = j} :
                   n \in 1 .. Cardinality(senders)}

\* Mutant of PopQueue: front() without pop().
PopNotRemoved(w) ==
  /\ pc[w] = "pop"
  /\ queue # <<>>
  /\ pkt' = [pkt EXCEPT ![w] = Head(queue)]
  /\ Goto(w, "set")
  /\ UNCHANGED <<sending, queue, senders, awaited, slow, inflight, wire, entered, raced>>

\* sendPacket: take the front of the queue.
PopQueue(w) ==
  /\ pc[w] = "pop"
  /\ queue # <<>>
  /\ pkt' = [pkt EXCEPT ![w] = Head(queue)]
  /\ queue' = Tail(queue)
  /\ Goto(w, "set")
  /\ UNCHANGED <<sending, senders, awaited, slow, inflight, wire, entered, raced>>

\* sendPacket: an empty queue is first filled by processStreamSenders.
PopSenders(w) ==
  /\ pc[w] = "pop"
  /\ queue = <<>>
  /\ \E b \in Batches :
       /\ pkt' = [pkt EXCEPT ![w] = Head(b)]
       /\ queue' = Tail(b)
       /\ entered' = entered \o b
       /\ senders' = senders \ Ran(b)
  /\ Goto(w, "set")
  /\ UNCHANGED <<sending, awaited, slow, inflight, wire, raced>>

\* sendPacket: nothing to send.
PopNothing(w) ==
  /\ pc[w] = "pop"
  /\ queue = <<>> /\ senders = {}
  /\ Goto(w, "idle")
  /\ UNCHANGED <<sending, queue, senders, awaited, slow, pkt, inflight, wire, entered, raced>>

\* sendPacket: m_sending = true, under its lock.
SetSending(w) ==
  /\ pc[w] = "set"
  /\ sending' = TRUE
  /\ Goto(w, "write")
  /\ UNCHANGED <<queue, senders, awaited, slow, pkt, inflight, wire, entered, raced>>

\* sendPacket: async_write.
AsyncWrite(w) ==
  /\ pc[w] = "write"
  /\ inflight' = inflight \cup {pkt[w]}
  /\ wire' = Append(wire, pkt[w])
  /\ pkt' = [pkt EXCEPT ![w] = NoPacket]
  /\ Goto(w, "idle")
  /\ UNCHANGED <<sending, queue, senders, awaited, slow, entered, raced>>

\* A write completes or fails; onPacketSent runs in an idle worker and does
\* the same in both cases.
OnPacketSent(w, p) ==
  /\ pc[w] = "idle"
  /\ p \in inflight
  /\ inflight' = inflight \ {p}
  /\ Goto(w, "clear")
  /\ UNCHANGED <<sending, queue, senders, awaited, slow, pkt, wire, entered, raced>>

\* Mutant of ClearSending: onPacketSent does not go on to the next packet.
ClearAndStop(w) ==
  /\ pc[w] = "clear"
  /\ sending' = FALSE
  /\ Goto(w, "idle")
  /\ UNCHANGED <<queue, senders, awaited, slow, pkt, inflight, wire, entered, raced>>

\* onPacketSent: m_sending = false, then sendPacket.
ClearSending(w) ==
  /\ pc[w] = "clear"
  /\ sending' = FALSE
  /\ Goto(w, "check")
  /\ UNCHANGED <<queue, senders, awaited, slow, pkt, inflight, wire, entered, raced>>

SendPacket(w) ==
  CheckSending(w) \/ PopQueue(w) \/ PopSenders(w) \/ PopNothing(w)
    \/ SetSending(w) \/ AsyncWrite(w)

Next ==
  \/ \E w \in Workers, p \in Packets :
       PostPacket(w, p) \/ AddStreamSender(w, p) \/ AddSlowSender(w, p) \/ OnPacketSent(w, p)
  \/ \E w \in Workers : OnTimer(w) \/ SendPacket(w) \/ ClearSending(w)
  \/ \E p \in Packets : Upload(p)

\* A worker finishes its handler, the operating system ends every write, and
\* the timer keeps firing.  Nothing makes a packet be posted or uploaded.
Fairness ==
  /\ \A w \in Workers : WF_vars(SendPacket(w) \/ ClearSending(w))
  /\ \A p \in Packets : SF_vars(\E w \in Workers : OnPacketSent(w, p))
  /\ SF_vars(\E w \in Workers : OnTimer(w))

Spec == Init /\ [][Next]_vars /\ Fairness
-----------------------------------------------------------------------------
\* Every variable has its type; a worker carries a packet exactly between the
\* queue and async_write.
TypeOK ==
  /\ sending \in BOOLEAN /\ raced \in BOOLEAN
  /\ queue \in Seq(Packets) /\ wire \in Seq(Packets) /\ entered \in Seq(Packets)
  /\ senders \subseteq Packets /\ awaited \subseteq Packets /\ slow \subseteq Packets
  /\ inflight \subseteq Packets
  /\ pc \in [Workers -> {"idle", "check", "pop", "set", "write", "clear"}]
  /\ pkt \in [Workers -> Packets \cup {NoPacket}]
  /\ \A w \in Workers : pkt[w] \in Packets <=> pc[w] \in {"set", "write"}

Carried == {pkt[w] : w \in {u \in Workers : pkt[u] # NoPacket}}
Busy == {w \in Workers : pc[w] # "idle"}

\* No packet is dropped or doubled between the queue and the socket, however
\* many workers are in sendPacket at once: each packet that entered the queue
\* is there, or carried by one worker, or was written once.
ExactlyOnce ==
  /\ Ran(entered) = Ran(queue) \cup Carried \cup Ran(wire)
  /\ Len(entered) = Len(queue) + Cardinality({w \in Workers : pkt[w] # NoPacket}) + Len(wire)
  /\ \A i, j \in 1 .. Len(entered) : entered[i] = entered[j] => i = j

\* There is no lost wake-up: while something can be sent and no worker is in
\* sendPacket or onPacketSent, a write is under way whose completion sends
\* the next packet.  Packets of slow stream buffers have the timer instead.
NoStall ==
  queue # <<>> \/ senders \ slow # {} => inflight # {} \/ Busy # {}

\* The unlocked gap between reading and setting m_sending is the only way to
\* two writes at once: until two workers have been in it together, there is
\* one async_write at a time on the TLS stream, and packets go out in the
\* order they were queued.
OneAtATime ==
  ~raced =>
    /\ Cardinality(inflight) <= 1
    /\ \A i \in 1 .. Len(wire) : wire[i] = entered[i]

-----------------------------------------------------------------------------
stage ==
  [p \in Packets |->
     IF p \in inflight THEN "inflight"
     ELSE IF p \in Ran(wire) THEN "done"
     ELSE IF p \in senders \cup Ran(entered) THEN "pending"
     ELSE IF p \in awaited THEN "awaited" ELSE "new"]

Channel == INSTANCE PacketChannel

\* SendPath implements PacketChannel, liveness included: a packet that was
\* posted or whose bytes have arrived is written to the socket, once, and its
\* write completes.
Delivers == Channel!Spec
=============================================================================
