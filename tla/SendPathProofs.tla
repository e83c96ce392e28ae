--------------------------- MODULE SendPathProofs ---------------------------
(***************************************************************************)
(* Proofs about SendPath, for any number of workers and packets: its       *)
(* types; that the sending half of a session never falls asleep with a     *)
(* packet in its hands, although m_sending is read and written in          *)
(* different critical sections; that it neither drops nor doubles one; and *)
(* that writes overlap only after two workers met between these sections.  *)
(***************************************************************************)
EXTENDS SendPath, FiniteSetTheorems, SequenceTheorems, TLAPS

\* m_sending is true only while somebody is bound to clear it: a write is
\* under way, or about to begin, or its handler is about to run.
Flag ==
  sending => inflight # {} \/ \E w \in Workers : pc[w] \in {"write", "clear"}

\* A packet that waits for its upload is on the timer's list.
Listed == awaited \subseteq slow

\* The inductive invariant.
Inv == TypeOK /\ Flag /\ Listed /\ NoStall

LEMMA BatchSeq == \A b \in Batches : b \in Seq(senders) /\ b # <<>>
<1>. SUFFICES ASSUME NEW b \in Batches PROVE b \in Seq(senders) /\ b # <<>>
  OBVIOUS
<1>1. PICK n \in 1 .. Cardinality(senders) : b \in [1 .. n -> senders]
  BY DEF Batches
<1>2. n \in Nat /\ n # 0
  OBVIOUS
<1>. QED
  BY <1>1, <1>2

LEMMA SendTypeStep == TypeOK /\ [Next]_vars => TypeOK'
<1>. SUFFICES ASSUME TypeOK, [Next]_vars PROVE TypeOK'
  OBVIOUS
<1>. USE SendAssumption DEF TypeOK, Goto
<1>1. ASSUME NEW w \in Workers, NEW p \in Packets, PostPacket(w, p) PROVE TypeOK'
  BY <1>1 DEF PostPacket
<1>2. ASSUME NEW w \in Workers, NEW p \in Packets, AddStreamSender(w, p) PROVE TypeOK'
  BY <1>2 DEF AddStreamSender
<1>3. ASSUME NEW w \in Workers, NEW p \in Packets, AddSlowSender(w, p) PROVE TypeOK'
  BY <1>3 DEF AddSlowSender
<1>4. ASSUME NEW w \in Workers, NEW p \in Packets, OnPacketSent(w, p) PROVE TypeOK'
  BY <1>4 DEF OnPacketSent
<1>5. ASSUME NEW w \in Workers, OnTimer(w) \/ CheckSending(w) \/ PopNothing(w) PROVE TypeOK'
  <2>1. raced' \in BOOLEAN
    BY <1>5 DEF OnTimer, CheckSending, NoteRace, PopNothing
  <2>. QED
    BY <1>5, <2>1 DEF OnTimer, CheckSending, PopNothing
<1>6. ASSUME NEW w \in Workers, PopQueue(w) PROVE TypeOK'
  BY <1>6 DEF PopQueue
<1>7. ASSUME NEW w \in Workers, PopSenders(w) PROVE TypeOK'
  <2>1. PICK b \in Batches : /\ pkt' = [pkt EXCEPT ![w] = Head(b)]
                             /\ queue' = Tail(b)
                             /\ entered' = entered \o b
                             /\ senders' = senders \ Ran(b)
    BY <1>7 DEF PopSenders
  <2>2. b \in Seq(Packets) /\ b # <<>>
    BY BatchSeq
  <2>3. Head(b) \in Packets /\ Tail(b) \in Seq(Packets) /\ entered \o b \in Seq(Packets)
    BY <2>2
  <2>4. pc' = [pc EXCEPT ![w] = "set"] /\ UNCHANGED <<sending, awaited, slow, inflight, wire, raced>>
    BY <1>7 DEF PopSenders
  <2>5. /\ pkt' \in [Workers -> Packets \cup {NoPacket}]
        /\ \A v \in Workers : pkt'[v] \in Packets <=> pc'[v] \in {"set", "write"}
    BY <2>1, <2>3, <2>4
  <2>. QED
    BY <2>1, <2>3, <2>4, <2>5
<1>8. ASSUME NEW w \in Workers, SetSending(w) \/ ClearSending(w) PROVE TypeOK'
  BY <1>8 DEF SetSending, ClearSending
<1>9. ASSUME NEW w \in Workers, AsyncWrite(w) PROVE TypeOK'
  BY <1>9 DEF AsyncWrite
<1>10. ASSUME NEW p \in Packets, Upload(p) PROVE TypeOK'
  BY <1>10 DEF Upload
<1>11. CASE UNCHANGED vars
  BY <1>11 DEF vars
<1>. QED
  BY <1>1, <1>2, <1>3, <1>4, <1>5, <1>6, <1>7, <1>8, <1>9, <1>10, <1>11 DEF Next, SendPacket

LEMMA FlagStep == TypeOK /\ Flag /\ [Next]_vars => Flag'
<1>. SUFFICES ASSUME TypeOK, Flag, [Next]_vars PROVE Flag'
  OBVIOUS
<1>. USE DEF TypeOK, Flag, Goto
<1>1. ASSUME NEW w \in Workers, NEW p \in Packets, OnPacketSent(w, p) PROVE Flag'
  BY <1>1 DEF OnPacketSent
<1>2. ASSUME NEW w \in Workers, SetSending(w) \/ ClearSending(w) \/ AsyncWrite(w) PROVE Flag'
  BY <1>2 DEF SetSending, ClearSending, AsyncWrite
<1>3. ASSUME NEW w \in Workers, NEW l, pc[w] \notin {"write", "clear"},
             pc' = [pc EXCEPT ![w] = l], UNCHANGED <<sending, inflight>>
      PROVE  Flag'
  BY <1>3
<1>4. ASSUME UNCHANGED <<sending, inflight, pc>> PROVE Flag'
  BY <1>4
<1>. QED
  BY <1>1, <1>2, <1>3, <1>4
     DEF Next, SendPacket, PostPacket, AddStreamSender, AddSlowSender, OnTimer, CheckSending,
         PopQueue, PopSenders, PopNothing, Upload, vars

LEMMA NoStallStep == Inv /\ [Next]_vars => NoStall'
<1>. SUFFICES ASSUME Inv, [Next]_vars PROVE NoStall'
  OBVIOUS
<1>. USE DEF Inv, TypeOK, NoStall, Busy, Goto
<1>1. ASSUME NEW w \in Workers, CheckSending(w) PROVE NoStall'
  BY <1>1 DEF CheckSending, Flag
<1>2. ASSUME NEW w \in Workers, PopNothing(w) \/ AsyncWrite(w) PROVE NoStall'
  BY <1>2 DEF PopNothing, AsyncWrite
<1>3. ASSUME NEW p \in Packets, Upload(p) PROVE NoStall'
  BY <1>3 DEF Upload, Listed
<1>4. ASSUME NEW w \in Workers, NEW l, l # "idle", pc' = [pc EXCEPT ![w] = l] PROVE NoStall'
  BY <1>4
<1>5. CASE UNCHANGED vars
  BY <1>5 DEF vars
<1>. QED
  BY <1>1, <1>2, <1>3, <1>4, <1>5
     DEF Next, SendPacket, PostPacket, AddStreamSender, AddSlowSender, OnPacketSent, OnTimer,
         PopQueue, PopSenders, SetSending, ClearSending

LEMMA SendInit == Init => Inv
<1>. SUFFICES ASSUME Init PROVE Inv
  OBVIOUS
<1>1. TypeOK
  <2>1. queue \in Seq(Packets) /\ wire \in Seq(Packets) /\ entered \in Seq(Packets)
    BY DEF Init
  <2>2. /\ pc \in [Workers -> {"idle", "check", "pop", "set", "write", "clear"}]
        /\ pkt \in [Workers -> Packets \cup {NoPacket}]
        /\ \A w \in Workers : pkt[w] \in Packets <=> pc[w] \in {"set", "write"}
    BY SendAssumption DEF Init
  <2>3. /\ sending \in BOOLEAN /\ raced \in BOOLEAN
        /\ senders = {} /\ awaited = {} /\ slow = {} /\ inflight = {}
    BY DEF Init
  <2>. QED
    BY <2>1, <2>2, <2>3 DEF TypeOK
<1>2. Flag /\ Listed /\ NoStall
  BY DEF Init, Flag, Listed, NoStall
<1>. QED
  BY <1>1, <1>2 DEF Inv

LEMMA SendInv == Spec => []Inv
<1>1. Inv /\ [Next]_vars => Inv'
  <2>1. Listed /\ [Next]_vars => Listed'
    BY DEF Listed, Next, SendPacket, PostPacket, AddStreamSender, AddSlowSender, OnPacketSent,
           OnTimer, CheckSending, PopQueue, PopSenders, PopNothing, SetSending, AsyncWrite,
           ClearSending, Upload, vars
  <2>. QED
    BY <2>1, SendTypeStep, FlagStep, NoStallStep DEF Inv
<1>. QED
  BY <1>1, SendInit, PTL DEF Spec

\* Every variable of the sending half keeps its type, and a worker carries a
\* packet exactly between the queue and async_write.
THEOREM SendTypeCorrect == Spec => []TypeOK
<1>1. Inv => TypeOK
  BY DEF Inv
<1>. QED
  BY <1>1, SendInv, PTL

\* sendPacket and onPacketSent lose no wake-up, whatever the workers do.
THEOREM SendNeverStalls == Spec => []NoStall
<1>1. Inv => NoStall
  BY DEF Inv
<1>. QED
  BY <1>1, SendInv, PTL
-----------------------------------------------------------------------------
Distinct(s) == \A i, j \in 1 .. Len(s) : s[i] = s[j] => i = j

LEMMA RanAppend ==
  ASSUME NEW S, NEW s \in Seq(S), NEW e \in S
  PROVE  Ran(Append(s, e)) = Ran(s) \cup {e}
<1>1. /\ Len(Append(s, e)) = Len(s) + 1 /\ Len(s) \in Nat
      /\ \A i \in 1 .. Len(s) : Append(s, e)[i] = s[i]
      /\ Append(s, e)[Len(s) + 1] = e
  BY AppendProperties, LenProperties
<1>2. 1 .. Len(s) + 1 = (1 .. Len(s)) \cup {Len(s) + 1}
  BY <1>1
<1>. QED
  BY <1>1, <1>2 DEF Ran

LEMMA RanTail ==
  ASSUME NEW S, NEW s \in Seq(S), s # <<>>
  PROVE  /\ Ran(s) = {Head(s)} \cup Ran(Tail(s))
         /\ Distinct(s) => Head(s) \notin Ran(Tail(s)) /\ Distinct(Tail(s))
<1>1. /\ Len(Tail(s)) = Len(s) - 1 /\ Len(s) \in Nat \ {0}
      /\ \A i \in 1 .. Len(Tail(s)) : Tail(s)[i] = s[i + 1]
      /\ Head(s) = s[1]
  BY HeadTailProperties, LenProperties, EmptySeq
<1>2. \A x : x \in Ran(s) <=> x \in {Head(s)} \cup Ran(Tail(s))
  <2>1. ASSUME NEW i \in 1 .. Len(s) PROVE s[i] \in {Head(s)} \cup Ran(Tail(s))
    <3>1. CASE i = 1
      BY <3>1, <1>1
    <3>2. CASE i # 1
      <4>1. i - 1 \in 1 .. Len(Tail(s)) /\ Tail(s)[i - 1] = s[i]
        BY <1>1, <3>2
      <4>. QED
        BY <4>1 DEF Ran
    <3>. QED
      BY <3>1, <3>2
  <2>2. ASSUME NEW i \in 1 .. Len(Tail(s)) PROVE Tail(s)[i] \in Ran(s)
    <3>1. i + 1 \in 1 .. Len(s) /\ Tail(s)[i] = s[i + 1]
      BY <1>1
    <3>. QED
      BY <3>1 DEF Ran
  <2>3. Head(s) \in Ran(s)
    BY <1>1 DEF Ran
  <2>. QED
    BY <2>1, <2>2, <2>3 DEF Ran
<1>3. ASSUME Distinct(s) PROVE Head(s) \notin Ran(Tail(s)) /\ Distinct(Tail(s))
  BY <1>1, <1>3 DEF Distinct, Ran
<1>. QED
  BY <1>2, <1>3

LEMMA RanConcat ==
  ASSUME NEW S, NEW s \in Seq(S), NEW t \in Seq(S)
  PROVE  Ran(s \o t) = Ran(s) \cup Ran(t)
<1>1. /\ Len(s \o t) = Len(s) + Len(t) /\ Len(s) \in Nat /\ Len(t) \in Nat
      /\ \A i \in 1 .. Len(s) + Len(t) :
           (s \o t)[i] = IF i <= Len(s) THEN s[i] ELSE t[i - Len(s)]
  BY ConcatProperties, LenProperties
<1>2. ASSUME NEW i \in 1 .. Len(s \o t) PROVE (s \o t)[i] \in Ran(s) \cup Ran(t)
  <2>1. CASE i <= Len(s)
    BY <1>1, <2>1 DEF Ran
  <2>2. CASE i > Len(s)
    <3>1. i - Len(s) \in 1 .. Len(t) /\ (s \o t)[i] = t[i - Len(s)]
      BY <1>1, <2>2
    <3>. QED
      BY <3>1 DEF Ran
  <2>. QED
    BY <1>1, <2>1, <2>2
<1>3. ASSUME NEW i \in 1 .. Len(s) PROVE s[i] \in Ran(s \o t)
  <2>1. i \in 1 .. Len(s \o t) /\ (s \o t)[i] = s[i]
    BY <1>1
  <2>. QED
    BY <2>1 DEF Ran
<1>4. ASSUME NEW i \in 1 .. Len(t) PROVE t[i] \in Ran(s \o t)
  <2>1. Len(s) + i \in 1 .. Len(s \o t) /\ (s \o t)[Len(s) + i] = t[i]
    BY <1>1
  <2>. QED
    BY <2>1 DEF Ran
<1>. QED
  BY <1>2, <1>3, <1>4 DEF Ran

LEMMA DistinctConcat ==
  ASSUME NEW S, NEW s \in Seq(S), NEW t \in Seq(S), Distinct(s), Distinct(t),
         Ran(s) \cap Ran(t) = {}
  PROVE  Distinct(s \o t)
<1>1. /\ Len(s \o t) = Len(s) + Len(t) /\ Len(s) \in Nat /\ Len(t) \in Nat
      /\ \A i \in 1 .. Len(s) + Len(t) :
           (s \o t)[i] = IF i <= Len(s) THEN s[i] ELSE t[i - Len(s)]
  BY ConcatProperties, LenProperties
<1>2. ASSUME NEW i \in 1 .. Len(s), NEW j \in 1 .. Len(t) PROVE s[i] # t[j]
  BY DEF Ran
<1>. SUFFICES ASSUME NEW i \in 1 .. Len(s \o t), NEW j \in 1 .. Len(s \o t),
                     (s \o t)[i] = (s \o t)[j]
              PROVE  i = j
  BY DEF Distinct
<1>3. CASE i <= Len(s) /\ j <= Len(s)
  BY <1>1, <1>3 DEF Distinct
<1>4. CASE i > Len(s) /\ j > Len(s)
  <2>1. i - Len(s) \in 1 .. Len(t) /\ j - Len(s) \in 1 .. Len(t)
    BY <1>1, <1>4
  <2>2. t[i - Len(s)] = t[j - Len(s)]
    BY <1>1, <1>4
  <2>3. i - Len(s) = j - Len(s)
    BY <2>1, <2>2 DEF Distinct
  <2>. QED
    BY <1>1, <2>3
<1>5. CASE i <= Len(s) /\ j > Len(s)
  <2>1. i \in 1 .. Len(s) /\ j - Len(s) \in 1 .. Len(t) /\ s[i] = t[j - Len(s)]
    BY <1>1, <1>5
  <2>. QED
    BY <2>1, <1>2
<1>6. CASE i > Len(s) /\ j <= Len(s)
  <2>1. j \in 1 .. Len(s) /\ i - Len(s) \in 1 .. Len(t) /\ s[j] = t[i - Len(s)]
    BY <1>1, <1>6
  <2>. QED
    BY <2>1, <1>2
<1>. QED
  BY <1>1, <1>3, <1>4, <1>5, <1>6

LEMMA DistinctAppend ==
  ASSUME NEW S, NEW s \in Seq(S), NEW e \in S, Distinct(s), e \notin Ran(s)
  PROVE  Distinct(Append(s, e))
<1>1. /\ Len(Append(s, e)) = Len(s) + 1 /\ Len(s) \in Nat
      /\ \A i \in 1 .. Len(s) : Append(s, e)[i] = s[i]
      /\ Append(s, e)[Len(s) + 1] = e
  BY AppendProperties, LenProperties
<1>2. \A i \in 1 .. Len(s) : s[i] # e
  BY DEF Ran
<1>3. \A i \in 1 .. Len(s) + 1 : i \in 1 .. Len(s) \/ i = Len(s) + 1
  BY <1>1
<1>. QED
  BY <1>1, <1>2, <1>3 DEF Distinct

-----------------------------------------------------------------------------
Carriers == {w \in Workers : pkt[w] # NoPacket}

\* What the engine can still produce has not been in the queue.
Apart ==
  /\ senders \cap awaited = {}
  /\ (senders \cup awaited) \cap Ran(entered) = {}

\* Queue, workers and wire share no packet.
Places ==
  /\ inflight \subseteq Ran(wire)
  /\ Distinct(queue) /\ Distinct(entered)
  /\ Ran(queue) \cap Ran(wire) = {}
  /\ \A w \in Carriers : pkt[w] \notin Ran(queue) \cup Ran(wire)
  /\ \A v, w \in Carriers : pkt[v] = pkt[w] => v = w

\* Nothing is missing and nothing is counted twice.
Counted ==
  /\ Ran(entered) = Ran(queue) \cup Carried \cup Ran(wire)
  /\ IsFiniteSet(Carriers)
  /\ Len(entered) = Len(queue) + Cardinality(Carriers) + Len(wire)

Sending == {w \in Workers : pc[w] \in {"pop", "set", "write", "clear"}}

\* Before the race there is one packet under way, in the hands of a worker or
\* of the operating system, and m_sending is true from SetSending on.
Single ==
  ~raced =>
    /\ \A v, w \in Sending : v = w
    /\ Sending # {} => inflight = {}
    /\ \A p, q \in inflight : p = q
    /\ \A w \in Sending : sending <=> pc[w] \in {"write", "clear"}
    /\ inflight # {} => sending

\* Before the race the wire, the packet under way and the queue are, in this
\* order, what entered.
InOrder ==
  ~raced =>
    /\ Carriers = {} => entered = wire \o queue
    /\ \A w \in Carriers : entered = Append(wire, pkt[w]) \o queue

OnceInv == TypeOK /\ Apart /\ Places /\ Counted /\ Single /\ InOrder

LEMMA BatchFacts ==
  ASSUME TypeOK, NEW b \in Batches
  PROVE  /\ b \in Seq(Packets) /\ b # <<>> /\ Distinct(b) /\ Ran(b) \subseteq senders
         /\ Head(b) \in Packets /\ Tail(b) \in Seq(Packets)
<1>1. b \in Seq(senders) /\ b # <<>>
  BY BatchSeq
<1>2. PICK n \in 1 .. Cardinality(senders) :
        b \in [1 .. n -> senders] /\ \A i, j \in 1 .. n : b[i] = b[j] => i = j
  BY DEF Batches
<1>3. Len(b) = n
  <2>1. DOMAIN b = 1 .. n /\ DOMAIN b = 1 .. Len(b) /\ Len(b) \in Nat /\ n \in Nat
    BY <1>1, <1>2, LenProperties
  <2>. QED
    BY <2>1
<1>4. Distinct(b)
  BY <1>2, <1>3 DEF Distinct
<1>5. Ran(b) \subseteq senders
  BY <1>2, <1>3 DEF Ran
<1>6. b \in Seq(Packets)
  BY <1>1, SeqMonotonic DEF TypeOK
<1>. QED
  BY <1>1, <1>4, <1>5, <1>6, HeadTailProperties

LEMMA ApartStep == TypeOK /\ Apart /\ [Next]_vars => Apart'
<1>. SUFFICES ASSUME TypeOK, Apart, [Next]_vars PROVE Apart'
  OBVIOUS
<1>. USE DEF Apart
<1>1. ASSUME NEW w \in Workers, NEW p \in Packets, PostPacket(w, p) PROVE Apart'
  <2>1. Ran(entered') = Ran(entered) \cup {p}
    BY <1>1, RanAppend DEF PostPacket, TypeOK
  <2>. QED
    BY <1>1, <2>1 DEF PostPacket, Fresh
<1>2. ASSUME NEW w \in Workers, NEW p \in Packets, AddStreamSender(w, p) \/ AddSlowSender(w, p)
      PROVE  Apart'
  BY <1>2 DEF AddStreamSender, AddSlowSender, Fresh
<1>3. ASSUME NEW w \in Workers, PopSenders(w) PROVE Apart'
  <2>1. PICK b \in Batches : entered' = entered \o b /\ senders' = senders \ Ran(b)
    BY <1>3 DEF PopSenders
  <2>2. b \in Seq(Packets) /\ Ran(b) \subseteq senders
    BY BatchFacts
  <2>3. Ran(entered') = Ran(entered) \cup Ran(b)
    BY <2>1, <2>2, RanConcat DEF TypeOK
  <2>. QED
    BY <1>3, <2>1, <2>2, <2>3 DEF PopSenders
<1>4. ASSUME NEW p \in Packets, Upload(p) PROVE Apart'
  BY <1>4 DEF Upload
<1>5. ASSUME UNCHANGED <<senders, awaited, entered>> PROVE Apart'
  BY <1>5
<1>. QED
  BY <1>1, <1>2, <1>3, <1>4, <1>5
     DEF Next, SendPacket, OnPacketSent, OnTimer, CheckSending, PopQueue, PopNothing,
         SetSending, AsyncWrite, ClearSending, vars

\* What carriers are after a step that gives w a packet or takes it.
LEMMA CarriersStep ==
  ASSUME TypeOK, NEW w \in Workers
  PROVE  /\ pc[w] = "pop" => w \notin Carriers
         /\ pc[w] = "write" => w \in Carriers /\ pkt[w] \in Packets
         /\ \A p \in Packets :
              pkt' = [pkt EXCEPT ![w] = p] => Carriers' = Carriers \cup {w}
         /\ pkt' = [pkt EXCEPT ![w] = NoPacket] => Carriers' = Carriers \ {w}
<1>. USE SendAssumption DEF TypeOK, Carriers
<1>1. pc[w] = "pop" => w \notin Carriers
  OBVIOUS
<1>2. pc[w] = "write" => w \in Carriers /\ pkt[w] \in Packets
  OBVIOUS
<1>3. ASSUME NEW p \in Packets, pkt' = [pkt EXCEPT ![w] = p] PROVE Carriers' = Carriers \cup {w}
  BY <1>3
<1>4. ASSUME pkt' = [pkt EXCEPT ![w] = NoPacket] PROVE Carriers' = Carriers \ {w}
  BY <1>4
<1>. QED
  BY <1>1, <1>2, <1>3, <1>4

LEMMA PlacesStep == TypeOK /\ Apart /\ Places /\ Counted /\ [Next]_vars => Places'
<1>. SUFFICES ASSUME TypeOK, Apart, Places, Counted, [Next]_vars PROVE Places'
  OBVIOUS
<1>0. /\ queue \in Seq(Packets) /\ wire \in Seq(Packets) /\ entered \in Seq(Packets)
      /\ Ran(queue) \subseteq Ran(entered) /\ Ran(wire) \subseteq Ran(entered)
      /\ \A w \in Carriers : pkt[w] \in Ran(entered)
  BY DEF TypeOK, Counted, Carried, Carriers
<1>1. ASSUME NEW w \in Workers, NEW p \in Packets, PostPacket(w, p) PROVE Places'
  <2>1. /\ queue' = Append(queue, p) /\ entered' = Append(entered, p)
        /\ UNCHANGED <<pkt, inflight, wire>>
        /\ p \notin Ran(entered)
    BY <1>1 DEF PostPacket, Fresh
  <2>2. Ran(queue') = Ran(queue) \cup {p}
    BY <1>0, <2>1, RanAppend
  <2>3. Distinct(queue') /\ Distinct(entered')
    BY <1>0, <2>1, DistinctAppend DEF Places
  <2>. QED
    BY <1>0, <2>1, <2>2, <2>3 DEF Places, Carriers
<1>2. ASSUME NEW w \in Workers, PopQueue(w) PROVE Places'
  <2>1. /\ queue # <<>> /\ queue' = Tail(queue) /\ pkt' = [pkt EXCEPT ![w] = Head(queue)]
        /\ UNCHANGED <<inflight, wire, entered>>
    BY <1>2 DEF PopQueue
  <2>2. /\ Ran(queue) = {Head(queue)} \cup Ran(queue')
        /\ Head(queue) \notin Ran(queue') /\ Distinct(queue') /\ Head(queue) \in Packets
    BY <1>0, <2>1, RanTail, HeadTailProperties DEF Places
  <2>3. Carriers' = Carriers \cup {w} /\ w \notin Carriers
    BY <1>2, <2>1, <2>2, CarriersStep DEF PopQueue
  <2>4. pkt'[w] = Head(queue) /\ \A v \in Carriers : pkt'[v] = pkt[v]
    BY <2>1, <2>3 DEF TypeOK
  <2>. QED
    BY <2>1, <2>2, <2>3, <2>4 DEF Places
<1>3. ASSUME NEW w \in Workers, PopSenders(w) PROVE Places'
  <2>1. PICK b \in Batches : /\ pkt' = [pkt EXCEPT ![w] = Head(b)]
                             /\ queue' = Tail(b)
                             /\ entered' = entered \o b
    BY <1>3 DEF PopSenders
  <2>2. /\ b \in Seq(Packets) /\ b # <<>> /\ Distinct(b) /\ Ran(b) \subseteq senders
        /\ Head(b) \in Packets
    BY BatchFacts
  <2>3. /\ Ran(b) = {Head(b)} \cup Ran(queue')
        /\ Head(b) \notin Ran(queue') /\ Distinct(queue')
    BY <2>1, <2>2, RanTail
  <2>4. Ran(b) \cap Ran(entered) = {}
    BY <2>2 DEF Apart
  <2>5. Distinct(entered')
    BY <1>0, <2>1, <2>2, <2>4, DistinctConcat DEF Places
  <2>6. Carriers' = Carriers \cup {w} /\ w \notin Carriers
    BY <1>3, <2>1, <2>2, CarriersStep DEF PopSenders
  <2>7. pkt'[w] = Head(b) /\ \A v \in Carriers : pkt'[v] = pkt[v]
    BY <2>1, <2>6 DEF TypeOK
  <2>8. UNCHANGED <<inflight, wire>>
    BY <1>3 DEF PopSenders
  <2>. QED
    BY <1>0, <2>3, <2>4, <2>5, <2>6, <2>7, <2>8 DEF Places
<1>4. ASSUME NEW w \in Workers, AsyncWrite(w) PROVE Places'
  <2>1. /\ inflight' = inflight \cup {pkt[w]} /\ wire' = Append(wire, pkt[w])
        /\ pkt' = [pkt EXCEPT ![w] = NoPacket] /\ UNCHANGED <<queue, entered>>
    BY <1>4 DEF AsyncWrite
  <2>2. w \in Carriers /\ pkt[w] \in Packets /\ Carriers' = Carriers \ {w}
    BY <1>4, <2>1, CarriersStep DEF AsyncWrite
  <2>3. Ran(wire') = Ran(wire) \cup {pkt[w]}
    BY <1>0, <2>1, <2>2, RanAppend
  <2>4. \A v \in Carriers' : pkt'[v] = pkt[v]
    BY <2>1, <2>2 DEF TypeOK, Carriers
  <2>. QED
    BY <2>1, <2>2, <2>3, <2>4 DEF Places
<1>5. ASSUME UNCHANGED <<queue, entered, wire, pkt>>, inflight' \subseteq inflight PROVE Places'
  BY <1>5 DEF Places, Carriers
<1>. QED
  BY <1>1, <1>2, <1>3, <1>4, <1>5
     DEF Next, SendPacket, AddStreamSender, AddSlowSender, OnPacketSent, OnTimer,
         CheckSending, PopNothing, SetSending, ClearSending, Upload, vars

LEMMA CountedStep == TypeOK /\ Places /\ Counted /\ [Next]_vars => Counted'
<1>. SUFFICES ASSUME TypeOK, Places, Counted, [Next]_vars PROVE Counted'
  OBVIOUS
<1>0. /\ queue \in Seq(Packets) /\ wire \in Seq(Packets) /\ entered \in Seq(Packets)
      /\ Len(queue) \in Nat /\ Len(wire) \in Nat /\ Len(entered) \in Nat
      /\ IsFiniteSet(Carriers) /\ Cardinality(Carriers) \in Nat
  BY LenProperties, FS_CardinalityType DEF TypeOK, Counted
<1>a. Carried = {pkt[w] : w \in Carriers} /\ Carried' = {pkt'[w] : w \in Carriers'}
  BY DEF Carried, Carriers
<1>1. ASSUME NEW w \in Workers, NEW p \in Packets, PostPacket(w, p) PROVE Counted'
  <2>1. queue' = Append(queue, p) /\ entered' = Append(entered, p) /\ UNCHANGED <<pkt, wire>>
    BY <1>1 DEF PostPacket
  <2>2. /\ Ran(queue') = Ran(queue) \cup {p} /\ Ran(entered') = Ran(entered) \cup {p}
        /\ Len(queue') = Len(queue) + 1 /\ Len(entered') = Len(entered) + 1
    BY <1>0, <2>1, RanAppend, AppendProperties
  <2>3. Carriers' = Carriers /\ Carried' = Carried
    BY <2>1 DEF Carriers, Carried
  <2>. QED
    BY <1>0, <2>1, <2>2, <2>3 DEF Counted
<1>2. ASSUME NEW w \in Workers, PopQueue(w) PROVE Counted'
  <2>1. /\ queue # <<>> /\ queue' = Tail(queue) /\ pkt' = [pkt EXCEPT ![w] = Head(queue)]
        /\ UNCHANGED <<wire, entered>>
    BY <1>2 DEF PopQueue
  <2>2. /\ Ran(queue) = {Head(queue)} \cup Ran(queue') /\ Head(queue) \in Packets
        /\ Len(queue') = Len(queue) - 1
    BY <1>0, <2>1, RanTail, HeadTailProperties
  <2>3. Carriers' = Carriers \cup {w} /\ w \notin Carriers
    BY <1>2, <2>1, <2>2, CarriersStep DEF PopQueue
  <2>4. pkt'[w] = Head(queue) /\ \A v \in Carriers : pkt'[v] = pkt[v]
    BY <2>1, <2>3 DEF TypeOK
  <2>5. Carried' = Carried \cup {Head(queue)}
    BY <1>a, <2>3, <2>4
  <2>6. IsFiniteSet(Carriers') /\ Cardinality(Carriers') = Cardinality(Carriers) + 1
    BY <1>0, <2>3, FS_AddElement
  <2>7. Ran(entered') = Ran(queue') \cup Carried' \cup Ran(wire')
    BY <2>1, <2>2, <2>5 DEF Counted
  <2>8. Len(entered') = Len(queue') + Cardinality(Carriers') + Len(wire')
    BY <1>0, <2>1, <2>2, <2>6 DEF Counted
  <2>. QED
    BY <2>6, <2>7, <2>8 DEF Counted
<1>3. ASSUME NEW w \in Workers, PopSenders(w) PROVE Counted'
  <2>1. PICK b \in Batches : /\ pkt' = [pkt EXCEPT ![w] = Head(b)]
                             /\ queue' = Tail(b)
                             /\ entered' = entered \o b
    BY <1>3 DEF PopSenders
  <2>2. b \in Seq(Packets) /\ b # <<>> /\ Head(b) \in Packets
    BY BatchFacts
  <2>3. /\ Ran(b) = {Head(b)} \cup Ran(queue') /\ Ran(entered') = Ran(entered) \cup Ran(b)
        /\ Len(queue') = Len(b) - 1 /\ Len(entered') = Len(entered) + Len(b) /\ Len(b) \in Nat
    BY <1>0, <2>1, <2>2, RanTail, RanConcat, HeadTailProperties, ConcatProperties, LenProperties
  <2>4. Carriers' = Carriers \cup {w} /\ w \notin Carriers
    BY <1>3, <2>1, <2>2, CarriersStep DEF PopSenders
  <2>5. pkt'[w] = Head(b) /\ \A v \in Carriers : pkt'[v] = pkt[v]
    BY <2>1, <2>4 DEF TypeOK
  <2>6. Carried' = Carried \cup {Head(b)}
    BY <1>a, <2>4, <2>5
  <2>7. IsFiniteSet(Carriers') /\ Cardinality(Carriers') = Cardinality(Carriers) + 1
    BY <1>0, <2>4, FS_AddElement
  <2>8. queue = <<>> /\ wire' = wire
    BY <1>3 DEF PopSenders
  <2>9. Ran(queue) = {} /\ Len(queue) = 0
    BY <2>8 DEF Ran
  <2>10. Ran(entered') = Ran(queue') \cup Carried' \cup Ran(wire')
    BY <2>3, <2>6, <2>8, <2>9 DEF Counted
  <2>11. Len(entered') = Len(queue') + Cardinality(Carriers') + Len(wire')
    BY <1>0, <2>3, <2>7, <2>8, <2>9 DEF Counted
  <2>. QED
    BY <2>7, <2>10, <2>11 DEF Counted
<1>4. ASSUME NEW w \in Workers, AsyncWrite(w) PROVE Counted'
  <2>1. /\ wire' = Append(wire, pkt[w])
        /\ pkt' = [pkt EXCEPT ![w] = NoPacket] /\ UNCHANGED <<queue, entered>>
    BY <1>4 DEF AsyncWrite
  <2>2. w \in Carriers /\ pkt[w] \in Packets /\ Carriers' = Carriers \ {w}
    BY <1>4, <2>1, CarriersStep DEF AsyncWrite
  <2>3. Ran(wire') = Ran(wire) \cup {pkt[w]} /\ Len(wire') = Len(wire) + 1
    BY <1>0, <2>1, <2>2, RanAppend, AppendProperties
  <2>4. \A v \in Carriers' : pkt'[v] = pkt[v]
    BY <2>1, <2>2 DEF TypeOK, Carriers
  <2>5. Carried = Carried' \cup {pkt[w]}
    BY <1>a, <2>2, <2>4
  <2>6. IsFiniteSet(Carriers') /\ Cardinality(Carriers') = Cardinality(Carriers) - 1
    BY <1>0, <2>2, FS_RemoveElement
  <2>7. Ran(entered') = Ran(queue') \cup Carried' \cup Ran(wire')
    BY <2>1, <2>3, <2>5 DEF Counted
  <2>8. Len(entered') = Len(queue') + Cardinality(Carriers') + Len(wire')
    BY <1>0, <2>1, <2>3, <2>6 DEF Counted
  <2>. QED
    BY <2>6, <2>7, <2>8 DEF Counted
<1>5. ASSUME UNCHANGED <<queue, entered, wire, pkt>> PROVE Counted'
  BY <1>5 DEF Counted, Carriers, Carried
<1>. QED
  BY <1>1, <1>2, <1>3, <1>4, <1>5
     DEF Next, SendPacket, AddStreamSender, AddSlowSender, OnPacketSent, OnTimer,
         CheckSending, PopNothing, SetSending, ClearSending, Upload, vars

LEMMA SingleStep == TypeOK /\ Single /\ [Next]_vars => Single'
<1>. SUFFICES ASSUME TypeOK, Single, [Next]_vars, ~raced' PROVE Single'
  BY DEF Single
<1>0. ~raced
  BY DEF Next, SendPacket, PostPacket, AddStreamSender, AddSlowSender, OnPacketSent, OnTimer,
         CheckSending, NoteRace, PopQueue, PopSenders, PopNothing, SetSending, AsyncWrite,
         ClearSending, Upload, vars
<1>. USE <1>0 DEF TypeOK, Single, Sending, Goto
<1>1. ASSUME NEW w \in Workers, CheckSending(w) PROVE Single'
  <2>1. ~sending => \A u \in Workers \ {w} : pc[u] \notin {"pop", "set"}
    BY <1>1 DEF CheckSending, NoteRace
  <2>2. CASE sending
    BY <1>1, <2>2 DEF CheckSending
  <2>3. CASE ~sending
    <3>1. Sending = {} /\ inflight = {}
      BY <1>1, <2>1, <2>3 DEF CheckSending
    <3>. QED
      BY <1>1, <2>3, <3>1 DEF CheckSending
  <2>. QED
    BY <2>2, <2>3
<1>2. ASSUME NEW w \in Workers, PopQueue(w) \/ PopSenders(w) PROVE Single'
  BY <1>2, ZenonT(40) DEF PopQueue, PopSenders
<1>3. ASSUME NEW w \in Workers, PopNothing(w) PROVE Single'
  BY <1>3 DEF PopNothing
<1>4. ASSUME NEW w \in Workers, SetSending(w) PROVE Single'
  BY <1>4 DEF SetSending
<1>5. ASSUME NEW w \in Workers, AsyncWrite(w) PROVE Single'
  BY <1>5 DEF AsyncWrite
<1>6. ASSUME NEW w \in Workers, NEW p \in Packets, OnPacketSent(w, p) PROVE Single'
  BY <1>6 DEF OnPacketSent
<1>7. ASSUME NEW w \in Workers, ClearSending(w) PROVE Single'
  BY <1>7 DEF ClearSending
<1>8. ASSUME NEW w \in Workers, pc[w] = "idle", pc' = [pc EXCEPT ![w] = "check"],
             UNCHANGED <<sending, inflight>>
      PROVE  Single'
  BY <1>8
<1>9. ASSUME UNCHANGED <<sending, inflight, pc>> PROVE Single'
  BY <1>9
<1>. QED
  BY <1>1, <1>2, <1>3, <1>4, <1>5, <1>6, <1>7, <1>8, <1>9
     DEF Next, SendPacket, PostPacket, AddStreamSender, AddSlowSender, OnTimer, Upload, vars

LEMMA InOrderStep == TypeOK /\ Single /\ InOrder /\ [Next]_vars => InOrder'
<1>. SUFFICES ASSUME TypeOK, Single, InOrder, [Next]_vars, ~raced' PROVE InOrder'
  BY DEF InOrder
<1>0. ~raced
  BY DEF Next, SendPacket, PostPacket, AddStreamSender, AddSlowSender, OnPacketSent, OnTimer,
         CheckSending, NoteRace, PopQueue, PopSenders, PopNothing, SetSending, AsyncWrite,
         ClearSending, Upload, vars
<1>a. queue \in Seq(Packets) /\ wire \in Seq(Packets) /\ entered \in Seq(Packets)
  BY DEF TypeOK
<1>b. /\ \A w \in Carriers : pkt[w] \in Packets
      /\ \A w \in Sending, v \in Carriers : v = w
  BY <1>0, SendAssumption DEF Carriers, Sending, TypeOK, Single
<1>1. ASSUME NEW w \in Workers, NEW p \in Packets, PostPacket(w, p) PROVE InOrder'
  <2>1. /\ queue' = Append(queue, p) /\ entered' = Append(entered, p)
        /\ UNCHANGED <<wire, pkt>>
    BY <1>1 DEF PostPacket
  <2>2. ASSUME NEW s \in Seq(Packets), entered = s \o queue PROVE entered' = s \o queue'
    <3>1. entered' = (s \o queue) \o <<p>> /\ queue' = queue \o <<p>> /\ <<p>> \in Seq(Packets)
      BY <1>a, <2>1, <2>2, AppendIsConcat
    <3>. QED
      BY <1>a, <3>1, ConcatAssociative, SMTT(30)
  <2>3. Carriers' = Carriers
    BY <2>1 DEF Carriers
  <2>4. \A v \in Carriers : Append(wire, pkt[v]) \in Seq(Packets)
    BY <1>a, <1>b
  <2>. QED
    BY <1>0, <1>a, <2>1, <2>2, <2>3, <2>4 DEF InOrder
<1>2. ASSUME NEW w \in Workers, PopQueue(w) PROVE InOrder'
  <2>1. /\ queue # <<>> /\ queue' = Tail(queue) /\ pkt' = [pkt EXCEPT ![w] = Head(queue)]
        /\ UNCHANGED <<wire, entered>>
    BY <1>2 DEF PopQueue
  <2>2. Head(queue) \in Packets /\ Tail(queue) \in Seq(Packets)
    BY <1>a, <2>1, HeadTailProperties
  <2>3. Carriers' = Carriers \cup {w} /\ w \notin Carriers
    BY <1>2, <2>1, <2>2, CarriersStep DEF PopQueue
  <2>4. w \in Sending
    BY <1>2 DEF PopQueue, Sending
  <2>5. Carriers = {} /\ Carriers' = {w}
    BY <1>b, <2>3, <2>4
  <2>6. pkt'[w] = Head(queue)
    BY <2>1 DEF TypeOK
  <2>7. wire \o queue = Append(wire, Head(queue)) \o Tail(queue)
    BY <1>a, <2>1, <2>2
  <2>. QED
    BY <1>0, <2>1, <2>5, <2>6, <2>7 DEF InOrder
<1>3. ASSUME NEW w \in Workers, PopSenders(w) PROVE InOrder'
  <2>1. PICK b \in Batches : /\ pkt' = [pkt EXCEPT ![w] = Head(b)]
                             /\ queue' = Tail(b)
                             /\ entered' = entered \o b
    BY <1>3 DEF PopSenders
  <2>2. b \in Seq(Packets) /\ b # <<>> /\ Head(b) \in Packets /\ Tail(b) \in Seq(Packets)
    BY BatchFacts
  <2>3. queue = <<>> /\ wire' = wire /\ w \in Sending
    BY <1>3 DEF PopSenders, Sending
  <2>4. Carriers' = Carriers \cup {w} /\ w \notin Carriers
    BY <1>3, <2>1, <2>2, CarriersStep DEF PopSenders
  <2>5. Carriers = {} /\ Carriers' = {w}
    BY <1>b, <2>3, <2>4
  <2>6. pkt'[w] = Head(b)
    BY <2>1 DEF TypeOK
  <2>7. wire \o b = Append(wire, Head(b)) \o Tail(b)
    BY <1>a, <2>2
  <2>8. entered = wire
    BY <1>0, <1>a, <2>3, <2>5, ConcatEmptySeq DEF InOrder
  <2>. QED
    BY <2>1, <2>3, <2>5, <2>6, <2>7, <2>8 DEF InOrder
<1>4. ASSUME NEW w \in Workers, AsyncWrite(w) PROVE InOrder'
  <2>1. /\ wire' = Append(wire, pkt[w])
        /\ pkt' = [pkt EXCEPT ![w] = NoPacket] /\ UNCHANGED <<queue, entered>>
    BY <1>4 DEF AsyncWrite
  <2>2. w \in Carriers /\ w \in Sending /\ Carriers' = Carriers \ {w}
    BY <1>4, <2>1, CarriersStep DEF AsyncWrite, Sending
  <2>3. Carriers' = {}
    BY <1>b, <2>2
  <2>. QED
    BY <1>0, <2>1, <2>2, <2>3 DEF InOrder
<1>5. ASSUME UNCHANGED <<queue, entered, wire, pkt>> PROVE InOrder'
  BY <1>0, <1>5 DEF InOrder, Carriers
<1>. QED
  BY <1>1, <1>2, <1>3, <1>4, <1>5
     DEF Next, SendPacket, AddStreamSender, AddSlowSender, OnPacketSent, OnTimer,
         CheckSending, PopNothing, SetSending, ClearSending, Upload, vars

LEMMA OnceInvariant == Spec => []OnceInv
<1>1. Init => OnceInv
  <2>. SUFFICES ASSUME Init PROVE OnceInv
    OBVIOUS
  <2>1. TypeOK
    BY SendInit DEF Inv
  <2>2. Carriers = {} /\ Carried = {} /\ Sending = {}
    BY DEF Init, Carriers, Carried, Sending
  <2>3. Ran(queue) = {} /\ Ran(wire) = {} /\ Ran(entered) = {} /\ entered = wire \o queue
    BY DEF Init, Ran
  <2>4. Apart /\ Places
    BY <2>2, <2>3 DEF Init, Apart, Places, Distinct
  <2>5. Counted
    <3>1. Len(entered) = 0 /\ Len(queue) = 0 /\ Len(wire) = 0
      BY DEF Init
    <3>2. IsFiniteSet(Carriers) /\ Cardinality(Carriers) = 0
      BY <2>2, FS_EmptySet
    <3>. QED
      BY <2>2, <2>3, <3>1, <3>2 DEF Counted
  <2>6. Single /\ InOrder
    BY <2>2, <2>3 DEF Init, Single, InOrder
  <2>. QED
    BY <2>1, <2>4, <2>5, <2>6 DEF OnceInv
<1>2. OnceInv /\ [Next]_vars => OnceInv'
  BY SendTypeStep, ApartStep, PlacesStep, CountedStep, SingleStep, InOrderStep DEF OnceInv
<1>. QED
  BY <1>1, <1>2, PTL DEF Spec

\* A packet that entered m_packetQueue is there, in one worker's hands, or was
\* handed to async_write once, for any number of workers in sendPacket.
THEOREM SendExactlyOnce == Spec => []ExactlyOnce
<1>1. OnceInv => ExactlyOnce
  BY DEF OnceInv, Counted, Places, Distinct, Carriers, ExactlyOnce
<1>. QED
  BY <1>1, OnceInvariant, PTL

\* Writes overlap on the TLS stream, and packets overtake each other, only after
\* two workers were between the reading and the setting of m_sending together.
THEOREM SendOneAtATime == Spec => []OneAtATime
<1>1. OnceInv => OneAtATime
  <2>. SUFFICES ASSUME OnceInv, ~raced
                PROVE  /\ Cardinality(inflight) <= 1
                       /\ \A i \in 1 .. Len(wire) : wire[i] = entered[i]
    BY DEF OneAtATime
  <2>1. Cardinality(inflight) <= 1
    <3>1. CASE inflight = {}
      BY <3>1, FS_EmptySet
    <3>2. ASSUME NEW p \in inflight PROVE Cardinality(inflight) <= 1
      <4>1. inflight = {p}
        BY DEF OnceInv, Single
      <4>. QED
        BY <4>1, FS_Singleton
    <3>. QED
      BY <3>1, <3>2
  <2>2. ASSUME NEW i \in 1 .. Len(wire) PROVE wire[i] = entered[i]
    <3>1. queue \in Seq(Packets) /\ wire \in Seq(Packets) /\ Len(wire) \in Nat /\ Len(queue) \in Nat
      BY LenProperties DEF OnceInv, TypeOK
    <3>2. CASE Carriers = {}
      <4>1. entered = wire \o queue
        BY <3>2 DEF OnceInv, InOrder
      <4>. QED
        BY <3>1, <4>1, ConcatProperties
    <3>3. ASSUME NEW w \in Carriers PROVE wire[i] = entered[i]
      <4>1. entered = Append(wire, pkt[w]) \o queue
        BY DEF OnceInv, InOrder
      <4>2. pkt[w] \in Packets
        BY SendAssumption DEF OnceInv, TypeOK, Carriers
      <4>3. /\ Append(wire, pkt[w]) \in Seq(Packets) /\ Append(wire, pkt[w])[i] = wire[i]
            /\ Len(Append(wire, pkt[w])) = Len(wire) + 1
        BY <3>1, <4>2, AppendProperties
      <4>. QED
        BY <3>1, <4>1, <4>3, ConcatProperties
    <3>. QED
      BY <3>2, <3>3
  <2>. QED
    BY <2>1, <2>2
<1>. QED
  BY <1>1, OnceInvariant, PTL
-----------------------------------------------------------------------------
\* Where the packets are that PacketChannel tells apart.
LEMMA StageFacts ==
  ASSUME OnceInv
  PROVE  /\ Ran(wire) \subseteq Ran(entered) /\ inflight \subseteq Ran(wire)
         /\ senders \cap awaited = {} /\ (senders \cup awaited) \cap Ran(entered) = {}
         /\ \A w \in Carriers : pkt[w] \in Ran(entered) \ Ran(wire)
BY DEF OnceInv, Apart, Places, Counted, Carried, Carriers

\* A step that moves one packet moves its stage.
LEMMA StageMove ==
  ASSUME NEW p \in Packets, NEW from, NEW to, stage[p] = from, stage'[p] = to,
         \A q \in Packets \ {p} : stage'[q] = stage[q]
  PROVE  Channel!Move(p, from, to)
<1>1. stage' = [stage EXCEPT ![p] = to]
  BY DEF stage
<1>. QED
  BY <1>1 DEF Channel!Move

LEMMA StageStep == OnceInv /\ [Next]_vars => [Channel!Next]_stage
<1>. SUFFICES ASSUME OnceInv, [Next]_vars PROVE [Channel!Next]_stage
  OBVIOUS
<1>0. queue \in Seq(Packets) /\ wire \in Seq(Packets) /\ entered \in Seq(Packets)
  BY DEF OnceInv, TypeOK
<1>. USE DEF Channel!Next
<1>1. ASSUME NEW w \in Workers, NEW p \in Packets, PostPacket(w, p) PROVE Channel!Next
  <2>1. /\ Ran(entered') = Ran(entered) \cup {p}
        /\ UNCHANGED <<senders, awaited, inflight, wire>> /\ Fresh(p)
    BY <1>0, <1>1, RanAppend DEF PostPacket
  <2>2. stage[p] = "new" /\ stage'[p] = "pending" /\ \A q \in Packets \ {p} : stage'[q] = stage[q]
    BY <2>1, StageFacts DEF stage, Fresh
  <2>3. Channel!Offer(p)
    BY <2>2, StageMove DEF Channel!Offer
  <2>. QED
    BY <2>3
<1>2. ASSUME NEW w \in Workers, NEW p \in Packets, AddStreamSender(w, p) PROVE Channel!Next
  <2>1. stage[p] = "new" /\ stage'[p] = "pending" /\ \A q \in Packets \ {p} : stage'[q] = stage[q]
    BY <1>2, StageFacts DEF AddStreamSender, stage, Fresh
  <2>2. Channel!Offer(p)
    BY <2>1, StageMove DEF Channel!Offer
  <2>. QED
    BY <2>2
<1>3. ASSUME NEW w \in Workers, NEW p \in Packets, AddSlowSender(w, p) PROVE Channel!Next
  <2>1. stage[p] = "new" /\ stage'[p] = "awaited" /\ \A q \in Packets \ {p} : stage'[q] = stage[q]
    BY <1>3, StageFacts DEF AddSlowSender, stage, Fresh
  <2>2. Channel!Announce(p)
    BY <2>1, StageMove DEF Channel!Announce
  <2>. QED
    BY <2>2
<1>4. ASSUME NEW p \in Packets, Upload(p) PROVE Channel!Next
  <2>1. stage[p] = "awaited" /\ stage'[p] = "pending" /\ \A q \in Packets \ {p} : stage'[q] = stage[q]
    BY <1>4, StageFacts DEF Upload, stage
  <2>2. Channel!Offer(p)
    BY <2>1, StageMove DEF Channel!Offer
  <2>. QED
    BY <2>2
<1>5. ASSUME NEW w \in Workers, PopSenders(w) PROVE stage' = stage
  <2>1. PICK b \in Batches : entered' = entered \o b /\ senders' = senders \ Ran(b)
    BY <1>5 DEF PopSenders
  <2>2. b \in Seq(Packets) /\ Ran(b) \subseteq senders
    BY BatchFacts DEF OnceInv
  <2>3. Ran(entered') = Ran(entered) \cup Ran(b)
    BY <1>0, <2>1, <2>2, RanConcat
  <2>4. senders' \cup Ran(entered') = senders \cup Ran(entered)
    BY <2>1, <2>2, <2>3
  <2>5. UNCHANGED <<inflight, wire, awaited>>
    BY <1>5 DEF PopSenders
  <2>. QED
    BY <2>4, <2>5 DEF stage
<1>6. ASSUME NEW w \in Workers, AsyncWrite(w) PROVE Channel!Next
  <2>1. w \in Carriers /\ pkt[w] \in Packets
    BY <1>6, CarriersStep DEF AsyncWrite, OnceInv
  <2>2. /\ Ran(wire') = Ran(wire) \cup {pkt[w]} /\ inflight' = inflight \cup {pkt[w]}
        /\ UNCHANGED <<senders, awaited, entered>>
    BY <1>0, <1>6, <2>1, RanAppend DEF AsyncWrite
  <2>3. /\ stage[pkt[w]] = "pending" /\ stage'[pkt[w]] = "inflight"
        /\ \A q \in Packets \ {pkt[w]} : stage'[q] = stage[q]
    BY <2>1, <2>2, StageFacts DEF stage
  <2>4. Channel!Begin(pkt[w])
    BY <2>1, <2>3, StageMove DEF Channel!Begin
  <2>. QED
    BY <2>1, <2>4
<1>7. ASSUME NEW w \in Workers, NEW p \in Packets, OnPacketSent(w, p) PROVE Channel!Next
  <2>1. stage[p] = "inflight" /\ stage'[p] = "done" /\ \A q \in Packets \ {p} : stage'[q] = stage[q]
    BY <1>7, StageFacts DEF OnPacketSent, stage
  <2>2. Channel!Finish(p)
    BY <2>1, StageMove DEF Channel!Finish
  <2>. QED
    BY <2>2
<1>8. ASSUME UNCHANGED <<senders, awaited, inflight, wire, entered>> PROVE stage' = stage
  BY <1>8 DEF stage
<1>. QED
  BY <1>1, <1>2, <1>3, <1>4, <1>5, <1>6, <1>7, <1>8
     DEF Next, SendPacket, OnTimer, CheckSending, PopQueue, PopNothing, SetSending,
         ClearSending, vars

\* SendPath implements the safety half of PacketChannel: sendPacket writes no
\* packet that was not handed over, none twice, and a write completes once.
THEOREM SendImplementsChannel == Spec => Channel!Safe
<1>1. Init => Channel!Init
  BY DEF Init, Channel!Init, stage, Ran
<1>. QED
  BY <1>1, OnceInvariant, StageStep, PTL DEF Spec, Channel!Safe
=============================================================================
