--------------------------- MODULE DeliveryProofs ---------------------------
(***************************************************************************)
(* Proofs about SessionRegistry, for any sessions, accounts and ids, and   *)
(* about Delivery, which extends it, for any requests and any number of    *)
(* logins, crashes and failing database calls.                             *)
(***************************************************************************)
EXTENDS Delivery, TLAPS

(***************************************************************************)
(* The registry.                                                           *)
(***************************************************************************)
\* What ties a session's read chain to its socket and its entries: only
\* removeSessions closes a socket under a running handler, and between the two
\* halves of a login the session has no entry at all.
Chain ==
  \A s \in Sessions :
    /\ sock[s] = "none" => pc[s] = "none"
    /\ pc[s] = "closing" => sock[s] = "closed"
    /\ s \in swept => sock[s] = "closed"
    /\ sock[s] = "closed" => pc[s] \in {"closing", "stopped"} \/ s \in swept
    /\ pc[s] = "loginAppend" => \A k \in Ids : <<k, s>> \notin registry

\* The inductive invariant.
Inv == RegistryTypeOK /\ Chain /\ RegistryKeyed /\ Findable /\ NoGhost

LEMMA RegistryInvInit == RegistryInit => Inv
BY IdAssumption
   DEF RegistryInit, Inv, RegistryTypeOK, Chain, RegistryKeyed, Findable, NoGhost,
       Ids, Labels, Disconnected, Connected, LoggedIn

LEMMA TypeStep == RegistryTypeOK /\ [RegistryNext]_rvars => RegistryTypeOK'
<1>. SUFFICES ASSUME RegistryTypeOK, [RegistryNext]_rvars PROVE RegistryTypeOK'
  OBVIOUS
<1>. USE DEF RegistryTypeOK, Goto, SetStatus, Labels, Ids
<1>1. ASSUME NEW s \in Sessions, Start(s) PROVE RegistryTypeOK'
  BY <1>1 DEF Start
<1>2. ASSUME NEW s \in Sessions, Handshake(s) \/ Logout(s) \/ LoginFinish(s) \/ EndHandler(s)
      PROVE  RegistryTypeOK'
  BY <1>2 DEF Handshake, Logout, LoginFinish, EndHandler, RecvPacket
<1>3. ASSUME NEW s \in Sessions, Close(s) \/ ReadStops(s) \/ Login(s) \/ BeginHandler(s)
      PROVE  RegistryTypeOK'
  BY <1>3 DEF Close, ReadStops, Login, BeginHandler
<1>4. ASSUME NEW s \in Sessions, CloseRemove(s) \/ LoginRemove(s)
      PROVE  RegistryTypeOK'
  BY <1>4 DEF CloseRemove, LoginRemove, Removed
<1>5. ASSUME NEW s \in Sessions, NEW a \in Accounts, LoginAppend(s, a)
      PROVE  RegistryTypeOK'
  BY <1>5 DEF LoginAppend
<1>6. CASE RemoveSessions
  BY <1>6 DEF RemoveSessions
<1>7. CASE UNCHANGED rvars
  BY <1>7 DEF rvars
<1>. QED
  BY <1>1, <1>2, <1>3, <1>4, <1>5, <1>6, <1>7 DEF RegistryNext, Handler

LEMMA InvStep == Inv /\ [RegistryNext]_rvars => Inv'
<1>. SUFFICES ASSUME Inv, [RegistryNext]_rvars PROVE Inv'
  OBVIOUS
<1>0. RegistryTypeOK'
  BY TypeStep DEF Inv
<1>. USE <1>0 DEF Inv, RegistryTypeOK, Goto, SetStatus
<1>1. ASSUME NEW s \in Sessions, Start(s) PROVE Inv'
  <2>1. \A k \in Ids : <<k, s>> \notin registry
    BY <1>1 DEF Start, NoGhost, Chain
  <2>. QED
    BY <1>1, <2>1 DEF Start, Chain, RegistryKeyed, Findable, NoGhost, Ids
<1>2. ASSUME NEW s \in Sessions, Handshake(s) \/ Logout(s) \/ LoginFinish(s) \/ EndHandler(s)
      PROVE  Inv'
  BY <1>2 DEF Handshake, Logout, LoginFinish, EndHandler, RecvPacket, Chain, RegistryKeyed, Findable, NoGhost
<1>3. ASSUME NEW s \in Sessions, Close(s) \/ ReadStops(s) \/ Login(s) \/ BeginHandler(s)
      PROVE  Inv'
  BY <1>3 DEF Close, ReadStops, Login, BeginHandler, Chain, RegistryKeyed, Findable, NoGhost
<1>4. ASSUME NEW s \in Sessions, CloseRemove(s) PROVE Inv'
  BY <1>4 DEF CloseRemove, Removed, Chain, RegistryKeyed, Findable, NoGhost
<1>5. ASSUME NEW s \in Sessions, LoginRemove(s) PROVE Inv'
  <2>1. /\ pc' = [pc EXCEPT ![s] = "loginAppend"] /\ pc[s] = "loginRemove"
        /\ registry' = registry \ {<<accountId[s], s>>}
        /\ UNCHANGED <<sock, status, accountId, swept>>
    BY <1>5 DEF LoginRemove, Removed
  <2>2. \A k \in Ids : <<k, s>> \notin registry'
    BY <2>1 DEF RegistryKeyed
  <2>3. Chain'
    BY <2>1, <2>2 DEF Chain
  <2>4. RegistryKeyed' /\ NoGhost'
    BY <2>1 DEF RegistryKeyed, NoGhost
  <2>5. Findable'
    BY <2>1 DEF Findable
  <2>. QED
    BY <2>3, <2>4, <2>5
<1>6. ASSUME NEW s \in Sessions, NEW a \in Accounts, LoginAppend(s, a)
      PROVE  Inv'
  <2>1. /\ pc' = [pc EXCEPT ![s] = "serve"] /\ pc[s] = "loginAppend"
        /\ accountId' = [accountId EXCEPT ![s] = a]
        /\ registry' = registry \cup {<<a, s>>}
        /\ UNCHANGED <<sock, status, swept>>
    BY <1>6 DEF LoginAppend
  <2>2. \A e \in registry : e[2] # s
    BY <2>1 DEF Chain
  <2>3. Chain'
    BY <2>1 DEF Chain
  <2>4. RegistryKeyed'
    BY <2>1, <2>2 DEF RegistryKeyed
  <2>5. NoGhost'
    BY <2>1 DEF NoGhost, Chain
  <2>6. Findable'
    BY <2>1, <2>2 DEF Findable
  <2>. QED
    BY <2>3, <2>4, <2>5, <2>6
<1>7. CASE RemoveSessions
  BY <1>7, ZenonT(40) DEF RemoveSessions, Chain, RegistryKeyed, Findable, NoGhost, Ids
<1>8. CASE UNCHANGED rvars
  BY <1>8 DEF rvars, Chain, RegistryKeyed, Findable, NoGhost
<1>. QED
  BY <1>1, <1>2, <1>3, <1>4, <1>5, <1>6, <1>7, <1>8 DEF RegistryNext, Handler

\* Type correctness of the registry and the sessions' read chains.
THEOREM RegistryTypeCorrect == RegistrySpec => []RegistryTypeOK
<1>1. RegistryInit => RegistryTypeOK
  BY RegistryInvInit DEF Inv
<1>. QED
  BY <1>1, TypeStep, PTL DEF RegistrySpec

\* appendSession, removeSession and removeSessions keep the map of sessions
\* usable: every entry is under its session's present id, every connected
\* session can be found, and a closed one stays listed only while its own
\* close() is about to remove it or after removeSessions overtook its login.
THEOREM RegistryConsistent == RegistrySpec => [](RegistryKeyed /\ Findable /\ NoGhost)
<1>1. Inv => RegistryKeyed /\ Findable /\ NoGhost
  BY DEF Inv
<1>. QED
  BY <1>1, RegistryInvInit, InvStep, PTL DEF RegistrySpec

\* In particular no closed session stays listed for good: close() removes it,
\* or removeSessions has closed it.
THEOREM RegistryNoGhost == RegistrySpec => []NoGhost
<1>1. RegistryKeyed /\ Findable /\ NoGhost => NoGhost
  OBVIOUS
<1>. QED
  BY <1>1, RegistryConsistent, PTL

\* A session that has left the map after its close().
Gone(s) == pc[s] = "stopped" /\ \A k \in Ids : <<k, s>> \notin registry

\* The safety half of Departs: the step that ends a close() takes the session
\* out of the map under every id, and nothing puts it back.
THEOREM RegistryGone ==
  RegistrySpec =>
    [][\A s \in Sessions :
         (pc[s] = "closing" /\ pc'[s] # "closing") \/ Gone(s) => Gone(s)']_rvars
<1>1. Inv /\ [RegistryNext]_rvars =>
        [\A s \in Sessions :
           (pc[s] = "closing" /\ pc'[s] # "closing") \/ Gone(s) => Gone(s)']_rvars
  <2>. SUFFICES ASSUME Inv, RegistryNext, NEW s \in Sessions,
                       (pc[s] = "closing" /\ pc'[s] # "closing") \/ Gone(s)
                PROVE  Gone(s)'
    OBVIOUS
  <2>. USE DEF Inv, RegistryTypeOK, Goto, SetStatus, RecvPacket, Gone
  <2>1. ASSUME NEW t \in Sessions, Start(t) PROVE Gone(s)'
    BY <2>1 DEF Start, Chain
  <2>2. ASSUME NEW t \in Sessions, Handshake(t) \/ Logout(t) \/ LoginFinish(t) \/ EndHandler(t)
        PROVE  Gone(s)'
    BY <2>2 DEF Handshake, Logout, LoginFinish, EndHandler
  <2>3. ASSUME NEW t \in Sessions, Close(t) \/ ReadStops(t) \/ Login(t) \/ BeginHandler(t)
        PROVE  Gone(s)'
    BY <2>3 DEF Close, ReadStops, Login, BeginHandler
  <2>4. ASSUME NEW t \in Sessions, CloseRemove(t) PROVE Gone(s)'
    BY <2>4 DEF CloseRemove, Removed, RegistryKeyed
  <2>5. ASSUME NEW t \in Sessions, LoginRemove(t) PROVE Gone(s)'
    BY <2>5 DEF LoginRemove, Removed
  <2>6. ASSUME NEW t \in Sessions, NEW a \in Accounts, LoginAppend(t, a) PROVE Gone(s)'
    BY <2>6 DEF LoginAppend
  <2>7. CASE RemoveSessions
    BY <2>7 DEF RemoveSessions
  <2>. QED
    BY <2>1, <2>2, <2>3, <2>4, <2>5, <2>6, <2>7 DEF RegistryNext, Handler
<1>. QED
  BY <1>1, RegistryInvInit, InvStep, PTL DEF RegistrySpec

(***************************************************************************)
(* Delivery.                                                               *)
(***************************************************************************)
\* A session that has not begun is blank, and one that is logged in, outside
\* the login handler, has an account's id.
Identity ==
  \A s \in Sessions :
    /\ sock[s] = "none" => accountId[s] = NoAccount /\ status[s] = Disconnected
    /\ status[s] = LoggedIn =>
         pc[s] \in {"loginRemove", "loginAppend"} \/ accountId[s] \in Accounts

\* Everything posted or in a runner's hand for a session is of the account whose
\* id the session has, or was carried over from an earlier account of it.
Own ==
  \A p \in todo \cup picked \cup pending :
    p[3][2] = accountId[p[2]] \/ <<p[2], p[3]>> \in carried

\* Where documents come from: what is stored, answered or in somebody's hand was
\* reported and its insert succeeded; what is about to be inserted never was.
Provenance ==
  /\ store \cup confirmed \cup withdrawn \subseteq reported \ dropped
  /\ dropped \subseteq reported
  /\ \A p \in todo \cup picked \cup pending : p[3] \in reported \ dropped
  /\ \A d \in reported : source[d[1]] # NoAccount
  /\ \A s \in Sessions : \A d \in pushing[s] : d \notin reported /\ source[d[1]] # NoAccount
  /\ \A s, t \in Sessions : s # t => pushing[s] \cap pushing[t] = {}

\* The same id on the same session.
Clash(p, q) == p[2] = q[2] /\ p[3][1] = q[3][1]

\* requestPending and postRequest as two steps: two runners hold an id between
\* them, or one holds it while it is pending, only when they overlapped.
Once ==
  /\ PostedOnce
  /\ \A p \in picked, q \in picked : p # q /\ Clash(p, q) => <<p[2], p[3][1]>> \in overlapped
  /\ \A p \in pending, q \in picked : Clash(p, q) => <<p[2], p[3][1]>> \in overlapped

\* The inductive invariant.
DInv == Inv /\ TypeOK /\ Identity /\ Own /\ Provenance /\ Once /\ NoLoss /\ Covered

-----------------------------------------------------------------------------
\* A packet handler that is one step of Delivery changes nothing in the
\* registry, or is the end of a read chain whose socket was closed.
LEMMA HandlerIsRegistryStep ==
  ASSUME RegistryTypeOK, NEW s \in Sessions, pc[s] = "read", RecvPacket(s),
         UNCHANGED <<sock, status, accountId, registry, swept>>
  PROVE  [RegistryNext]_rvars
<1>1. CASE sock[s] = "open"
  BY <1>1 DEF RecvPacket, Goto, RegistryTypeOK, rvars
<1>2. CASE sock[s] # "open"
  <2>1. ReadStops(s)
    BY <1>2 DEF RecvPacket, Goto, ReadStops
  <2>. QED
    BY <2>1 DEF RegistryNext
<1>. QED
  BY <1>1, <1>2

\* Every step but a restart is a step of the registry or leaves it alone.
LEMMA DeliveryIsRegistry ==
  RegistryTypeOK /\ [Next]_vars => [RegistryNext]_rvars \/ Restart
<1>. SUFFICES ASSUME RegistryTypeOK, [Next]_vars, ~ Restart PROVE [RegistryNext]_rvars
  OBVIOUS
<1>1. CASE RegistryStep
  BY <1>1 DEF RegistryStep, RegistryNext
<1>2. ASSUME NEW s \in Sessions, NEW i \in Requests, NEW dsts \in SUBSET Accounts,
             PushRequest(s, i, dsts)
      PROVE  [RegistryNext]_rvars
  BY <1>2 DEF PushRequest, RegistryNext
<1>3. ASSUME NEW s \in Sessions, SessionHandler(s) PROVE [RegistryNext]_rvars
  BY <1>3 DEF SessionHandler, PushOne, PushEnd, LoginServe, LoginServed, RegistryNext, Handler
<1>4. ASSUME NEW s \in Sessions, NEW d \in Docs, DispatchRequest(s, d)
      PROVE  [RegistryNext]_rvars
  BY <1>4, HandlerIsRegistryStep DEF DispatchRequest, Reading
<1>5. ASSUME NEW d \in Docs, ProcessUserRequests(d) PROVE [RegistryNext]_rvars
  BY <1>5 DEF ProcessUserRequests
<1>6. ASSUME NEW s \in Sessions, NEW r \in Runners, Runner(r, s) PROVE [RegistryNext]_rvars
  BY <1>6 DEF Runner, GetRequests, ProcessOne
<1>8. ASSUME NEW s \in Sessions, NEW r \in Runners, Answer(r, s) PROVE [RegistryNext]_rvars
  BY <1>8, HandlerIsRegistryStep DEF Answer, Confirm, Refuse, Answered, Reading
<1>9. ASSUME NEW s \in Sessions, LoginBegin(s) PROVE [RegistryNext]_rvars
  BY <1>9 DEF LoginBegin, RegistryNext
<1>7. CASE UNCHANGED vars
  BY <1>7 DEF vars
<1>. QED
  BY <1>1, <1>2, <1>3, <1>4, <1>5, <1>6, <1>7, <1>8, <1>9 DEF Next

LEMMA RegistryInvKept == Inv /\ [Next]_vars => Inv'
<1>. SUFFICES ASSUME Inv, [Next]_vars PROVE Inv'
  OBVIOUS
<1>1. CASE [RegistryNext]_rvars
  BY <1>1, InvStep
<1>2. CASE Restart
  BY <1>2 DEF Restart, Inv, RegistryTypeOK, Chain, RegistryKeyed, Findable, NoGhost, Labels
<1>. QED
  BY <1>1, <1>2, DeliveryIsRegistry DEF Inv

\* Identity depends on the registry's variables only.
LEMMA IdentityKept == Inv /\ Identity /\ [Next]_vars => Identity'
<1>. SUFFICES ASSUME Inv, Identity, [Next]_vars PROVE Identity'
  OBVIOUS
<1>. USE DEF Inv, RegistryTypeOK, Identity, Goto, SetStatus, RecvPacket,
             Disconnected, Connected, LoggedIn
<1>1. ASSUME NEW s \in Sessions, Start(s) PROVE Identity'
  BY <1>1 DEF Start
<1>2. ASSUME NEW s \in Sessions, Handshake(s) \/ Logout(s) \/ LoginFinish(s) \/ EndHandler(s)
      PROVE  Identity'
  BY <1>2 DEF Handshake, Logout, LoginFinish, EndHandler, Chain
<1>3. ASSUME NEW s \in Sessions, Close(s) \/ ReadStops(s) \/ Login(s) \/ BeginHandler(s)
      PROVE  Identity'
  BY <1>3 DEF Close, ReadStops, Login, BeginHandler, Chain
<1>4. ASSUME NEW s \in Sessions, CloseRemove(s) \/ LoginRemove(s)
      PROVE  Identity'
  BY <1>4 DEF CloseRemove, LoginRemove
<1>5. ASSUME NEW s \in Sessions, NEW a \in Accounts, LoginAppend(s, a)
      PROVE  Identity'
  BY <1>5 DEF LoginAppend, Chain
<1>6. CASE RemoveSessions
  BY <1>6 DEF RemoveSessions
<1>7. CASE UNCHANGED rvars
  BY <1>7 DEF rvars
<1>8. CASE Restart
  BY <1>8 DEF Restart
<1>9. CASE RegistryNext
  BY <1>1, <1>2, <1>3, <1>4, <1>5, <1>6, <1>9 DEF RegistryNext, Handler
<1>. QED
  BY <1>7, <1>8, <1>9, DeliveryIsRegistry

-----------------------------------------------------------------------------
\* The case split shared by the lemmas below: what a step does to dvars.
Shape ==
  \/ UNCHANGED dvars
  \/ Restart
  \/ \E s \in Sessions :
       \/ LoginBegin(s)
       \/ \E i \in Requests, dsts \in SUBSET Accounts : PushRequest(s, i, dsts)
       \/ \E d \in Docs : PushOne(s, d) \/ DispatchRequest(s, d)
       \/ \E a \in Accounts : LoginServe(s, a)
  \/ \E d \in Docs : ProcessUserRequests(d)
  \/ \E s \in Sessions, r \in Runners :
       \/ GetRequests(r, s)
       \/ \E d \in Docs : ProcessOne(r, s, d) \/ Confirm(r, s, d) \/ Refuse(r, s, d)

LEMMA StepShape == [Next]_vars => Shape
<1>. SUFFICES ASSUME [Next]_vars PROVE Shape
  OBVIOUS
<1>1. CASE RegistryStep
  BY <1>1 DEF RegistryStep, Shape
<1>2. ASSUME NEW s \in Sessions, SessionHandler(s) PROVE Shape
  BY <1>2 DEF SessionHandler, PushEnd, LoginServed, Shape
<1>3. ASSUME NEW s \in Sessions, NEW r \in Runners, Runner(r, s) \/ Answer(r, s) PROVE Shape
  BY <1>3 DEF Runner, Answer, Shape
<1>4. CASE UNCHANGED vars
  BY <1>4 DEF vars, Shape
<1>. QED
  BY <1>1, <1>2, <1>3, <1>4 DEF Next, Shape

\* What a runner or a client does to an entry of a runner's list.
LEMMA ProcessOneShape ==
  ASSUME NEW r, NEW s, NEW d, ProcessOne(r, s, d)
  PROVE  /\ accountId' = accountId /\ UNCHANGED <<store, carried, left, unseen, jobs, calls, inserted>>
         /\ \/ /\ <<r, s, d>> \in todo /\ todo' = todo \ {<<r, s, d>>} /\ pending' = pending
               /\ RequestPending(s, d[1]) /\ picked' = picked /\ overlapped' = overlapped
            \/ /\ <<r, s, d>> \in todo /\ todo' = todo \ {<<r, s, d>>} /\ pending' = pending
               /\ ~ RequestPending(s, d[1]) /\ picked' = picked \cup {<<r, s, d>>}
               /\ overlapped' = IF \E p \in picked : p[2] = s /\ p[3][1] = d[1]
                                THEN overlapped \cup {<<s, d[1]>>} ELSE overlapped
            \/ /\ <<r, s, d>> \in picked /\ picked' = picked \ {<<r, s, d>>}
               /\ pending' = pending \cup {<<r, s, d>>} /\ todo' = todo
               /\ overlapped' = overlapped
BY DEF ProcessOne, rvars

\* The steps that put something into a runner's hands, or take it further.
LEMMA HandSteps ==
  ASSUME [Next]_vars
  PROVE  \/ \E s \in Sessions, r \in Runners : GetRequests(r, s)
         \/ \E s \in Sessions, r \in Runners, d \in Docs : ProcessOne(r, s, d)
         \/ /\ todo' \subseteq todo /\ picked' \subseteq picked /\ pending' \subseteq pending
            /\ overlapped' = overlapped
<1>. DEFINE Kept == /\ todo' \subseteq todo /\ picked' \subseteq picked
                    /\ pending' \subseteq pending /\ overlapped' = overlapped
<1>1. CASE UNCHANGED dvars \/ Restart
  BY <1>1 DEF dvars, trail, Restart
<1>2. ASSUME NEW s \in Sessions, LoginBegin(s) PROVE Kept
  BY <1>2 DEF LoginBegin, trail
<1>3. ASSUME NEW s \in Sessions, NEW i \in Requests, NEW dsts \in SUBSET Accounts,
             PushRequest(s, i, dsts)
      PROVE  Kept
  BY <1>3 DEF PushRequest, trail
<1>4. ASSUME NEW s \in Sessions, NEW d \in Docs, PushOne(s, d) \/ DispatchRequest(s, d)
      PROVE  Kept
  BY <1>4 DEF PushOne, AddRequest, DispatchRequest, trail
<1>5. ASSUME NEW s \in Sessions, NEW a \in Accounts, LoginServe(s, a) PROVE Kept
  BY <1>5 DEF LoginServe
<1>6. ASSUME NEW d \in Docs, ProcessUserRequests(d) PROVE Kept
  BY <1>6 DEF ProcessUserRequests, trail
<1>7. ASSUME NEW s \in Sessions, NEW r \in Runners, NEW d \in Docs,
             Confirm(r, s, d) \/ Refuse(r, s, d)
      PROVE  Kept
  BY <1>7 DEF Confirm, Refuse, Answered
<1>. HIDE DEF Kept
<1>8. Kept \/ (\E s \in Sessions, r \in Runners : GetRequests(r, s))
           \/ (\E s \in Sessions, r \in Runners, d \in Docs : ProcessOne(r, s, d))
  <2>1. Shape
    BY StepShape
  <2>2. UNCHANGED dvars \/ Restart => Kept
    BY <1>1 DEF Kept, dvars, trail, Restart
  <2>. QED
    BY <2>1, <2>2, <1>2, <1>3, <1>4, <1>5, <1>6, <1>7 DEF Shape
<1>. QED
  BY <1>8 DEF Kept

\* The steps that change what is stored or known of documents.
LEMMA MailSteps ==
  ASSUME [Next]_vars
  PROVE  \/ \E s \in Sessions, d \in Docs : PushOne(s, d) \/ DispatchRequest(s, d)
         \/ \E s \in Sessions, r \in Runners, d \in Docs : Confirm(r, s, d)
         \/ UNCHANGED <<store, reported, confirmed, withdrawn, dropped>>
<1>. DEFINE Kept == UNCHANGED <<store, reported, confirmed, withdrawn, dropped>>
<1>1. UNCHANGED dvars \/ Restart => Kept
  BY DEF dvars, trail, Restart
<1>2. ASSUME NEW s \in Sessions, LoginBegin(s) PROVE Kept
  BY <1>2 DEF LoginBegin, trail
<1>3. ASSUME NEW s \in Sessions, NEW i \in Requests, NEW dsts \in SUBSET Accounts,
             PushRequest(s, i, dsts)
      PROVE  Kept
  BY <1>3 DEF PushRequest, trail
<1>4. ASSUME NEW s \in Sessions, NEW a \in Accounts, LoginServe(s, a) PROVE Kept
  BY <1>4 DEF LoginServe
<1>5. ASSUME NEW d \in Docs, ProcessUserRequests(d) PROVE Kept
  BY <1>5 DEF ProcessUserRequests, trail
<1>6. ASSUME NEW s \in Sessions, NEW r \in Runners, GetRequests(r, s) PROVE Kept
  BY <1>6 DEF GetRequests
<1>7. ASSUME NEW s \in Sessions, NEW r \in Runners, NEW d \in Docs,
             ProcessOne(r, s, d) \/ Refuse(r, s, d)
      PROVE  Kept
  BY <1>7 DEF ProcessOne, Refuse, Answered
<1>. HIDE DEF Kept
<1>8. Kept \/ (\E s \in Sessions, d \in Docs : PushOne(s, d) \/ DispatchRequest(s, d))
           \/ (\E s \in Sessions, r \in Runners, d \in Docs : Confirm(r, s, d))
  BY <1>1, <1>2, <1>3, <1>4, <1>5, <1>6, <1>7, StepShape DEF Shape
<1>. QED
  BY <1>8 DEF Kept

\* Only a login changes what is carried, and it forgets nothing.
LEMMA CarrySteps ==
  ASSUME [Next]_vars
  PROVE  \/ carried' = carried
         \/ carried \subseteq carried' /\ \E s \in Sessions, a \in Accounts : LoginServe(s, a)
<1>1. UNCHANGED dvars \/ Restart => carried' = carried
  BY DEF dvars, trail, Restart
<1>2. ASSUME NEW s \in Sessions, LoginBegin(s) PROVE carried' = carried
  BY <1>2 DEF LoginBegin, trail
<1>3. ASSUME NEW s \in Sessions, NEW i \in Requests, NEW dsts \in SUBSET Accounts,
             PushRequest(s, i, dsts)
      PROVE  carried' = carried
  BY <1>3 DEF PushRequest, trail
<1>4. ASSUME NEW s \in Sessions, NEW a \in Accounts, LoginServe(s, a)
      PROVE  carried \subseteq carried'
  BY <1>4 DEF LoginServe
<1>5. ASSUME NEW d \in Docs, ProcessUserRequests(d) PROVE carried' = carried
  BY <1>5 DEF ProcessUserRequests, trail
<1>6. ASSUME NEW s \in Sessions, NEW r \in Runners, GetRequests(r, s) PROVE carried' = carried
  BY <1>6 DEF GetRequests
<1>7. ASSUME NEW s \in Sessions, NEW r \in Runners, NEW d \in Docs,
             ProcessOne(r, s, d) \/ Confirm(r, s, d) \/ Refuse(r, s, d)
      PROVE  carried' = carried
  BY <1>7 DEF ProcessOne, Confirm, Refuse, Answered
<1>8. ASSUME NEW s \in Sessions, NEW d \in Docs, PushOne(s, d) \/ DispatchRequest(s, d)
      PROVE  carried' = carried
  BY <1>8 DEF PushOne, AddRequest, DispatchRequest, trail
<1>. QED
  BY <1>1, <1>2, <1>3, <1>4, <1>5, <1>6, <1>7, <1>8, StepShape DEF Shape

\* ProcessOne moves an entry from hand to hand.
LEMMA HandsShrink ==
  ASSUME NEW r, NEW s, NEW d, ProcessOne(r, s, d)
  PROVE  /\ (todo \cup picked \cup pending)' \subseteq todo \cup picked \cup pending
         /\ todo' \subseteq todo /\ picked' \subseteq picked \cup {<<r, s, d>>}
         /\ pending' \subseteq pending \cup {<<r, s, d>>}
         /\ overlapped' \subseteq overlapped \cup {<<s, d[1]>>}
BY ProcessOneShape

LEMMA TypeKept == Inv /\ TypeOK /\ Identity /\ [Next]_vars => TypeOK'
<1>. SUFFICES ASSUME Inv, TypeOK, Identity, [Next]_vars PROVE TypeOK'
  OBVIOUS
<1>0. RegistryTypeOK'
  BY RegistryInvKept DEF Inv
<1>. USE <1>0, DeliveryAssumption DEF TypeOK, Throws
<1>1. CASE UNCHANGED dvars
  BY <1>1 DEF dvars, trail
<1>2. CASE Restart
  BY <1>2 DEF Restart, trail
<1>3. ASSUME NEW s \in Sessions, NEW i \in Requests, NEW dsts \in SUBSET Accounts,
             PushRequest(s, i, dsts)
      PROVE  TypeOK'
  <2>1. accountId[s] \in Accounts
    BY <1>3 DEF PushRequest, BeginHandler, Identity
  <2>2. {i} \X (dsts \ {accountId[s]}) \subseteq Docs
    BY DEF Docs
  <2>. QED
    BY <1>3, <2>1, <2>2 DEF PushRequest, trail
<1>4. ASSUME NEW s \in Sessions, NEW d \in Docs, PushOne(s, d) PROVE TypeOK'
  BY <1>4 DEF PushOne, AddRequest, trail
<1>5. ASSUME NEW s \in Sessions, NEW d \in Docs, DispatchRequest(s, d) PROVE TypeOK'
  BY <1>5 DEF DispatchRequest
<1>6. ASSUME NEW s \in Sessions, NEW a \in Accounts, LoginServe(s, a) PROVE TypeOK'
  <2>1. carried' \subseteq Sessions \X Docs
    BY <1>6 DEF LoginServe, InHand
  <2>. QED
    BY <1>6, <2>1 DEF LoginServe, Runners
<1>7. ASSUME NEW d \in Docs, ProcessUserRequests(d) PROVE TypeOK'
  <2> DEFINE T == {t \in Sessions : <<d[2], t>> \in registry}
  <2>1. d \in Runners /\ T \subseteq Sessions
    BY DEF Runners
  <2>2. calls' = calls \cup {<<d, s>> : s \in T}
    BY <1>7 DEF ProcessUserRequests
  <2>. HIDE DEF T
  <2>3. calls' \subseteq Runners \X Sessions
    BY <2>1, <2>2
  <2>. QED
    BY <1>7, <2>3 DEF ProcessUserRequests, trail
<1>8. ASSUME NEW s \in Sessions, NEW r \in Runners, GetRequests(r, s) PROVE TypeOK'
  <2> DEFINE mine == {d \in store : d[2] = accountId[s]}
  <2>1. PICK got \in SUBSET mine :
          /\ IF got = mine THEN UNCHANGED faults ELSE Throws
          /\ todo' = todo \cup {<<r, s, d>> : d \in got}
          /\ unseen' = (unseen \ {<<s, d>> : d \in got}) \cup {<<s, d>> : d \in mine \ got}
    BY <1>8 DEF GetRequests
  <2>2. got \subseteq Docs /\ mine \ got \subseteq Docs
    OBVIOUS
  <2>. HIDE DEF mine
  <2>3. todo' \subseteq Runners \X Sessions \X Docs
    BY <2>1, <2>2
  <2>4. unseen' \subseteq Sessions \X Docs
    BY <2>1, <2>2
  <2>5. faults' \in 0 .. MaxFaults
    BY <2>1
  <2>. QED
    BY <1>8, <2>3, <2>4, <2>5 DEF GetRequests
<1>9. ASSUME NEW s \in Sessions, NEW r \in Runners, NEW d \in Docs, ProcessOne(r, s, d)
      PROVE  TypeOK'
  <2>1. d[1] \in Requests
    BY DEF Docs
  <2>2. /\ todo' \subseteq todo /\ picked' \subseteq picked \cup {<<r, s, d>>}
        /\ pending' \subseteq pending \cup {<<r, s, d>>}
        /\ overlapped' \subseteq overlapped \cup {<<s, d[1]>>}
    BY <1>9, HandsShrink
  <2>. QED
    BY <1>9, <2>1, <2>2 DEF ProcessOne
<1>10. ASSUME NEW s \in Sessions, NEW r \in Runners, NEW d \in Docs,
              Confirm(r, s, d) \/ Refuse(r, s, d)
      PROVE  TypeOK'
  BY <1>10 DEF Confirm, Refuse, Answered
<1>11. ASSUME NEW s \in Sessions, LoginBegin(s) PROVE TypeOK'
  BY <1>11 DEF LoginBegin, trail
<1>. QED
  BY <1>1, <1>2, <1>3, <1>4, <1>5, <1>6, <1>7, <1>8, <1>9, <1>10, <1>11, StepShape DEF Shape

-----------------------------------------------------------------------------
\* The list of a runner has documents of the session's present account only.
LEMMA ListedIsOwn ==
  ASSUME NEW r, NEW s, GetRequests(r, s)
  PROVE  /\ \A p \in todo' \ todo : p[2] = s /\ p[3] \in store /\ p[3][2] = accountId[s]
         /\ UNCHANGED <<accountId, picked, pending, carried, store, jobs, inserted, left>>
         /\ todo \subseteq todo'
BY DEF GetRequests, rvars

\* What m_accountId changes leave behind is carried: a session that has not
\* begun has nothing in hand, and a login to another account records it all.
LEMMA AccountKept ==
  ASSUME Inv, TypeOK, Identity, Own, [Next]_vars,
         NEW p \in todo \cup picked \cup pending
  PROVE  p[3][2] = accountId'[p[2]] \/ <<p[2], p[3]>> \in carried'
<1>0. p[2] \in Sessions /\ p[3] \in Docs /\ p[3][2] \in Accounts
  BY DEF TypeOK, Docs
<1>1. CASE UNCHANGED <<accountId, carried>>
  BY <1>1 DEF Own
<1>2. ASSUME NEW s \in Sessions, Start(s), UNCHANGED dvars
      PROVE  p[3][2] = accountId'[p[2]] \/ <<p[2], p[3]>> \in carried'
  <2>1. accountId[s] = NoAccount /\ carried' = carried
    BY <1>2 DEF Start, Identity, dvars, trail
  <2>2. \A t \in Sessions : t # s => accountId'[t] = accountId[t]
    BY <1>2 DEF Start
  <2>. QED
    BY <1>0, <2>1, <2>2, IdAssumption DEF Own
<1>3. ASSUME NEW s \in Sessions, NEW a \in Accounts, LoginServe(s, a)
      PROVE  p[3][2] = accountId'[p[2]] \/ <<p[2], p[3]>> \in carried'
  <2>1. accountId' = [accountId EXCEPT ![s] = a] /\ carried \subseteq carried'
    BY <1>3 DEF LoginServe, LoginAppend
  <2>2. accountId \in [Sessions -> Ids \cup {NoAccount}]
    BY DEF TypeOK, RegistryTypeOK
  <2>3. CASE p[2] # s \/ accountId[s] = a
    BY <1>0, <2>1, <2>2, <2>3 DEF Own
  <2>4. CASE p[2] = s /\ accountId[s] # a
    BY <1>0, <1>3, <2>4 DEF LoginServe, InHand
  <2>. QED
    BY <2>3, <2>4
<1>4. CASE RegistryStep
  BY <1>1, <1>2, <1>4
     DEF RegistryStep, Handshake, Close, ReadStops, Logout, RemoveSessions, dvars, trail
<1>5. ASSUME NEW s \in Sessions, SessionHandler(s)
      PROVE  p[3][2] = accountId'[p[2]] \/ <<p[2], p[3]>> \in carried'
  BY <1>1, <1>3, <1>5
     DEF SessionHandler, PushOne, AddRequest, PushEnd, EndHandler, LoginServed, LoginFinish,
         CloseRemove, LoginRemove, rvars, dvars, trail
<1>6. ASSUME NEW s \in Sessions, NEW r \in Runners, Runner(r, s) \/ Answer(r, s)
      PROVE  p[3][2] = accountId'[p[2]] \/ <<p[2], p[3]>> \in carried'
  BY <1>1, <1>6
     DEF Runner, Answer, GetRequests, ProcessOne, Confirm, Refuse, Answered, rvars
<1>7. ASSUME NEW s \in Sessions, LoginBegin(s)
      PROVE  p[3][2] = accountId'[p[2]] \/ <<p[2], p[3]>> \in carried'
  BY <1>1, <1>7 DEF LoginBegin, Login, trail
<1>. QED
  BY <1>1, <1>4, <1>5, <1>6, <1>7
     DEF Next, Restart, PushRequest, BeginHandler, DispatchRequest, ProcessUserRequests,
         rvars, vars, dvars, trail

LEMMA OwnKept ==
  ASSUME Inv, TypeOK, Identity, Own, [Next]_vars
  PROVE  Own'
<1>0. \A p \in todo \cup picked \cup pending :
        p[3][2] = accountId'[p[2]] \/ <<p[2], p[3]>> \in carried'
  BY AccountKept
<1>1. ASSUME NEW s \in Sessions, NEW r \in Runners, GetRequests(r, s) PROVE Own'
  BY <1>0, <1>1, ListedIsOwn DEF Own
<1>2. ASSUME NEW s \in Sessions, NEW r \in Runners, NEW d \in Docs, ProcessOne(r, s, d)
      PROVE  Own'
  <2>1. (todo \cup picked \cup pending)' \subseteq todo \cup picked \cup pending
    BY <1>2, HandsShrink
  <2>. QED
    BY <1>0, <2>1 DEF Own
<1>3. ASSUME pending' \subseteq pending, todo' \subseteq todo, picked' \subseteq picked
      PROVE  Own'
  BY <1>0, <1>3 DEF Own
<1>. QED
  BY <1>1, <1>2, <1>3, HandSteps

-----------------------------------------------------------------------------
LEMMA ProvenanceKept ==
  ASSUME Inv, TypeOK, Identity, Provenance, [Next]_vars
  PROVE  Provenance'
<1>. USE DEF TypeOK, Provenance
<1>1. CASE UNCHANGED dvars
  BY <1>1 DEF dvars, trail
<1>2. CASE Restart
  BY <1>2 DEF Restart, trail
<1>3. ASSUME NEW s \in Sessions, NEW i \in Requests, NEW dsts \in SUBSET Accounts,
             PushRequest(s, i, dsts)
      PROVE  Provenance'
  <2> DEFINE new == {i} \X (dsts \ {accountId[s]})
  <2>1. /\ source[i] = NoAccount
        /\ source' = [source EXCEPT ![i] = accountId[s]]
        /\ pushing' = [pushing EXCEPT ![s] = new]
        /\ UNCHANGED <<store, confirmed, withdrawn, dropped, reported, pending, todo, picked>>
    BY <1>3 DEF PushRequest, trail
  <2>2. accountId[s] # NoAccount
    BY <1>3, IdAssumption DEF PushRequest, BeginHandler, Identity
  <2>3. \A d \in new : d[1] = i
    OBVIOUS
  <2>. HIDE DEF new
  <2>4. \A d \in Docs : d[1] \in Requests
    BY DEF Docs
  <2>5. \A d \in Docs : source[d[1]] # NoAccount => d \notin new /\ source'[d[1]] # NoAccount
    BY <2>1, <2>3, <2>4
  <2>6. \A d \in new : d \notin reported /\ source'[d[1]] # NoAccount
    BY <2>1, <2>2, <2>3, <2>5
  <2>7. \A t \in Sessions : t # s => pushing'[t] = pushing[t] /\ pushing[t] \cap new = {}
    BY <2>1, <2>5
  <2>8. pushing'[s] = new
    BY <2>1
  <2>. QED
    BY <2>1, <2>5, <2>6, <2>7, <2>8
<1>4. ASSUME NEW s \in Sessions, NEW d \in Docs, PushOne(s, d) PROVE Provenance'
  <2>1. CASE /\ d \in pushing[s]
             /\ \/ store' = store \cup {d} /\ dropped' = dropped
                \/ store' = store /\ dropped' = dropped \cup {d}
             /\ reported' = reported \cup {d}
             /\ pushing' = [pushing EXCEPT ![s] = pushing[s] \ {d}]
             /\ UNCHANGED <<source, confirmed, withdrawn, pending, todo, picked>>
    <3>1. \A t \in Sessions : pushing'[t] \subseteq pushing[t] /\ d \notin pushing'[t]
      BY <2>1
    <3>. QED
      BY <2>1, <3>1
  <2>2. CASE UNCHANGED <<store, dropped, reported, pushing, source, confirmed, withdrawn,
                         pending, todo, picked>>
    BY <2>2
  <2>. QED
    BY <1>4, <2>1, <2>2 DEF PushOne, AddRequest, trail
<1>5. ASSUME NEW s \in Sessions, NEW d \in Docs, DispatchRequest(s, d) PROVE Provenance'
  BY <1>5 DEF DispatchRequest
<1>6. ASSUME NEW s \in Sessions, NEW r \in Runners, GetRequests(r, s) PROVE Provenance'
  BY <1>6, ListedIsOwn DEF GetRequests
<1>7. ASSUME NEW s \in Sessions, NEW r \in Runners, NEW d \in Docs, ProcessOne(r, s, d)
      PROVE  Provenance'
  <2>1. (todo \cup picked \cup pending)' \subseteq todo \cup picked \cup pending
    BY <1>7, HandsShrink
  <2>. QED
    BY <1>7, <2>1 DEF ProcessOne
<1>8. ASSUME NEW s \in Sessions, NEW a \in Accounts, LoginServe(s, a) PROVE Provenance'
  BY <1>8 DEF LoginServe
<1>9. ASSUME NEW d \in Docs, ProcessUserRequests(d) PROVE Provenance'
  BY <1>9 DEF ProcessUserRequests, trail
<1>10. ASSUME NEW s \in Sessions, NEW r \in Runners, NEW d \in Docs,
              Confirm(r, s, d) \/ Refuse(r, s, d)
      PROVE  Provenance'
  BY <1>10 DEF Confirm, Refuse, Answered
<1>11. ASSUME NEW s \in Sessions, LoginBegin(s) PROVE Provenance'
  BY <1>11 DEF LoginBegin, trail
<1>. QED
  BY <1>1, <1>2, <1>3, <1>4, <1>5, <1>6, <1>7, <1>8, <1>9, <1>10, <1>11, StepShape DEF Shape

LEMMA OnceKept ==
  ASSUME TypeOK, Once, [Next]_vars
  PROVE  Once'
<1>1. ASSUME NEW s \in Sessions, NEW r \in Runners, NEW d \in Docs, ProcessOne(r, s, d)
      PROVE  Once'
  <2> DEFINE x == <<r, s, d>>
  <2>0. x[2] = s /\ x[3] = d
    OBVIOUS
  <2>1. CASE picked' = picked /\ pending' = pending /\ overlapped' = overlapped
    BY <2>1 DEF Once, PostedOnce, Clash
  <2>2. CASE /\ ~ RequestPending(s, d[1]) /\ picked' = picked \cup {x} /\ pending' = pending
             /\ overlapped' = IF \E p \in picked : p[2] = s /\ p[3][1] = d[1]
                              THEN overlapped \cup {<<s, d[1]>>} ELSE overlapped
    <3>1. \A p \in pending : ~ Clash(p, x)
      BY <2>0, <2>2 DEF RequestPending, Clash
    <3>2. \A p \in picked : Clash(p, x) => <<p[2], p[3][1]>> \in overlapped'
      BY <2>0, <2>2 DEF Clash
    <3>3. overlapped \subseteq overlapped'
      BY <2>2
    <3>4. \A p \in picked : Clash(x, p) => Clash(p, x) /\ x[2] = p[2] /\ x[3][1] = p[3][1]
      BY DEF Clash
    <3>. HIDE DEF x
    <3>. QED
      BY <2>2, <3>1, <3>2, <3>3, <3>4 DEF Once, PostedOnce, Clash
  <2>3. CASE /\ x \in picked /\ picked' = picked \ {x} /\ pending' = pending \cup {x}
             /\ overlapped' = overlapped
    <3>. HIDE DEF x
    <3>. QED
      BY <2>3 DEF Once, PostedOnce, Clash
  <2>. QED
    BY <1>1, <2>1, <2>2, <2>3, ProcessOneShape
<1>2. ASSUME picked' \subseteq picked, pending' \subseteq pending, overlapped' = overlapped
      PROVE  Once'
  BY <1>2 DEF Once, PostedOnce, Clash
<1>3. ASSUME NEW s \in Sessions, NEW r \in Runners, GetRequests(r, s) PROVE Once'
  BY <1>2, <1>3 DEF GetRequests
<1>. QED
  BY <1>1, <1>2, <1>3, HandSteps

-----------------------------------------------------------------------------
\* A document is the pair of its fields.
LEMMA DocPair == \A d \in Docs : d = <<d[1], d[2]>> /\ d[1] \in Requests /\ d[2] \in Accounts
BY DEF Docs

\* The callback deletes the document it was posted for, or nothing, or the
\* session took that document along from another account.
LEMMA ConfirmDeletes ==
  ASSUME TypeOK, Own, NEW r \in Runners, NEW s \in Sessions, NEW d \in Docs, Confirm(r, s, d)
  PROVE  \/ store' = store \ {d}
         \/ store' = store /\ <<s, d>> \in left'
         \/ <<s, d>> \in carried /\ store' = store \ {<<d[1], accountId[s]>>}
<1>1. d[2] = accountId[s] \/ <<s, d>> \in carried
  BY DEF Confirm, Answered, Own
<1>. QED
  BY <1>1, DocPair DEF Confirm

LEMMA NoLossKept ==
  ASSUME TypeOK, Own, NoLoss, [Next]_vars
  PROVE  NoLoss'
<1>0. carried \subseteq carried'
  BY CarrySteps
<1>1. ASSUME NEW d \in Docs, reported' \subseteq reported \cup {d},
             store \subseteq store', confirmed' = confirmed, withdrawn' = withdrawn,
             dropped \subseteq dropped', d \in store' \cup dropped'
      PROVE  NoLoss'
  BY <1>0, <1>1 DEF NoLoss
<1>2. ASSUME NEW s \in Sessions, NEW r \in Runners, NEW d \in Docs, Confirm(r, s, d)
      PROVE NoLoss'
  <2>1. /\ confirmed' = confirmed \cup {d} /\ carried' = carried
        /\ UNCHANGED <<reported, withdrawn, dropped>>
    BY <1>2 DEF Confirm, Answered
  <2>2. CASE store \ {d} \subseteq store'
    BY <2>1, <2>2 DEF NoLoss
  <2>3. CASE <<s, d>> \in carried /\ store' = store \ {<<d[1], accountId[s]>>}
    <3>. SUFFICES ASSUME NEW e \in reported,
                         e \notin store' \cup confirmed' \cup withdrawn \cup dropped
                  PROVE  \E t \in Sessions, a \in Accounts \ {e[2]} : <<t, <<e[1], a>>>> \in carried
      BY <2>1 DEF NoLoss
    <3>1. CASE e \in store
      <4>1. e = <<d[1], accountId[s]>> /\ e # d
        BY <2>1, <2>3, <3>1
      <4>2. d = <<e[1], d[2]>> /\ d[2] \in Accounts \ {e[2]}
        BY <4>1, DocPair
      <4>. QED
        BY <2>3, <4>2
    <3>2. CASE e \notin store
      BY <2>1, <3>2 DEF NoLoss
    <3>. QED
      BY <3>1, <3>2
  <2>. QED
    BY <1>2, <2>2, <2>3, ConfirmDeletes
<1>3. ASSUME NEW s \in Sessions, NEW d \in Docs, DispatchRequest(s, d) PROVE NoLoss'
  BY <1>3 DEF DispatchRequest, NoLoss
<1>4. ASSUME UNCHANGED <<reported, store, confirmed, withdrawn, dropped>> PROVE NoLoss'
  BY <1>0, <1>4 DEF NoLoss
<1>5. ASSUME NEW s \in Sessions, NEW d \in Docs, PushOne(s, d) PROVE NoLoss'
  BY <1>1, <1>4, <1>5 DEF PushOne, AddRequest, trail
<1>. QED
  BY <1>2, <1>3, <1>4, <1>5, MailSteps

-----------------------------------------------------------------------------
\* Document d is covered on session s: the matrix of Covered.
CoveredOn(d, s) ==
  \/ \E r \in Runners : <<r, s>> \in calls \/ <<r, s, d>> \in todo \cup picked \cup pending
  \/ d \in jobs \/ \E t \in Sessions : d \in inserted[t]
  \/ <<s, d>> \in left \cup unseen \/ Took(s, d[1])

\* Only the end of a login lists a session under an account.
LEMMA NewEntries ==
  ASSUME [Next]_vars, NEW s \in Sessions, NEW a \in Accounts,
         <<a, s>> \in registry', <<a, s>> \notin registry
  PROVE  LoginServe(s, a)
<1>1. registry' # registry
  OBVIOUS
<1>2. CASE RegistryStep
  <2>1. ASSUME NEW t \in Sessions, Start(t) PROVE FALSE
    BY <2>1, IdAssumption DEF Start
  <2>. QED
    BY <1>1, <1>2, <2>1
       DEF RegistryStep, Handshake, Close, ReadStops, Logout, RemoveSessions
<1>3. ASSUME NEW t \in Sessions, SessionHandler(t) PROVE LoginServe(s, a)
  <2>1. ASSUME NEW b \in Accounts, LoginServe(t, b) PROVE LoginServe(s, a)
    <3>1. registry' = registry \cup {<<b, t>>}
      BY <2>1 DEF LoginServe, LoginAppend
    <3>2. b = a /\ t = s
      BY <3>1
    <3>. QED
      BY <2>1, <3>2
  <2>. QED
    BY <1>1, <1>3, <2>1
       DEF SessionHandler, PushOne, PushEnd, EndHandler, LoginServed, LoginFinish,
           CloseRemove, LoginRemove, Removed, rvars
<1>4. ASSUME NEW t \in Sessions, NEW r \in Runners, Runner(r, t) \/ Answer(r, t) PROVE FALSE
  BY <1>1, <1>4
     DEF Runner, Answer, GetRequests, ProcessOne, Confirm, Refuse, Answered, rvars
<1>5. ASSUME NEW t \in Sessions, LoginBegin(t) PROVE FALSE
  BY <1>1, <1>5 DEF LoginBegin, Login
<1>. QED
  BY <1>1, <1>2, <1>3, <1>4, <1>5
     DEF Next, Restart, PushRequest, BeginHandler, DispatchRequest, ProcessUserRequests,
         rvars, vars

\* A session that is listed and covered stays covered.
LEMMA CoveredOnKept ==
  ASSUME Inv, TypeOK, Own, [Next]_vars, ~ Restart,
         NEW s \in Sessions, NEW d \in Docs, d \in store, d \in store',
         <<d[2], s>> \in registry, CoveredOn(d, s)
  PROVE  CoveredOn(d, s)'
<1>0. Took(s, d[1]) => Took(s, d[1])'
  BY CarrySteps DEF Took
<1>. USE <1>0 DEF CoveredOn
<1>1. ASSUME todo \subseteq todo', picked \subseteq picked', pending \subseteq pending',
             left \subseteq left', unseen \subseteq unseen',
             jobs \subseteq jobs', calls \subseteq calls', inserted' = inserted
      PROVE  CoveredOn(d, s)'
  BY <1>1
<1>2. ASSUME NEW t \in Sessions, NEW r \in Runners, NEW e \in Docs,
             Confirm(r, t, e) \/ Refuse(r, t, e)
      PROVE  CoveredOn(d, s)'
  <2>1. /\ pending' = pending \ {<<r, t, e>>} /\ left \subseteq left' /\ carried' = carried
        /\ UNCHANGED <<todo, picked, unseen, jobs, calls, inserted>>
    BY <1>2 DEF Confirm, Refuse, Answered
  <2>2. CASE t = s /\ e = d
    <3>1. <<s, d>> \in left' \/ <<s, d>> \in carried
      BY <1>2, <2>2, ConfirmDeletes DEF Refuse
    <3>2. <<s, d>> \in carried => Took(s, d[1])'
      BY <2>1 DEF Took
    <3>. QED
      BY <3>1, <3>2
  <2>3. CASE ~ (t = s /\ e = d)
    BY <2>1, <2>3
  <2>. QED
    BY <2>2, <2>3
<1>3. ASSUME NEW e \in Docs, ProcessUserRequests(e) PROVE CoveredOn(d, s)'
  <2>1. CASE d = e
    <3>1. s \in {t \in Sessions : <<e[2], t>> \in registry}
      BY <2>1
    <3>2. <<e, s>> \in calls' /\ e \in Runners
      BY <1>3, <3>1 DEF ProcessUserRequests, Runners
    <3>. QED
      BY <3>2
  <2>2. CASE d # e
    BY <1>3, <2>2 DEF ProcessUserRequests, trail
  <2>. QED
    BY <2>1, <2>2
<1>4. ASSUME NEW t \in Sessions, NEW r \in Runners, GetRequests(r, t) PROVE CoveredOn(d, s)'
  <2> DEFINE mine == {e \in store : e[2] = accountId[t]}
  <2>1. d[2] = accountId[s]
    BY DEF Inv, RegistryKeyed
  <2>2. PICK got \in SUBSET mine :
          /\ todo' = todo \cup {<<r, t, e>> : e \in got}
          /\ unseen' = (unseen \ {<<t, e>> : e \in got}) \cup {<<t, e>> : e \in mine \ got}
    BY <1>4 DEF GetRequests
  <2>3. t = s => d \in mine
    BY <2>1
  <2>. HIDE DEF mine
  <2>4. t = s => <<r, s, d>> \in todo' \/ <<s, d>> \in unseen'
    BY <2>2, <2>3
  <2>5. t # s /\ <<s, d>> \in unseen => <<s, d>> \in unseen'
    BY <2>2
  <2>6. /\ UNCHANGED <<picked, pending, left, jobs, inserted>> /\ todo \subseteq todo'
        /\ calls' = calls \ {<<r, t>>}
    BY <1>4 DEF GetRequests
  <2>. QED
    BY <2>4, <2>5, <2>6
<1>5. ASSUME NEW t \in Sessions, NEW r \in Runners, NEW e \in Docs, ProcessOne(r, t, e)
      PROVE  CoveredOn(d, s)'
  <2>0. UNCHANGED <<left, unseen, jobs, calls, inserted, carried>>
    BY <1>5, ProcessOneShape
  <2>1. CASE <<r, t, e>> \in (picked \cup pending)'
    <3>1. (todo \cup picked \cup pending) \subseteq (todo \cup picked \cup pending)'
      BY <1>5, <2>1, ProcessOneShape
    <3>. QED
      BY <2>0, <3>1
  <2>2. CASE <<r, t, e>> \notin (picked \cup pending)'
    <3>1. /\ <<r, t, e>> \in todo /\ todo' = todo \ {<<r, t, e>>} /\ RequestPending(t, e[1])
          /\ UNCHANGED <<picked, pending>>
      BY <1>5, <2>2, ProcessOneShape
    <3>2. PICK p \in pending : p[2] = t /\ p[3][1] = e[1]
      BY <3>1 DEF RequestPending
    <3>3. p \in Runners \X Sessions \X Docs /\ p = <<p[1], t, p[3]>>
      BY <3>2 DEF TypeOK
    <3>4. CASE p[3] = e
      BY <2>0, <3>1, <3>2, <3>3, <3>4
    <3>5. CASE p[3] # e
      <4>1. e[2] = accountId[t] \/ <<t, e>> \in carried
        BY <3>1 DEF Own
      <4>2. p[3][2] = accountId[t] \/ <<t, p[3]>> \in carried
        BY <3>2 DEF Own
      <4>3. e \in Docs /\ p[3] \in Docs /\ e[2] # p[3][2]
        BY <3>2, <3>3, <3>5, DocPair
      <4>4. Took(t, e[1])'
        BY <2>0, <3>2, <4>1, <4>2, <4>3 DEF Took
      <4>. QED
        BY <2>0, <3>1, <4>4
    <3>. QED
      BY <3>4, <3>5
  <2>. QED
    BY <2>1, <2>2
<1>6. CASE UNCHANGED dvars
  BY <1>1, <1>6 DEF dvars, trail
<1>7. ASSUME NEW t \in Sessions, NEW a \in Accounts, LoginServe(t, a) PROVE CoveredOn(d, s)'
  BY <1>1, <1>7 DEF LoginServe
<1>8. ASSUME NEW t \in Sessions, NEW i \in Requests, NEW dsts \in SUBSET Accounts,
             PushRequest(t, i, dsts)
      PROVE  CoveredOn(d, s)'
  BY <1>1, <1>8 DEF PushRequest, trail
<1>9. ASSUME NEW t \in Sessions, NEW e \in Docs, DispatchRequest(t, e) PROVE CoveredOn(d, s)'
  BY <1>1, <1>9 DEF DispatchRequest
<1>10. ASSUME NEW t \in Sessions, NEW e \in Docs, PushOne(t, e) PROVE CoveredOn(d, s)'
  <2>1. UNCHANGED <<todo, picked, pending, left, unseen, calls>>
    BY <1>10 DEF PushOne, AddRequest, trail
  <2>2. CASE inserted' = [inserted EXCEPT ![t] = @ \cup {e}] /\ jobs' = jobs
    BY <2>1, <2>2 DEF TypeOK
  <2>3. CASE inserted' = [inserted EXCEPT ![t] = @ \ {e}] /\ jobs' = jobs \cup {e}
    BY <2>1, <2>3 DEF TypeOK
  <2>. QED
    BY <1>10, <2>2, <2>3 DEF PushOne
<1>11. ASSUME NEW t \in Sessions, LoginBegin(t) PROVE CoveredOn(d, s)'
  BY <1>1, <1>11 DEF LoginBegin, trail
<1>. HIDE DEF CoveredOn
<1>. QED
  BY <1>2, <1>3, <1>4, <1>5, <1>6, <1>7, <1>8, <1>9, <1>10, <1>11, StepShape DEF Shape

LEMMA CoveredKept ==
  ASSUME DInv, [Next]_vars
  PROVE  Covered'
<1>. SUFFICES ASSUME NEW d \in store', NEW s \in Sessions, <<d[2], s>> \in registry'
              PROVE  CoveredOn(d, s)'
  BY DEF Covered, CoveredOn
<1>1. d \in Docs
  BY TypeKept DEF DInv, TypeOK
<1>2. ~ Restart
  BY DEF Restart
<1>3. CASE d \notin store
  <2>1. PICK t \in Sessions, e \in Docs : PushOne(t, e) /\ AddRequest(e)
    BY <1>3, MailSteps DEF PushOne, DispatchRequest, Confirm
  <2>2. d = e
    BY <1>3, <2>1 DEF AddRequest
  <2>3. d \in inserted'[t]
    BY <1>3, <2>1, <2>2 DEF PushOne, DInv, TypeOK
  <2>. QED
    BY <2>3 DEF CoveredOn
<1>4. CASE <<d[2], s>> \notin registry
  <2>1. LoginServe(s, d[2])
    BY <1>1, <1>4, NewEntries, DocPair
  <2>. QED
    BY <2>1 DEF LoginServe, CoveredOn, Runners
<1>5. CASE d \in store /\ <<d[2], s>> \in registry
  <2>1. CoveredOn(d, s)
    BY <1>5 DEF DInv, Covered, CoveredOn
  <2>. QED
    BY <1>1, <1>2, <1>5, <2>1, CoveredOnKept DEF DInv
<1>. QED
  BY <1>3, <1>4, <1>5

-----------------------------------------------------------------------------
LEMMA DInit == Init => DInv
<1>. SUFFICES ASSUME Init PROVE DInv
  OBVIOUS
<1>1. Inv
  BY RegistryInvInit DEF Init
<1>2. TypeOK
  <2>1. /\ store \subseteq Docs /\ reported = store
        /\ confirmed = {} /\ withdrawn = {} /\ dropped = {} /\ jobs = {} /\ calls = {} /\ todo = {}
        /\ picked = {} /\ pending = {} /\ left = {} /\ unseen = {} /\ carried = {}
        /\ overlapped = {} /\ logins = 0 /\ faults = 0
    BY DEF Init
  <2>2. /\ source \in [Requests -> Accounts \cup {NoAccount}]
        /\ pushing \in [Sessions -> SUBSET Docs] /\ inserted \in [Sessions -> SUBSET Docs]
    BY DEF Init
  <2>. QED
    BY <1>1, <2>1, <2>2, DeliveryAssumption DEF TypeOK, Inv
<1>3. Identity
  BY DEF Init, RegistryInit, Identity, Disconnected, LoggedIn
<1>4. Own /\ Provenance /\ Once /\ NoLoss
  <2>1. \A d \in store : source[d[1]] # NoAccount
    BY DEF Init
  <2>. QED
    BY <2>1 DEF Init, Own, Provenance, Once, PostedOnce, NoLoss
<1>5. Covered
  BY DEF Init, RegistryInit, Covered
<1>. QED
  BY <1>1, <1>2, <1>3, <1>4, <1>5 DEF DInv

LEMMA DStep == DInv /\ [Next]_vars => DInv'
<1>. SUFFICES ASSUME DInv, [Next]_vars PROVE DInv'
  OBVIOUS
<1>1. Inv' /\ Identity' /\ TypeOK'
  BY RegistryInvKept, IdentityKept, TypeKept DEF DInv
<1>2. Own' /\ Once'
  BY OwnKept, OnceKept DEF DInv
<1>3. Provenance' /\ NoLoss' /\ Covered'
  BY ProvenanceKept, NoLossKept, CoveredKept DEF DInv
<1>. QED
  BY <1>1, <1>2, <1>3 DEF DInv

LEMMA DInvAlways == Spec => []DInv
BY DInit, DStep, PTL DEF Spec

\* Every variable of the store-and-forward path keeps its type.
THEOREM DeliveryTypeCorrect == Spec => []TypeOK
<1>1. DInv => TypeOK
  BY DEF DInv
<1>. QED
  BY <1>1, DInvAlways, PTL

\* The registry's guarantees survive its composition with store and forward and
\* every crash, however clients use their connections.
THEOREM DeliveryRegistryConsistent == Spec => [](RegistryKeyed /\ Findable /\ NoGhost)
<1>1. Init => Inv
  BY RegistryInvInit DEF Init
<1>2. Inv => RegistryKeyed /\ Findable /\ NoGhost
  BY DEF Inv
<1>. QED
  BY <1>1, <1>2, RegistryInvKept, PTL DEF Spec

\* A message processPushRequest reported as stored is in the store until it is
\* confirmed or withdrawn, over any number of devices, logins, account changes,
\* failing calls and restarts, but for a failed insert and for a session that
\* took another recipient's copy along to this account.
THEOREM DeliveryKeepsMessages == Spec => []NoLoss
<1>1. DInv => NoLoss
  BY DEF DInv
<1>. QED
  BY <1>1, DInvAlways, PTL

\* Without a lock around requestPending and postRequest, a session is posted an
\* id twice only when two runners of processRequests overlapped on it.
THEOREM DeliveryPostsOnce == Spec => []PostedOnce
<1>1. DInv => PostedOnce
  BY DEF DInv, Once
<1>. QED
  BY <1>1, DInvAlways, PTL

\* What is posted on a session, or listed for it, is of the account the session
\* has, or was there when the session logged in to another account: the late
\* accountId() of the callback can go wrong in no other way.
THEOREM DeliveryOwnMail == Spec => []Own
<1>1. DInv => Own
  BY DEF DInv
<1>. QED
  BY <1>1, DInvAlways, PTL

\* Whatever the order of push, login and answer, a stored message of a listed
\* session is posted there or still to be looked at, but for a query that threw,
\* an answer that left it stored, and a copy taken along from another account.
THEOREM DeliveryCovers == Spec => []Covered
<1>1. DInv => Covered
  BY DEF DInv
<1>. QED
  BY <1>1, DInvAlways, PTL

\* Delivery implements Mailbox.
THEOREM DeliveryKeepsMail == Spec => KeepsMail
<1>. DEFINE tk == {d \in Docs : \E s \in Sessions : <<s, d>> \in carried}
<1>1. Init => Box!Init
  BY DEF Init, Box!Init, Box!Docs, Docs
<1>2. DInv /\ [Next]_vars => [Box!Next]_Box!mail
  <2>. SUFFICES ASSUME DInv, [Next]_vars PROVE [Box!Next]_Box!mail
    OBVIOUS
  <2>0. Box!Docs = Docs
    BY DEF Box!Docs, Docs
  <2>1. ASSUME NEW s \in Sessions, NEW d \in Docs, PushOne(s, d)
        PROVE  Box!Put(d) \/ UNCHANGED Box!mail
    <3>1. CASE d \in pushing[s] /\ AddRequest(d) /\ UNCHANGED <<confirmed, withdrawn, carried>>
      <4>1. d \notin reported /\ dropped \subseteq reported
        BY <3>1 DEF DInv, Provenance
      <4>2. tk' = tk
        BY <3>1
      <4>3. CASE store' = store \cup {d} /\ dropped' = dropped
        <5>1. (reported \ dropped)' = (reported \ dropped) \cup {d} /\ d \notin reported \ dropped
          BY <3>1, <4>1, <4>3 DEF AddRequest
        <5>. QED
          BY <3>1, <4>2, <4>3, <5>1 DEF Box!Put
      <4>4. CASE dropped' = dropped \cup {d} /\ store' = store
        <5>1. (reported \ dropped)' = reported \ dropped
          BY <3>1, <4>1, <4>4 DEF AddRequest
        <5>. QED
          BY <3>1, <4>2, <4>4, <5>1 DEF Box!mail
      <4>. QED
        BY <3>1, <4>3, <4>4 DEF AddRequest
    <3>2. CASE UNCHANGED <<store, trail>>
      BY <3>2 DEF Box!mail, trail
    <3>. QED
      BY <2>1, <3>1, <3>2 DEF PushOne, AddRequest
  <2>2. ASSUME NEW s \in Sessions, NEW r \in Runners, NEW d \in Docs, Confirm(r, s, d)
        PROVE  Box!Confirm(d)
    <3>1. d \in reported \ dropped
      BY <2>2 DEF Confirm, Answered, DInv, Provenance
    <3>2. /\ confirmed' = confirmed \cup {d} /\ carried' = carried
          /\ UNCHANGED <<reported, dropped, withdrawn>>
      BY <2>2 DEF Confirm, Answered
    <3>3. \/ store' \in {store, store \ {d}}
          \/ d \in tk /\ \E a \in Accounts : store' = store \ {<<d[1], a>>}
      <4>1. CASE <<s, d>> \in carried /\ store' = store \ {<<d[1], accountId[s]>>}
        <5>1. CASE accountId[s] \in Accounts
          BY <4>1, <5>1
        <5>2. CASE accountId[s] \notin Accounts
          <6>1. <<d[1], accountId[s]>> \notin store
            BY <5>2 DEF DInv, TypeOK, Docs
          <6>. QED
            BY <4>1, <6>1
        <5>. QED
          BY <5>1, <5>2
      <4>. QED
        BY <2>2, <4>1, ConfirmDeletes DEF DInv
    <3>. QED
      BY <3>1, <3>2, <3>3 DEF Box!Confirm
  <2>3. ASSUME NEW s \in Sessions, NEW d \in Docs, DispatchRequest(s, d) PROVE Box!Withdraw(d)
    BY <2>3 DEF DispatchRequest, Box!Withdraw
  <2>4. ASSUME NEW s \in Sessions, NEW a \in Accounts, LoginServe(s, a),
               NEW D \in SUBSET Docs, D = InHand(s)
        PROVE  UNCHANGED Box!mail \/ Box!Take(D)
    <3>1. /\ UNCHANGED <<store, reported, dropped, confirmed, withdrawn>>
          /\ carried' = carried \/ carried' = carried \cup ({s} \X D)
      BY <2>4 DEF LoginServe
    <3>2. D \subseteq reported \ dropped
      BY <2>4 DEF InHand, DInv, Provenance
    <3>3. CASE carried' = carried
      BY <3>1, <3>3 DEF Box!mail
    <3>4. CASE carried' = carried \cup ({s} \X D)
      <4>1. tk' = tk \cup D
        BY <3>4
      <4>. QED
        BY <3>1, <3>2, <4>1 DEF Box!Take
    <3>. QED
      BY <3>1, <3>3, <3>4
  <2>5. ASSUME UNCHANGED <<store, reported, dropped, confirmed, withdrawn, carried>>
        PROVE  UNCHANGED Box!mail
    BY <2>5 DEF Box!mail
  <2>6. \A s \in Sessions : InHand(s) \in SUBSET Docs
    BY DEF InHand
  <2>. HIDE DEF DInv
  <2>7. CASE \E s \in Sessions, d \in Docs : PushOne(s, d) \/ DispatchRequest(s, d)
    BY <2>0, <2>1, <2>3, <2>7 DEF Box!Next
  <2>8. CASE \E s \in Sessions, r \in Runners, d \in Docs : Confirm(r, s, d)
    BY <2>0, <2>2, <2>8 DEF Box!Next
  <2>9. CASE UNCHANGED <<store, reported, confirmed, withdrawn, dropped>>
    <3>1. CASE carried' = carried
      BY <2>5, <2>9, <3>1
    <3>2. ASSUME NEW s \in Sessions, NEW a \in Accounts, LoginServe(s, a)
          PROVE  [Box!Next]_Box!mail
      <4>1. PICK D \in SUBSET Docs : D = InHand(s)
        BY <2>6
      <4>2. UNCHANGED Box!mail \/ Box!Take(D)
        BY <2>4, <3>2, <4>1
      <4>. QED
        BY <2>0, <4>2 DEF Box!Next
    <3>. QED
      BY <3>1, <3>2, CarrySteps
  <2>. QED
    BY <2>7, <2>8, <2>9, MailSteps
<1>. QED
  BY <1>1, <1>2, DInvAlways, PTL DEF Spec, KeepsMail, Box!Spec
=============================================================================
