--------------------------- MODULE PresenceProofs ---------------------------
(***************************************************************************)
(* Proofs about Presence, for any sessions, accounts and configurations:   *)
(* two clients that come online at once do not miss each other, and a      *)
(* push token names a device that is logged in to its account.             *)
(***************************************************************************)
EXTENDS Presence, TLAPS

\* A session that has not begun is blank, and whoever is logged in or in a loop
\* has an account's id.
Identity ==
  \A s \in Sessions :
    /\ sock[s] = "none" =>
         pc[s] = "none" /\ status[s] = Disconnected /\ announced[s] = {} /\ asked[s] = {}
    /\ status[s] = LoggedIn =>
         pc[s] \in {"loginRemove", "loginAppend"} \/ accountId[s] \in Accounts
    /\ stage[s] # "none" => accountId[s] \in Accounts

\* A session is logged in from the first step of processLogin on, and no token
\* leads to one that is about to change its id.
Tokens ==
  \A s \in Sessions :
    /\ pc[s] \in {"loginRemove", "loginAppend", "serve"} /\ sock[s] = "open" =>
         status[s] = LoggedIn
    /\ /\ pc[s] \in {"none", "handshake", "loginRemove", "loginAppend"}
       /\ ~unsaved /\ sock[s] # "closed"
       => \A a \in Accounts : token[a] # s

\* What a session announces, getContactStatus confirms to whoever asks.
Announced ==
  \A s \in Sessions : (announced[s] # {} => notify[s]) /\ (say[s] => notify[s])

Listed(s) == <<accountId[s], s>> \in registry

\* In the middle of a query, whoever has announced itself to t and was visited
\* by the loop is known to t or will be with the reply.
Visited ==
  \A s, t \in Sessions :
    /\ Listed(s) /\ Listed(t) /\ stage[t] = "query" /\ accountId[t] \in announced[s]
    /\ accountId[s] \in contacts[t] \ todo[t]
    => accountId[s] \in told[t] \cup answers[t]

\* The inductive invariant.
Inv ==
  /\ TypeOK /\ Identity /\ Tokens /\ TokenOfUser
  /\ Announced /\ Visited /\ Introduced

-----------------------------------------------------------------------------
Stages == {"none", "config", "announce", "query", "reply"}

\* TypeOK without the tie between a loop and its handler.
Typed ==
  /\ notify \in [Sessions -> BOOLEAN] /\ say \in [Sessions -> BOOLEAN]
  /\ contacts \in [Sessions -> SUBSET Accounts] /\ tell \in [Sessions -> SUBSET Accounts]
  /\ todo \in [Sessions -> SUBSET Accounts] /\ answers \in [Sessions -> SUBSET Accounts]
  /\ announced \in [Sessions -> SUBSET Accounts] /\ asked \in [Sessions -> SUBSET Accounts]
  /\ told \in [Sessions -> SUBSET Accounts]
  /\ token \in [Accounts -> Sessions \cup {NoToken}]
  /\ stage \in [Sessions -> Stages]
  /\ unsaved \in BOOLEAN

InHandler == \A s \in Sessions : stage[s] # "none" <=> pc[s] \in {"serve", "busy"}

LEMMA TypeParts == TypeOK <=> RegistryTypeOK /\ Typed /\ InHandler
BY DEF TypeOK, Typed, InHandler, Stages

\* setConfig, session by session.
LEMMA SetConfigFacts ==
  ASSUME Typed, NEW s \in Sessions, NEW c \in Configs, NEW l \in {"query", "reply"},
         NEW visits \in SUBSET Accounts, SetConfig(s, c, l, visits)
  PROVE  /\ Typed' /\ UNCHANGED <<answers, asked, told, unsaved>>
         /\ \A t \in Sessions \ {s} :
              /\ contacts'[t] = contacts[t] /\ notify'[t] = notify[t] /\ say'[t] = say[t]
              /\ announced'[t] = announced[t] /\ stage'[t] = stage[t] /\ todo'[t] = todo[t]
         /\ announced'[s] \subseteq announced[s]
         /\ announced'[s] # {} => notify'[s]
         /\ say'[s] => notify'[s]
         /\ stage'[s] \in {"announce", l}
         /\ stage'[s] = "query" => todo'[s] = visits
         /\ contacts'[s] = (IF c.hasContacts THEN c.contacts ELSE contacts[s])
         /\ \A a \in Accounts : token'[a] = token[a] \/ (a = accountId[s] /\ token'[a] = s)
<1>. USE PresenceAssumption
<1>1. /\ c.contacts \in SUBSET Accounts /\ c.tell \in SUBSET Accounts /\ c.notify \in BOOLEAN
  OBVIOUS
<1>2. /\ contacts' = [contacts EXCEPT ![s] = IF c.hasContacts THEN c.contacts ELSE contacts[s]]
      /\ tell' = [tell EXCEPT ![s] = IF c.hasContacts THEN c.tell ELSE tell[s]]
      /\ token' \in {token, [token EXCEPT
                               ![accountId[s]] = IF c.hasToken THEN s ELSE token[accountId[s]]]}
      /\ notify' = [notify EXCEPT ![s] = c.notify]
      /\ say' = [say EXCEPT ![s] = c.notify /\ ~notify[s]]
      /\ announced' = [announced EXCEPT ![s] = IF c.notify THEN announced[s] ELSE {}]
      /\ \/ stage' = [stage EXCEPT ![s] = "announce"] /\ todo' = [todo EXCEPT ![s] = tell'[s]]
         \/ stage' = [stage EXCEPT ![s] = l] /\ todo' = [todo EXCEPT ![s] = visits]
      /\ UNCHANGED <<answers, asked, told, unsaved>>
  BY DEF SetConfig, Enter
<1>3. /\ contacts' \in [Sessions -> SUBSET Accounts] /\ tell' \in [Sessions -> SUBSET Accounts]
      /\ announced' \in [Sessions -> SUBSET Accounts]
  BY <1>1, <1>2 DEF Typed
<1>4. token' \in [Accounts -> Sessions \cup {NoToken}]
  BY <1>2 DEF Typed
<1>5. notify' \in [Sessions -> BOOLEAN] /\ say' \in [Sessions -> BOOLEAN]
  BY <1>1, <1>2 DEF Typed
<1>6. tell'[s] \in SUBSET Accounts
  BY <1>3
<1>7. stage' \in [Sessions -> Stages] /\ todo' \in [Sessions -> SUBSET Accounts]
  BY <1>2, <1>6 DEF Typed, Stages
<1>8. Typed'
  BY <1>2, <1>3, <1>4, <1>5, <1>7 DEF Typed
<1>9. \A t \in Sessions \ {s} :
        /\ contacts'[t] = contacts[t] /\ notify'[t] = notify[t] /\ say'[t] = say[t]
        /\ announced'[t] = announced[t] /\ stage'[t] = stage[t] /\ todo'[t] = todo[t]
  BY <1>2 DEF Typed
<1>10. /\ announced'[s] \subseteq announced[s] /\ (announced'[s] # {} => c.notify)
       /\ contacts'[s] = (IF c.hasContacts THEN c.contacts ELSE contacts[s])
  BY <1>2 DEF Typed
<1>11. notify'[s] = c.notify /\ say'[s] = (c.notify /\ ~notify[s])
  BY <1>2 DEF Typed
<1>12. stage'[s] \in {"announce", l} /\ (stage'[s] = "query" => todo'[s] = visits)
  BY <1>2 DEF Typed
<1>13. \A a \in Accounts : token'[a] = token[a] \/ (a = accountId[s] /\ token'[a] = s)
  BY <1>2 DEF Typed
<1>. QED
  BY <1>2, <1>8, <1>9, <1>10, <1>11, <1>12, <1>13

\* The actions of SessionRegistry keep its types.
LEMMA RegistryTyped ==
  ASSUME RegistryTypeOK, NEW s \in Sessions,
         \/ Start(s) \/ Handshake(s) \/ Close(s) \/ ReadStops(s) \/ Login(s) \/ Logout(s)
         \/ BeginHandler(s) \/ Handler(s) \/ RemoveSessions
  PROVE  RegistryTypeOK'
<1>. USE DEF RegistryTypeOK, Goto, SetStatus, Labels, Ids
<1>1. CASE Start(s) \/ LoginRemove(s) \/ CloseRemove(s)
  BY <1>1 DEF Start, LoginRemove, CloseRemove, Removed
<1>2. CASE Handshake(s) \/ Logout(s) \/ LoginFinish(s) \/ EndHandler(s)
  BY <1>2 DEF Handshake, Logout, LoginFinish, EndHandler, RecvPacket
<1>3. CASE Close(s) \/ ReadStops(s) \/ Login(s) \/ BeginHandler(s)
  BY <1>3 DEF Close, ReadStops, Login, BeginHandler
<1>4. ASSUME NEW a \in Accounts, LoginAppend(s, a) PROVE RegistryTypeOK'
  BY <1>4 DEF LoginAppend
<1>5. CASE RemoveSessions
  BY <1>5 DEF RemoveSessions
<1>. QED
  BY <1>1, <1>2, <1>3, <1>4, <1>5 DEF Handler
\* What a step may be: the case split of the lemmas below.
LEMMA StepCases ==
  ASSUME [Next]_vars
  PROVE  \/ RegistryStep \/ UNCHANGED vars
         \/ \E s \in Sessions :
              \/ ConfigRequest(s) \/ ContactStatusRequest(s) \/ LogoutRequest(s)
              \/ Leave(s) \/ (LoginRemove(s) /\ UNCHANGED pvars)
              \/ (\E a \in Accounts : LoginListed(s, a)) \/ LoginConfig(s)
              \/ (\E b \in Accounts : Announce(s, b) \/ Query(s, b))
              \/ AnnounceEnd(s) \/ QueryEnd(s) \/ HandlerEnd(s)
BY DEF Next, SessionHandler

LEMMA RegistryTypeKept == RegistryTypeOK /\ [Next]_vars => RegistryTypeOK'
<1>. SUFFICES ASSUME RegistryTypeOK, [Next]_vars PROVE RegistryTypeOK'
  OBVIOUS
<1>1. CASE UNCHANGED rvars
  BY <1>1 DEF rvars, RegistryTypeOK
<1>2. CASE RegistryStep
  <2>1. CASE RemoveSessions
    <3>1. Sessions # {}
      BY <2>1 DEF RemoveSessions
    <3>. QED
      BY <2>1, <3>1, RegistryTyped
  <2>. QED
    BY <1>2, <2>1, RegistryTyped DEF RegistryStep
<1>3. ASSUME NEW s \in Sessions,
             \/ ConfigRequest(s) \/ ContactStatusRequest(s) \/ LogoutRequest(s)
             \/ Leave(s) \/ LoginRemove(s) \/ QueryEnd(s) \/ HandlerEnd(s)
      PROVE  RegistryTypeOK'
  BY <1>3, RegistryTyped
     DEF ConfigRequest, ContactStatusRequest, LogoutRequest, Leave, QueryEnd, HandlerEnd, Handler
<1>4. ASSUME NEW s \in Sessions, NEW a \in Accounts, LoginListed(s, a) PROVE RegistryTypeOK'
  BY <1>4, RegistryTyped DEF LoginListed, Handler
<1>. QED
  BY <1>1, <1>2, <1>3, <1>4, StepCases
     DEF LoginConfig, Announce, AnnounceEnd, Query, vars

LEMMA TypedKept ==
  ASSUME TypeOK, Identity, [Next]_vars
  PROVE  Typed'
<1>0. RegistryTypeOK /\ Typed /\ InHandler
  BY TypeParts
<1>. USE <1>0
<1>1. CASE UNCHANGED pvars
  BY <1>1 DEF pvars, Typed
<1>2. ASSUME NEW s \in Sessions, ConfigRequest(s) PROVE Typed'
  <2>1. PICK c \in Configs : SetConfig(s, c, "reply", {})
    BY <1>2 DEF ConfigRequest
  <2>. QED
    BY <2>1, SetConfigFacts
<1>3. ASSUME NEW s \in Sessions, LoginConfig(s) PROVE Typed'
  <2>1. ASSUME NEW c \in Configs,
               SetConfig(s, c, "query", IF c.hasContacts THEN c.contacts ELSE contacts[s])
        PROVE  Typed'
    <3>1. (IF c.hasContacts THEN c.contacts ELSE contacts[s]) \in SUBSET Accounts
      BY PresenceAssumption DEF Typed
    <3>. QED
      BY <2>1, <3>1, SetConfigFacts
  <2>2. CASE /\ Enter(s, "query", contacts[s])
             /\ UNCHANGED <<notify, contacts, tell, token, say, answers, announced, asked,
                            told, unsaved>>
    BY <2>2 DEF Enter, Typed, Stages
  <2>. QED
    BY <1>3, <2>1, <2>2 DEF LoginConfig
<1>4. ASSUME NEW s \in Sessions, Leave(s) \/ (\E a \in Accounts : LoginListed(s, a)) PROVE Typed'
  BY <1>4 DEF Leave, LoginListed, Forget, Enter, Typed, Stages
<1>5. ASSUME NEW s \in Sessions, ContactStatusRequest(s) PROVE Typed'
  BY <1>5 DEF ContactStatusRequest, Enter, Typed, Stages
<1>6. ASSUME NEW s \in Sessions, LogoutRequest(s) PROVE Typed'
  <2>1. /\ say' = [say EXCEPT ![s] = FALSE] /\ announced' = [announced EXCEPT ![s] = {}]
        /\ \/ stage' = [stage EXCEPT ![s] = "announce"] /\ todo' = [todo EXCEPT ![s] = tell[s]]
           \/ stage' = [stage EXCEPT ![s] = "reply"] /\ todo' = [todo EXCEPT ![s] = {}]
        /\ \/ token' = [token EXCEPT ![accountId[s]] = NoToken] /\ unsaved' = unsaved
           \/ token' = token /\ unsaved' = TRUE
        /\ UNCHANGED <<notify, contacts, tell, answers, asked, told>>
    BY <1>6 DEF LogoutRequest, Enter
  <2>2. say' \in [Sessions -> BOOLEAN] /\ notify' \in [Sessions -> BOOLEAN] /\ unsaved' \in BOOLEAN
    BY <2>1 DEF Typed
  <2>3. token' \in [Accounts -> Sessions \cup {NoToken}]
    BY <2>1 DEF Typed
  <2>4. stage' \in [Sessions -> Stages] /\ todo' \in [Sessions -> SUBSET Accounts]
    BY <2>1 DEF Typed, Stages
  <2>5. announced' \in [Sessions -> SUBSET Accounts]
    BY <2>1 DEF Typed
  <2>. QED
    BY <2>1, <2>2, <2>3, <2>4, <2>5 DEF Typed
<1>7. ASSUME NEW s \in Sessions, NEW b \in Accounts, Announce(s, b) PROVE Typed'
  <2>1. accountId[s] \in Accounts
    BY <1>7 DEF Announce, Identity
  <2>2. told' \in [Sessions -> SUBSET Accounts]
    BY <1>7, <2>1 DEF Announce, Typed
  <2>3. announced' \in [Sessions -> SUBSET Accounts] /\ todo' \in [Sessions -> SUBSET Accounts]
    BY <1>7 DEF Announce, Typed
  <2>. QED
    BY <1>7, <2>2, <2>3 DEF Announce, Typed
<1>8. ASSUME NEW s \in Sessions, NEW b \in Accounts, Query(s, b) PROVE Typed'
  BY <1>8 DEF Query, Typed
<1>9. ASSUME NEW s \in Sessions, AnnounceEnd(s) PROVE Typed'
  BY <1>9 DEF AnnounceEnd, Enter, Typed, Stages
<1>10. ASSUME NEW s \in Sessions, QueryEnd(s) PROVE Typed'
  BY <1>10 DEF QueryEnd, Typed, Stages
<1>11. ASSUME NEW s \in Sessions, HandlerEnd(s) PROVE Typed'
  BY <1>11 DEF HandlerEnd, Typed, Stages
<1>. QED
  BY <1>1, <1>2, <1>3, <1>4, <1>5, <1>6, <1>7, <1>8, <1>9, <1>10, <1>11, StepCases
     DEF RegistryStep, vars
\* The two steps that set the config, session by session: the one of a login
\* and the one of processConfigRequest.
LEMMA ConfigFacts ==
  ASSUME RegistryTypeOK, Typed, NEW s \in Sessions, LoginConfig(s) \/ ConfigRequest(s)
  PROVE  /\ UNCHANGED <<answers, asked, told, unsaved, sock, status, accountId, registry, swept>>
         /\ \A t \in Sessions \ {s} :
              /\ contacts'[t] = contacts[t] /\ notify'[t] = notify[t] /\ say'[t] = say[t]
              /\ announced'[t] = announced[t] /\ stage'[t] = stage[t] /\ todo'[t] = todo[t]
              /\ pc'[t] = pc[t]
         /\ announced'[s] \subseteq announced[s]
         /\ (announced[s] # {} => notify[s]) => (announced'[s] # {} => notify'[s])
         /\ (say[s] => notify[s]) => (say'[s] => notify'[s])
         /\ stage'[s] \in {"announce", "query", "reply"}
         /\ stage'[s] = "query" => todo'[s] = contacts'[s]
         /\ \A a \in Accounts : token'[a] = token[a] \/ (a = accountId[s] /\ token'[a] = s)
         /\ pc'[s] = (IF pc[s] = "read" THEN "busy" ELSE "serve")
         /\ pc[s] \in {"read", "serve"}
         /\ pc[s] = "read" => status[s] = LoggedIn
         /\ pc[s] = "serve" => stage[s] = "config"
<1>1. CASE ConfigRequest(s)
  <2>1. PICK c \in Configs : SetConfig(s, c, "reply", {})
    BY <1>1 DEF ConfigRequest
  <2>2. /\ pc[s] = "read" /\ status[s] = LoggedIn /\ pc' = [pc EXCEPT ![s] = "busy"]
        /\ UNCHANGED <<sock, status, accountId, registry, swept>>
    BY <1>1 DEF ConfigRequest, BeginHandler, Goto
  <2>3. pc'[s] = "busy" /\ \A t \in Sessions \ {s} : pc'[t] = pc[t]
    BY <2>2 DEF RegistryTypeOK
  <2>4. stage'[s] \in {"announce", "reply"}
    BY <2>1, SetConfigFacts
  <2>. QED
    BY <2>1, <2>2, <2>3, <2>4, SetConfigFacts
<1>2. CASE LoginConfig(s)
  <2>1. /\ pc[s] = "serve" /\ stage[s] = "config"
        /\ UNCHANGED <<sock, status, accountId, registry, swept, pc>>
    BY <1>2 DEF LoginConfig, rvars
  <2>2. CASE \E c \in Configs :
               SetConfig(s, c, "query", IF c.hasContacts THEN c.contacts ELSE contacts[s])
    <3>1. PICK c \in Configs :
            SetConfig(s, c, "query", IF c.hasContacts THEN c.contacts ELSE contacts[s])
      BY <2>2
    <3>2. (IF c.hasContacts THEN c.contacts ELSE contacts[s]) \in SUBSET Accounts
      BY PresenceAssumption DEF Typed
    <3>. QED
      BY <2>1, <3>1, <3>2, SetConfigFacts
  <2>3. CASE /\ Enter(s, "query", contacts[s])
             /\ UNCHANGED <<notify, contacts, tell, token, say, answers, announced, asked,
                            told, unsaved>>
    <3>1. /\ stage'[s] = "query" /\ todo'[s] = contacts[s]
          /\ \A t \in Sessions \ {s} : stage'[t] = stage[t] /\ todo'[t] = todo[t]
      BY <2>3 DEF Enter, Typed
    <3>. QED
      BY <2>1, <2>3, <3>1
  <2>. QED
    BY <1>2, <2>2, <2>3 DEF LoginConfig
<1>. QED
  BY <1>1, <1>2

LEMMA InHandlerKept == TypeOK /\ Identity /\ [Next]_vars => InHandler'
<1>. SUFFICES ASSUME TypeOK, Identity, [Next]_vars PROVE InHandler'
  OBVIOUS
<1>0. RegistryTypeOK /\ Typed /\ InHandler
  BY TypeParts
<1>. USE <1>0 DEF RegistryTypeOK, Typed, InHandler, Goto, RecvPacket
<1>1. CASE UNCHANGED vars
  BY <1>1 DEF vars, rvars, pvars
<1>2. CASE RegistryStep
  <2>1. stage' = stage
    BY <1>2 DEF RegistryStep, pvars
  <2>2. ASSUME NEW s \in Sessions, Handshake(s) \/ Close(s) \/ ReadStops(s) \/ Login(s)
        PROVE  InHandler'
    BY <2>1, <2>2 DEF Handshake, Close, ReadStops, Login
  <2>3. ASSUME NEW s \in Sessions, Start(s) PROVE InHandler'
    BY <2>1, <2>3 DEF Start, Identity
  <2>. QED
    BY <1>2, <2>1, <2>2, <2>3 DEF RegistryStep, RemoveSessions
<1>3. ASSUME NEW s \in Sessions, LoginConfig(s) \/ ConfigRequest(s) PROVE InHandler'
  BY <1>3, ConfigFacts
<1>4. ASSUME NEW s \in Sessions, Leave(s) \/ (LoginRemove(s) /\ UNCHANGED pvars) PROVE InHandler'
  BY <1>4 DEF Leave, CloseRemove, LoginRemove, pvars
<1>5. ASSUME NEW s \in Sessions, NEW a \in Accounts, LoginListed(s, a) PROVE InHandler'
  BY <1>5 DEF LoginListed, LoginAppend, Enter
<1>6. ASSUME NEW s \in Sessions, ContactStatusRequest(s) PROVE InHandler'
  BY <1>6 DEF ContactStatusRequest, BeginHandler, Enter
<1>7. ASSUME NEW s \in Sessions, LogoutRequest(s) PROVE InHandler'
  <2>1. /\ pc[s] = "read" /\ pc' = [pc EXCEPT ![s] = "busy"]
        /\ \/ stage' = [stage EXCEPT ![s] = "announce"]
           \/ stage' = [stage EXCEPT ![s] = "reply"]
    BY <1>7 DEF LogoutRequest, Logout, Enter
  <2>. QED
    BY <2>1
<1>8. ASSUME NEW s \in Sessions, NEW b \in Accounts, Announce(s, b) \/ Query(s, b) PROVE InHandler'
  BY <1>8 DEF Announce, Query, rvars
<1>9. ASSUME NEW s \in Sessions, AnnounceEnd(s) PROVE InHandler'
  BY <1>9 DEF AnnounceEnd, Enter, rvars
<1>10. ASSUME NEW s \in Sessions, QueryEnd(s) \/ HandlerEnd(s) PROVE InHandler'
  BY <1>10 DEF QueryEnd, HandlerEnd, LoginFinish, EndHandler
<1>. QED
  BY <1>1, <1>2, <1>3, <1>4, <1>5, <1>6, <1>7, <1>8, <1>9, <1>10, StepCases

LEMMA TypeKept == TypeOK /\ Identity /\ [Next]_vars => TypeOK'
<1>1. TypeOK /\ Identity /\ [Next]_vars => RegistryTypeOK' /\ Typed' /\ InHandler'
  BY TypeParts, RegistryTypeKept, TypedKept, InHandlerKept
<1>. QED
  BY <1>1 DEF TypeOK, Typed, InHandler, Stages

LEMMA IdentityKept == TypeOK /\ Identity /\ [Next]_vars => Identity'
<1>. SUFFICES ASSUME TypeOK, Identity, [Next]_vars PROVE Identity'
  OBVIOUS
<1>0. RegistryTypeOK /\ Typed /\ InHandler
  BY TypeParts
<1>. USE <1>0 DEF RegistryTypeOK, Typed, InHandler, Identity, Goto, SetStatus, RecvPacket,
                  Disconnected, Connected, LoggedIn
<1>1. CASE UNCHANGED vars
  BY <1>1 DEF vars, rvars, pvars
<1>2. CASE RegistryStep
  <2>1. stage' = stage /\ announced' = announced /\ asked' = asked
    BY <1>2 DEF RegistryStep, pvars
  <2>2. ASSUME NEW s \in Sessions, Handshake(s) \/ Close(s) PROVE Identity'
    BY <2>1, <2>2 DEF Handshake, Close
  <2>3. ASSUME NEW s \in Sessions, ReadStops(s) \/ Login(s) PROVE Identity'
    BY <2>1, <2>3 DEF ReadStops, Login
  <2>4. ASSUME NEW s \in Sessions, Start(s) PROVE Identity'
    BY <2>1, <2>4 DEF Start
  <2>5. CASE RemoveSessions
    BY <2>1, <2>5 DEF RemoveSessions
  <2>. QED
    BY <1>2, <2>2, <2>3, <2>4, <2>5 DEF RegistryStep
<1>3. ASSUME NEW s \in Sessions, LoginConfig(s) \/ ConfigRequest(s) PROVE Identity'
  <2>1. \A t \in Sessions : announced'[t] \subseteq announced[t]
    BY <1>3, ConfigFacts
  <2>2. sock[s] # "none" /\ accountId[s] \in Accounts
    BY <1>3, ConfigFacts
  <2>. QED
    BY <1>3, <2>1, <2>2, ConfigFacts
<1>4. ASSUME NEW s \in Sessions, Leave(s) \/ (LoginRemove(s) /\ UNCHANGED pvars) PROVE Identity'
  BY <1>4 DEF Leave, Forget, CloseRemove, LoginRemove, pvars
<1>5. ASSUME NEW s \in Sessions, NEW a \in Accounts, LoginListed(s, a) PROVE Identity'
  BY <1>5 DEF LoginListed, LoginAppend, Enter, Forget
<1>6. ASSUME NEW s \in Sessions, ContactStatusRequest(s) PROVE Identity'
  BY <1>6 DEF ContactStatusRequest, BeginHandler, Enter
<1>7. ASSUME NEW s \in Sessions, LogoutRequest(s) PROVE Identity'
  <2>1. /\ pc[s] = "read" /\ status[s] = LoggedIn /\ pc' = [pc EXCEPT ![s] = "busy"]
        /\ status' = [status EXCEPT ![s] = Connected]
        /\ announced' = [announced EXCEPT ![s] = {}]
        /\ \/ stage' = [stage EXCEPT ![s] = "announce"]
           \/ stage' = [stage EXCEPT ![s] = "reply"]
        /\ UNCHANGED <<sock, accountId, asked>>
    BY <1>7 DEF LogoutRequest, Logout, Enter
  <2>. QED
    BY <2>1
<1>8. ASSUME NEW s \in Sessions, NEW b \in Accounts, Announce(s, b) PROVE Identity'
  <2>1. /\ \A t \in Sessions \ {s} : announced'[t] = announced[t]
        /\ sock[s] # "none" /\ UNCHANGED <<rvars, stage, asked>>
    BY <1>8 DEF Announce
  <2>. QED
    BY <2>1 DEF rvars
<1>9. ASSUME NEW s \in Sessions, NEW b \in Accounts, Query(s, b) PROVE Identity'
  BY <1>9 DEF Query, rvars
<1>10. ASSUME NEW s \in Sessions, AnnounceEnd(s) PROVE Identity'
  BY <1>10 DEF AnnounceEnd, Enter, rvars
<1>11. ASSUME NEW s \in Sessions, QueryEnd(s) \/ HandlerEnd(s) PROVE Identity'
  BY <1>11 DEF QueryEnd, HandlerEnd, LoginFinish, EndHandler
<1>. QED
  BY <1>1, <1>2, <1>3, <1>4, <1>5, <1>6, <1>7, <1>8, <1>9, <1>10, <1>11, StepCases
\* Tokens and TokenOfUser hold each other up.  A step that touches neither the
\* tokens nor the account of a session with an open socket keeps both.
LEMMA TokensKept ==
  TypeOK /\ Identity /\ Tokens /\ TokenOfUser /\ [Next]_vars => Tokens' /\ TokenOfUser'
<1>. SUFFICES ASSUME TypeOK, Identity, Tokens, TokenOfUser, [Next]_vars
              PROVE  Tokens' /\ TokenOfUser'
  OBVIOUS
<1>0. RegistryTypeOK /\ Typed /\ InHandler
  BY TypeParts
<1>. USE <1>0 DEF RegistryTypeOK, Typed, InHandler, Tokens, TokenOfUser, Goto, SetStatus,
                  RecvPacket, Disconnected, Connected, LoggedIn
<1>1. CASE UNCHANGED <<rvars, token, unsaved>>
  BY <1>1 DEF rvars
<1>2. CASE RegistryStep
  <2>1. token' = token /\ unsaved' = unsaved
    BY <1>2 DEF RegistryStep, pvars
  <2>2. ASSUME NEW s \in Sessions, Handshake(s) PROVE Tokens' /\ TokenOfUser'
    BY <2>1, <2>2 DEF Handshake
  <2>3. ASSUME NEW s \in Sessions, Close(s) \/ ReadStops(s) PROVE Tokens' /\ TokenOfUser'
    BY <2>1, <2>3 DEF Close, ReadStops
  <2>4. ASSUME NEW s \in Sessions, Login(s) PROVE Tokens' /\ TokenOfUser'
    <3>1. /\ pc[s] = "read" /\ status[s] # LoggedIn /\ pc' = [pc EXCEPT ![s] = "loginRemove"]
          /\ status' = [status EXCEPT ![s] = LoggedIn] /\ UNCHANGED <<sock, accountId>>
      BY <2>4 DEF Login
    <3>2. ~unsaved /\ sock[s] # "closed" => \A a \in Accounts : token[a] # s
      BY <3>1 DEF Identity
    <3>. QED
      BY <2>1, <3>1, <3>2
  <2>5. ASSUME NEW s \in Sessions, Start(s) PROVE Tokens' /\ TokenOfUser'
    BY <2>1, <2>5 DEF Start, Identity
  <2>6. CASE RemoveSessions
    <3>1. /\ \A s \in Sessions : sock'[s] = "closed" \/ (sock'[s] = sock[s] /\ status'[s] = status[s])
          /\ UNCHANGED <<accountId, pc>>
      BY <2>6 DEF RemoveSessions
    <3>. QED
      BY <2>1, <3>1
  <2>. QED
    BY <1>2, <2>2, <2>3, <2>4, <2>5, <2>6 DEF RegistryStep
<1>3. ASSUME NEW s \in Sessions, LoginConfig(s) \/ ConfigRequest(s)
      PROVE  Tokens' /\ TokenOfUser'
  <2>1. /\ UNCHANGED <<unsaved, sock, status, accountId>>
        /\ \A t \in Sessions \ {s} : pc'[t] = pc[t]
        /\ \A a \in Accounts : token'[a] = token[a] \/ (a = accountId[s] /\ token'[a] = s)
        /\ pc[s] \in {"read", "serve"} /\ pc'[s] = (IF pc[s] = "read" THEN "busy" ELSE "serve")
        /\ pc[s] = "read" => status[s] = LoggedIn
    BY <1>3, ConfigFacts
  <2>2. sock[s] = "open" => status[s] = LoggedIn
    BY <2>1
  <2>3. Tokens'
    BY <2>1, <2>2
  <2>4. TokenOfUser'
    BY <2>1, <2>2
  <2>. QED
    BY <2>3, <2>4
<1>4. ASSUME NEW s \in Sessions, Leave(s) \/ (LoginRemove(s) /\ UNCHANGED pvars)
      PROVE  Tokens' /\ TokenOfUser'
  BY <1>4 DEF Leave, CloseRemove, LoginRemove, pvars
<1>5. ASSUME NEW s \in Sessions, NEW a \in Accounts, LoginListed(s, a)
      PROVE  Tokens' /\ TokenOfUser'
  BY <1>5 DEF LoginListed, LoginAppend
<1>6. ASSUME NEW s \in Sessions, ContactStatusRequest(s) PROVE Tokens' /\ TokenOfUser'
  BY <1>6 DEF ContactStatusRequest, BeginHandler
<1>7. ASSUME NEW s \in Sessions, LogoutRequest(s) PROVE Tokens' /\ TokenOfUser'
  <2>1. /\ pc[s] = "read" /\ status[s] = LoggedIn /\ pc' = [pc EXCEPT ![s] = "busy"]
        /\ status' = [status EXCEPT ![s] = Connected]
        /\ \/ token' = [token EXCEPT ![accountId[s]] = NoToken] /\ unsaved' = unsaved
           \/ token' = token /\ unsaved' = TRUE
        /\ UNCHANGED <<sock, accountId>>
    BY <1>7 DEF LogoutRequest, Logout
  <2>2. accountId[s] \in Accounts
    BY <2>1 DEF Identity
  <2>3. CASE unsaved' = TRUE
    BY <2>1, <2>3
  <2>4. CASE token' = [token EXCEPT ![accountId[s]] = NoToken] /\ unsaved' = unsaved
    BY <2>1, <2>2, <2>4, PresenceAssumption
  <2>. QED
    BY <2>1, <2>3, <2>4
<1>8. ASSUME NEW s \in Sessions, QueryEnd(s) \/ HandlerEnd(s) PROVE Tokens' /\ TokenOfUser'
  BY <1>8 DEF QueryEnd, HandlerEnd, LoginFinish, EndHandler
<1>. QED
  BY <1>1, <1>2, <1>3, <1>4, <1>5, <1>6, <1>7, <1>8, StepCases
     DEF vars, pvars, Announce, Query, AnnounceEnd

\* m_config is assigned before the broadcast and a session that takes its status
\* back forgets what it announced.
LEMMA AnnouncedKept == TypeOK /\ Announced /\ [Next]_vars => Announced'
<1>. SUFFICES ASSUME TypeOK, Announced, [Next]_vars PROVE Announced'
  OBVIOUS
<1>0. RegistryTypeOK /\ Typed
  BY TypeParts
<1>. USE <1>0 DEF Typed, Announced
<1>1. CASE UNCHANGED <<announced, say, notify>>
  BY <1>1
<1>2. ASSUME NEW s \in Sessions, LoginConfig(s) \/ ConfigRequest(s) PROVE Announced'
  <2>1. /\ \A t \in Sessions \ {s} :
             notify'[t] = notify[t] /\ say'[t] = say[t] /\ announced'[t] = announced[t]
        /\ (announced[s] # {} => notify[s]) => (announced'[s] # {} => notify'[s])
        /\ (say[s] => notify[s]) => (say'[s] => notify'[s])
    BY <1>2, ConfigFacts
  <2>. QED
    BY <2>1
<1>3. ASSUME NEW s \in Sessions, Leave(s) \/ (\E a \in Accounts : LoginListed(s, a))
      PROVE  Announced'
  BY <1>3 DEF Leave, LoginListed, Forget
<1>4. ASSUME NEW s \in Sessions, LogoutRequest(s) PROVE Announced'
  <2>1. /\ say' = [say EXCEPT ![s] = FALSE] /\ announced' = [announced EXCEPT ![s] = {}]
        /\ notify' = notify
    BY <1>4 DEF LogoutRequest
  <2>2. \A t \in Sessions : say'[t] => say[t]
    BY <2>1
  <2>3. \A t \in Sessions : announced'[t] # {} => announced[t] # {}
    BY <2>1
  <2>. QED
    BY <2>1, <2>2, <2>3
<1>5. ASSUME NEW s \in Sessions, NEW b \in Accounts, Announce(s, b) PROVE Announced'
  <2>1. /\ say' = say /\ notify' = notify
        /\ announced' = (IF say[s] THEN [announced EXCEPT ![s] = announced[s] \cup {b}]
                                   ELSE announced)
    BY <1>5 DEF Announce
  <2>2. \A t \in Sessions : announced'[t] = announced[t] \/ (t = s /\ say[s])
    BY <2>1
  <2>. QED
    BY <2>1, <2>2
<1>6. ASSUME NEW s \in Sessions, AnnounceEnd(s) PROVE Announced'
  <2>1. say' = [say EXCEPT ![s] = FALSE] /\ announced' = announced /\ notify' = notify
    BY <1>6 DEF AnnounceEnd
  <2>2. \A t \in Sessions : say'[t] => say[t]
    BY <2>1
  <2>. QED
    BY <2>1, <2>2
<1>. QED
  BY <1>1, <1>2, <1>3, <1>4, <1>5, <1>6, StepCases
     DEF vars, pvars, RegistryStep, ContactStatusRequest, Query, QueryEnd, HandlerEnd

\* The end of a query may add what Visited says to what Introduced says, and
\* nothing else adds to asked; announced grows only with a broadcast, which
\* tells every listed session of the contact at that moment.
LEMMA IntroducedKept ==
  TypeOK /\ Identity /\ Announced /\ Visited /\ Introduced /\ [Next]_vars
    => Visited' /\ Introduced'
<1>. SUFFICES ASSUME TypeOK, Identity, Announced, Visited, Introduced, [Next]_vars
              PROVE  Visited' /\ Introduced'
  OBVIOUS
<1>0. RegistryTypeOK /\ Typed /\ InHandler
  BY TypeParts
<1>. USE <1>0 DEF RegistryTypeOK, Typed, InHandler, Visited, Introduced, Listed
<1>1. ASSUME registry' \subseteq registry,
             UNCHANGED <<accountId, announced, asked, told, stage, todo, contacts, answers>>
      PROVE  Visited' /\ Introduced'
  BY <1>1
<1>2. ASSUME NEW s \in Sessions, Start(s), UNCHANGED pvars PROVE Visited' /\ Introduced'
  <2>1. /\ announced[s] = {} /\ asked[s] = {} /\ stage[s] = "none"
    BY <1>2 DEF Start, Identity
  <2>2. /\ \A t \in Sessions \ {s} : accountId'[t] = accountId[t] /\ (Listed(t)' => Listed(t))
        /\ UNCHANGED <<announced, asked, told, stage, todo, contacts, answers>>
    BY <1>2 DEF Start, pvars
  <2>. QED
    BY <2>1, <2>2
<1>3. CASE RegistryStep
  <2>1. CASE RemoveSessions
    <3>1. registry' \subseteq registry /\ accountId' = accountId
      BY <2>1 DEF RemoveSessions
    <3>. QED
      BY <1>1, <1>3, <3>1 DEF RegistryStep, pvars
  <2>2. ASSUME NEW s \in Sessions, Handshake(s) \/ Close(s) \/ ReadStops(s) \/ Login(s)
        PROVE  Visited' /\ Introduced'
    <3>1. registry' = registry /\ accountId' = accountId
      BY <2>2 DEF Handshake, Close, ReadStops, Login
    <3>. QED
      BY <1>1, <1>3, <3>1 DEF RegistryStep, pvars
  <2>. QED
    BY <1>2, <1>3, <2>1, <2>2 DEF RegistryStep
<1>4. ASSUME NEW s \in Sessions, LoginRemove(s), UNCHANGED pvars PROVE Visited' /\ Introduced'
  <2>1. registry' \subseteq registry /\ accountId' = accountId
    BY <1>4 DEF LoginRemove, Removed
  <2>. QED
    BY <1>1, <1>4, <2>1 DEF pvars
\* A session that leaves or changes its id starts from nothing.
<1>5. ASSUME NEW s \in Sessions, Leave(s) \/ (\E a \in Accounts : LoginListed(s, a))
      PROVE  Visited' /\ Introduced'
  <2>1. /\ announced'[s] = {} /\ asked'[s] = {} /\ stage'[s] # "query"
        /\ \A t \in Sessions \ {s} :
             /\ announced'[t] = announced[t] /\ asked'[t] = asked[t] /\ told'[t] = told[t]
             /\ stage'[t] = stage[t] /\ todo'[t] = todo[t]
        /\ UNCHANGED <<contacts, answers>>
    BY <1>5 DEF Leave, CloseRemove, LoginListed, LoginAppend, Forget, Enter
  <2>2. \A t \in Sessions \ {s} : accountId'[t] = accountId[t] /\ (Listed(t)' => Listed(t))
    BY <1>5 DEF Leave, CloseRemove, Removed, LoginListed, LoginAppend
  <2>. QED
    BY <2>1, <2>2, ZenonT(40)
<1>6. ASSUME NEW s \in Sessions, LoginConfig(s) \/ ConfigRequest(s)
      PROVE  Visited' /\ Introduced'
  <2>1. /\ UNCHANGED <<answers, asked, told, accountId, registry>>
        /\ \A t \in Sessions \ {s} :
             /\ contacts'[t] = contacts[t] /\ stage'[t] = stage[t] /\ todo'[t] = todo[t]
        /\ \A t \in Sessions : announced'[t] \subseteq announced[t]
        /\ stage'[s] = "query" => todo'[s] = contacts'[s]
    BY <1>6, ConfigFacts
  <2>2. Introduced'
    BY <2>1
  <2>3. Visited'
    BY <2>1
  <2>. QED
    BY <2>2, <2>3
<1>7. ASSUME NEW s \in Sessions, ContactStatusRequest(s) PROVE Visited' /\ Introduced'
  <2>1. /\ stage' = [stage EXCEPT ![s] = "query"] /\ todo' = [todo EXCEPT ![s] = contacts[s]]
        /\ UNCHANGED <<answers, asked, told, announced, contacts, accountId, registry>>
    BY <1>7 DEF ContactStatusRequest, BeginHandler, Enter
  <2>. QED
    BY <2>1
<1>8. ASSUME NEW s \in Sessions, LogoutRequest(s) PROVE Visited' /\ Introduced'
  <2>1. /\ stage'[s] # "query" /\ \A t \in Sessions \ {s} : stage'[t] = stage[t] /\ todo'[t] = todo[t]
        /\ \A t \in Sessions : announced'[t] \subseteq announced[t]
        /\ UNCHANGED <<answers, asked, told, contacts, accountId, registry>>
    BY <1>8 DEF LogoutRequest, Logout, Enter
  <2>. QED
    BY <2>1
<1>9. ASSUME NEW s \in Sessions, NEW b \in Accounts, Announce(s, b)
      PROVE  Visited' /\ Introduced'
  <2>1. /\ UNCHANGED <<accountId, registry, stage, answers, asked, contacts>>
        /\ todo' = [todo EXCEPT ![s] = todo[s] \ {b}] /\ stage[s] = "announce"
    BY <1>9 DEF Announce, rvars
  <2>2. CASE ~ say[s]
    <3>1. told' = told /\ announced' = announced
      BY <1>9, <2>2 DEF Announce
    <3>. QED
      BY <2>1, <3>1
  <2>3. CASE say[s]
    <3>1. /\ \A t \in Sessions : told[t] \subseteq told'[t]
          /\ \A t \in Sessions : <<b, t>> \in registry => accountId[s] \in told'[t]
          /\ announced' = [announced EXCEPT ![s] = announced[s] \cup {b}]
      BY <1>9, <2>3 DEF Announce
    <3>. QED
      BY <2>1, <3>1
  <2>. QED
    BY <2>2, <2>3
<1>10. ASSUME NEW s \in Sessions, AnnounceEnd(s) PROVE Visited' /\ Introduced'
  <2>1. /\ \/ stage' = [stage EXCEPT ![s] = "query"] /\ todo' = [todo EXCEPT ![s] = contacts[s]]
           \/ stage' = [stage EXCEPT ![s] = "reply"] /\ todo' = [todo EXCEPT ![s] = {}]
        /\ UNCHANGED <<answers, asked, told, announced, contacts, accountId, registry>>
    BY <1>10 DEF AnnounceEnd, Enter, rvars
  <2>. QED
    BY <2>1
<1>11. ASSUME NEW s \in Sessions, NEW b \in Accounts, Query(s, b) PROVE Visited' /\ Introduced'
  <2>1. /\ UNCHANGED <<accountId, registry, stage, asked, contacts, told, announced>>
        /\ todo' = [todo EXCEPT ![s] = todo[s] \ {b}]
        /\ \A t \in Sessions : answers[t] \subseteq answers'[t]
    BY <1>11 DEF Query, rvars
  <2>2. ASSUME NEW t \in Sessions, Listed(t), accountId[t] = b, announced[t] # {}
        PROVE  b \in answers'[s]
    <3>1. GetContactStatus(b)
      BY <2>2 DEF GetContactStatus, Announced
    <3>. QED
      BY <1>11, <3>1 DEF Query
  <2>3. Visited'
    BY <2>1, <2>2
  <2>4. Introduced'
    BY <2>1
  <2>. QED
    BY <2>3, <2>4
<1>12. ASSUME NEW s \in Sessions, QueryEnd(s) PROVE Visited' /\ Introduced'
  <2>1. /\ stage[s] = "query" /\ todo[s] = {}
        /\ told' = [told EXCEPT ![s] = told[s] \cup answers[s]]
        /\ asked' = [asked EXCEPT ![s] = asked[s] \cup contacts[s]]
        /\ answers' = [answers EXCEPT ![s] = {}]
        /\ stage' = [stage EXCEPT ![s] = "none"]
        /\ UNCHANGED <<accountId, registry, contacts, todo, announced>>
    BY <1>12 DEF QueryEnd, LoginFinish, EndHandler
  <2>2. Visited'
    BY <2>1
  <2>3. Introduced'
    BY <2>1
  <2>. QED
    BY <2>2, <2>3
<1>13. ASSUME NEW s \in Sessions, HandlerEnd(s) PROVE Visited' /\ Introduced'
  BY <1>13 DEF HandlerEnd, EndHandler
<1>14. CASE UNCHANGED vars
  BY <1>1, <1>14 DEF vars, rvars, pvars
<1>. QED
  BY <1>3, <1>4, <1>5, <1>6, <1>7, <1>8, <1>9, <1>10, <1>11, <1>12, <1>13, <1>14, StepCases

LEMMA InvInit == Init => Inv
<1>. SUFFICES ASSUME Init PROVE Inv
  OBVIOUS
<1>. USE DEF Init, RegistryInit, Nobody
<1>1. RegistryTypeOK
  BY DEF RegistryTypeOK, Labels
<1>2. Typed /\ InHandler
  BY DEF Typed, InHandler, Stages
<1>3. TypeOK
  BY <1>1, <1>2, TypeParts
<1>4. Identity /\ Tokens
  BY PresenceAssumption DEF Identity, Tokens, Disconnected, LoggedIn
<1>5. TokenOfUser /\ Visited /\ Introduced
  BY DEF TokenOfUser, Visited, Introduced, Listed
<1>6. Announced
  BY DEF Announced
<1>. QED
  BY <1>3, <1>4, <1>5, <1>6 DEF Inv

-----------------------------------------------------------------------------
LEMMA PresenceInvariant == Spec => []Inv
<1>1. Inv /\ [Next]_vars => Inv'
  BY TypeKept, IdentityKept, TokensKept, AnnouncedKept, IntroducedKept DEF Inv
<1>. QED
  BY InvInit, <1>1, PTL DEF Spec

\* Type correctness of the sessions, their configs and the tokens; a loop over
\* the contacts runs only inside a handler of its session.
THEOREM PresenceTypeCorrect == Spec => []TypeOK
<1>1. Inv => TypeOK
  BY DEF Inv
<1>. QED
  BY <1>1, PresenceInvariant, PTL

\* broadcastStatus and the status queries of processLogin and
\* processContactStatusRequest, in any interleaving, do not let two clients that
\* come online miss each other.
THEOREM PresenceIntroduced == Spec => []Introduced
<1>1. Inv => Introduced
  BY DEF Inv
<1>. QED
  BY <1>1, PresenceInvariant, PTL

\* The fcmToken of an account names a device that is logged in to it, as long as
\* its connection lasts and no clearing of a token has failed: what setConfig
\* stores, processLogout takes back before the session can serve another account.
THEOREM PresenceTokenOfUser == Spec => []TokenOfUser
<1>1. Inv => TokenOfUser
  BY DEF Inv
<1>. QED
  BY <1>1, PresenceInvariant, PTL
\* The handlers of Presence are handlers of the read chain: whatever they do to
\* the sessions and their map, SessionRegistry allows, so that what is proved of
\* the registry holds here too.
THEOREM PresenceImplementsRegistry == Spec => RegistryInit /\ [][RegistryNext]_rvars
<1>1. [Next]_vars => [RegistryNext]_rvars
  <2>. SUFFICES ASSUME [Next]_vars PROVE [RegistryNext]_rvars
    OBVIOUS
  <2>1. CASE RegistryStep
    BY <2>1 DEF RegistryStep, RegistryNext
  <2>2. ASSUME NEW s \in Sessions,
               \/ ConfigRequest(s) \/ ContactStatusRequest(s) \/ LogoutRequest(s)
        PROVE  RegistryNext
    BY <2>2 DEF ConfigRequest, ContactStatusRequest, LogoutRequest, RegistryNext
  <2>3. ASSUME NEW s \in Sessions,
               Leave(s) \/ LoginRemove(s) \/ QueryEnd(s) \/ HandlerEnd(s)
        PROVE  RegistryNext
    BY <2>3 DEF Leave, QueryEnd, HandlerEnd, RegistryNext, Handler
  <2>4. ASSUME NEW s \in Sessions, NEW a \in Accounts, LoginListed(s, a) PROVE RegistryNext
    BY <2>4 DEF LoginListed, RegistryNext, Handler
  <2>. QED
    BY <2>1, <2>2, <2>3, <2>4, StepCases
       DEF LoginConfig, Announce, AnnounceEnd, Query, vars
<1>2. Init => RegistryInit
  BY DEF Init
<1>. QED
  BY <1>1, <1>2, PTL DEF Spec
=============================================================================
