------------------------------ MODULE Presence ------------------------------
(***************************************************************************)
(* Who is told who is online (src/src/session.cpp): setConfig, the status  *)
(* query at the end of processLogin, processConfigRequest,                 *)
(* processContactStatusRequest, processLogout and broadcastStatus, over    *)
(* the session registry.  The loops over the contacts visit one contact a  *)
(* step, since each visit takes and releases m_sessions; m_contacts is     *)
(* locked from the first visit to the last.                                *)
(*                                                                         *)
(* setConfig up to its broadcast is one step: nobody else reads            *)
(* m_contacts, the database call touches the token only, and m_config,     *)
(* which other sessions read without a lock, is assigned last.  Contacts   *)
(* made by AcceptContact are the subject of the module Contacts.           *)
(***************************************************************************)
EXTENDS SessionRegistry

CONSTANTS
  Configs,   \* the configurations clients send
  NoToken    \* the empty fcmToken

ASSUME PresenceAssumption ==
  /\ Configs \subseteq
       [hasContacts : BOOLEAN, contacts : SUBSET Accounts, tell : SUBSET Accounts,
        notify : BOOLEAN, hasToken : BOOLEAN]
  /\ NoToken \notin Sessions

VARIABLES
  notify,     \* m_config["notifyStatus"]
  contacts,   \* the ids in m_contacts
  tell,       \* those of them whose entry has notifyStatus
  token,      \* zway.accounts: whose fcmToken each account has
  stage,      \* "announce" or "query" in a loop, "reply" after it
  todo,       \* the contacts a loop has yet to visit
  say,        \* the status broadcastStatus tells
  answers,    \* the contacts a query has found online
  announced,  \* history: contacts that were told 1 and nothing since
  asked,      \* history: contacts whose status a reply to the session held
  told,       \* history: contacts the session was told are online
  unsaved     \* history: the database has refused to clear a token

pvars == <<notify, contacts, tell, token, stage, todo, say, answers, announced,
           asked, told, unsaved>>
vars == <<rvars, pvars>>

Nobody == [s \in Sessions |-> {}]

Init ==
  /\ RegistryInit
  /\ notify = [s \in Sessions |-> FALSE] /\ say = [s \in Sessions |-> FALSE]
  /\ contacts = Nobody /\ tell = Nobody /\ todo = Nobody /\ answers = Nobody
  /\ token = [a \in Accounts |-> NoToken]
  /\ stage = [s \in Sessions |-> "none"]
  /\ announced = Nobody /\ asked = Nobody /\ told = Nobody
  /\ unsaved = FALSE

Enter(s, l, visits) ==
  /\ stage' = [stage EXCEPT ![s] = l]
  /\ todo' = [todo EXCEPT ![s] = visits]

\* getContactStatus: a listed session of the account wants its status known.
GetContactStatus(a) == \E t \in Sessions : <<a, t>> \in registry /\ notify[t]

\* Mutant of SetConfig: the change is announced and m_config stays as it was.
SetConfigLate(s, c, l, visits) ==
  /\ contacts' = [contacts EXCEPT ![s] = IF c.hasContacts THEN c.contacts ELSE @]
  /\ tell' = [tell EXCEPT ![s] = IF c.hasContacts THEN c.tell ELSE @]
  /\ token' \in {token, [token EXCEPT ![accountId[s]] = IF c.hasToken THEN s ELSE @]}
  /\ say' = [say EXCEPT ![s] = c.notify]
  /\ announced' = [announced EXCEPT ![s] = IF c.notify THEN @ ELSE {}]
  /\ IF c.notify # notify[s] THEN Enter(s, "announce", tell'[s]) ELSE Enter(s, l, visits)
  /\ UNCHANGED <<notify, answers, asked, told, unsaved>>

\* setConfig: replace the contacts, if the config has any, and the token, which
\* MongoDB may fail to; a change of notifyStatus is announced.
SetConfig(s, c, l, visits) ==
  /\ contacts' = [contacts EXCEPT ![s] = IF c.hasContacts THEN c.contacts ELSE @]
  /\ tell' = [tell EXCEPT ![s] = IF c.hasContacts THEN c.tell ELSE @]
  /\ token' \in {token, [token EXCEPT ![accountId[s]] = IF c.hasToken THEN s ELSE @]}
  /\ notify' = [notify EXCEPT ![s] = c.notify]
  /\ say' = [say EXCEPT ![s] = c.notify /\ ~notify[s]]
  /\ announced' = [announced EXCEPT ![s] = IF c.notify THEN @ ELSE {}]
  /\ IF c.notify # notify[s] THEN Enter(s, "announce", tell'[s]) ELSE Enter(s, l, visits)
  /\ UNCHANGED <<answers, asked, told, unsaved>>

\* A session leaves its id, and what it said and heard under it is history.
Forget(s) ==
  /\ announced' = [announced EXCEPT ![s] = {}]
  /\ asked' = [asked EXCEPT ![s] = {}]
  /\ told' = [told EXCEPT ![s] = {}]

\* close: removeSession, without a broadcast.
Leave(s) ==
  /\ CloseRemove(s)
  /\ Forget(s)
  /\ UNCHANGED <<notify, contacts, tell, token, stage, todo, say, answers, unsaved>>

\* Mutant of LoginListed: neither config nor query follows.
LoginListedBare(s, a) ==
  /\ LoginAppend(s, a)
  /\ Forget(s)
  /\ UNCHANGED <<notify, contacts, tell, token, stage, todo, say, answers, unsaved>>

\* processLogin, "append authenticated session".
LoginListed(s, a) ==
  /\ LoginAppend(s, a)
  /\ Forget(s)
  /\ Enter(s, "config", {})
  /\ UNCHANGED <<notify, contacts, tell, token, say, answers, unsaved>>

\* processLogin: "set config", if the login has one, then the status query.
LoginConfig(s) ==
  /\ pc[s] = "serve" /\ stage[s] = "config"
  /\ \/ \E c \in Configs :
          SetConfig(s, c, "query", IF c.hasContacts THEN c.contacts ELSE contacts[s])
     \/ /\ Enter(s, "query", contacts[s])
        /\ UNCHANGED <<notify, contacts, tell, token, say, answers, announced, asked,
                       told, unsaved>>
  /\ UNCHANGED rvars

\* processConfigRequest.
ConfigRequest(s) ==
  /\ status[s] = LoggedIn
  /\ BeginHandler(s)
  /\ \E c \in Configs : SetConfig(s, c, "reply", {})

\* processContactStatusRequest.
ContactStatusRequest(s) ==
  /\ status[s] = LoggedIn
  /\ BeginHandler(s)
  /\ Enter(s, "query", contacts[s])
  /\ UNCHANGED <<notify, contacts, tell, token, say, answers, announced, asked,
                 told, unsaved>>

\* Mutant of LogoutRequest: the token stays.
LogoutKeepsToken(s) ==
  /\ Logout(s)
  /\ say' = [say EXCEPT ![s] = FALSE]
  /\ announced' = [announced EXCEPT ![s] = {}]
  /\ IF notify[s] THEN Enter(s, "announce", tell[s]) ELSE Enter(s, "reply", {})
  /\ UNCHANGED <<notify, contacts, tell, token, answers, asked, told, unsaved>>

\* processLogout: clear the token, then broadcastStatus(0) if the config has
\* notifyStatus.  Config and contacts stay.
LogoutRequest(s) ==
  LET a == accountId[s]
  IN /\ Logout(s)
     /\ \/ token' = [token EXCEPT ![a] = NoToken] /\ UNCHANGED unsaved
        \/ UNCHANGED token /\ unsaved' = TRUE
     /\ say' = [say EXCEPT ![s] = FALSE]
     /\ announced' = [announced EXCEPT ![s] = {}]
     /\ IF notify[s] THEN Enter(s, "announce", tell[s]) ELSE Enter(s, "reply", {})
     /\ UNCHANGED <<notify, contacts, tell, answers, asked, told>>

\* broadcastStatus, one contact: a ContactStatus for each of its sessions.
Announce(s, b) ==
  /\ stage[s] = "announce" /\ b \in todo[s]
  /\ todo' = [todo EXCEPT ![s] = @ \ {b}]
  /\ told' = [t \in Sessions |->
                IF say[s] /\ <<b, t>> \in registry THEN told[t] \cup {accountId[s]} ELSE told[t]]
  /\ announced' = IF say[s] THEN [announced EXCEPT ![s] = @ \cup {b}] ELSE announced
  /\ UNCHANGED <<rvars, notify, contacts, tell, token, stage, say, answers, asked, unsaved>>

\* The end of broadcastStatus: a login goes on with its query.
AnnounceEnd(s) ==
  /\ stage[s] = "announce" /\ todo[s] = {}
  /\ IF pc[s] = "serve" THEN Enter(s, "query", contacts[s]) ELSE Enter(s, "reply", {})
  /\ say' = [say EXCEPT ![s] = FALSE]
  /\ UNCHANGED <<rvars, notify, contacts, tell, token, answers, announced, asked,
                 told, unsaved>>

\* processLogin and processContactStatusRequest, one contact.
Query(s, b) ==
  /\ stage[s] = "query" /\ b \in todo[s]
  /\ todo' = [todo EXCEPT ![s] = @ \ {b}]
  /\ answers' = [answers EXCEPT ![s] = IF GetContactStatus(b) THEN @ \cup {b} ELSE @]
  /\ UNCHANGED <<rvars, notify, contacts, tell, token, stage, say, announced, asked,
                 told, unsaved>>

\* The reply with the answers ends the handler.
QueryEnd(s) ==
  /\ stage[s] = "query" /\ todo[s] = {}
  /\ told' = [told EXCEPT ![s] = @ \cup answers[s]]
  /\ asked' = [asked EXCEPT ![s] = @ \cup contacts[s]]
  /\ answers' = [answers EXCEPT ![s] = {}]
  /\ stage' = [stage EXCEPT ![s] = "none"]
  /\ LoginFinish(s) \/ EndHandler(s)
  /\ UNCHANGED <<notify, contacts, tell, token, todo, say, announced, unsaved>>

\* The end of a handler without a query.
HandlerEnd(s) ==
  /\ stage[s] = "reply"
  /\ stage' = [stage EXCEPT ![s] = "none"]
  /\ EndHandler(s)
  /\ UNCHANGED <<notify, contacts, tell, token, todo, say, answers, announced, asked,
                 told, unsaved>>

-----------------------------------------------------------------------------
\* Connections and packets that do not concern the presence.
RegistryStep ==
  /\ \/ \E s \in Sessions : Start(s) \/ Handshake(s) \/ Close(s) \/ ReadStops(s) \/ Login(s)
     \/ RemoveSessions
  /\ UNCHANGED pvars

\* What a session's handlers do once they have begun.
SessionHandler(s) ==
  \/ Leave(s)
  \/ LoginRemove(s) /\ UNCHANGED pvars
  \/ (\E a \in Accounts : LoginListed(s, a)) \/ LoginConfig(s)
  \/ \E b \in Accounts : Announce(s, b) \/ Query(s, b)
  \/ AnnounceEnd(s) \/ QueryEnd(s) \/ HandlerEnd(s)

Next ==
  \/ RegistryStep
  \/ \E s \in Sessions :
       \/ ConfigRequest(s) \/ ContactStatusRequest(s) \/ LogoutRequest(s)
       \/ SessionHandler(s)

\* A handler that has begun runs to its end.
Spec == Init /\ [][Next]_vars /\ \A s \in Sessions : WF_vars(SessionHandler(s))
-----------------------------------------------------------------------------
\* Every variable has its type, and a loop runs only inside a handler.
TypeOK ==
  /\ RegistryTypeOK
  /\ notify \in [Sessions -> BOOLEAN] /\ say \in [Sessions -> BOOLEAN]
  /\ \A f \in {contacts, tell, todo, answers, announced, asked, told} :
       f \in [Sessions -> SUBSET Accounts]
  /\ token \in [Accounts -> Sessions \cup {NoToken}]
  /\ stage \in [Sessions -> {"none", "config", "announce", "query", "reply"}]
  /\ unsaved \in BOOLEAN
  /\ \A s \in Sessions : stage[s] # "none" <=> pc[s] \in {"serve", "busy"}

\* Two clients that come online at the same time do not miss each other: if s
\* has told its contact b that it is online, and t, a session of b, has got a
\* list with the status of s's account, then t has heard of it at least once,
\* from the broadcast or in the list.
Introduced ==
  \A s, t \in Sessions :
    /\ <<accountId[s], s>> \in registry /\ <<accountId[t], t>> \in registry
    /\ accountId[t] \in announced[s] /\ accountId[s] \in asked[t]
    => accountId[s] \in told[t]

\* Push notifications for an account go to the device whose token it has; that
\* device is logged in to it or its connection has ended without a logout,
\* unless the database refused to forget a token.
TokenOfUser ==
  \A a \in Accounts : \A s \in Sessions :
    token[a] = s /\ ~unsaved /\ sock[s] = "open" =>
      status[s] = LoggedIn /\ accountId[s] = a
=============================================================================
