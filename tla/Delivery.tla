------------------------------ MODULE Delivery ------------------------------
(***************************************************************************)
(* The store-and-forward path (src/src/session.cpp, src/src/server.cpp,    *)
(* src/src/db.cpp): processPushRequest inserts one document per recipient  *)
(* and posts a processUserRequests job; the job, and every login, lists    *)
(* the recipient's documents and posts those not yet pending on the        *)
(* session; the client's answer deletes the document.  Composed with the   *)
(* session registry; the store survives a restart, nothing else does.      *)
(*                                                                         *)
(* Push stands for every request that is stored for another account and    *)
(* deleted by its answer (Push, AcceptContact and RejectContact share the  *)
(* code).  The Dispatch document of a finished upload is stored for the    *)
(* uploader itself and followed by processRequests() of that one session,  *)
(* without a job; it is the module StreamBuffers that inserts it.          *)
(***************************************************************************)
EXTENDS SessionRegistry

CONSTANTS
  Requests,        \* request ids, chosen by the sending client
  LoginRunner,     \* the processRequests() call at the end of processLogin
  MaxLogins,       \* bound on the logins
  MaxFaults        \* bound on the crashes and on the database calls that throw

Docs == Requests \X Accounts

ASSUME DeliveryAssumption ==
  /\ LoginRunner \notin Docs
  /\ MaxLogins \in Nat /\ MaxFaults \in Nat

VARIABLES
  store,      \* zway.requests: documents <<id, dst>>
  source,     \* the src field of the documents with an id
  pushing,    \* pushing[s]: documents processPushRequest has yet to insert
  inserted,   \* inserted[s]: the document it has inserted and not posted a job for
  jobs,       \* documents whose processUserRequests(dst) is queued
  calls,      \* <<r, s>>: runner r is about to call s->processRequests()
  todo,       \* <<r, s, d>>: d is in the list r got there and not looked at yet
  picked,     \* <<r, s, d>>: r found d not pending on s and is about to post it
  pending,    \* <<r, s, d>>: what r posted for d on s is unanswered (external)
  reported,   \* history: documents the push handler counts as stored
  confirmed,  \* history: documents confirmed by a client that was sent them
  withdrawn,  \* history: documents deleted by processDispatchRequest
  dropped,    \* history: reported documents whose insert failed
  left,       \* history <<s, d>>: left in the store after an answer on s, whose
              \* status was not 1 or whose delete failed
  unseen,     \* history <<s, d>>: missing from the last list made for s, its query threw
  carried,    \* history <<s, d>>: d was listed for s or posted on it when s logged
              \* in to another account
  overlapped, \* history <<s, id>>: two runners were about to post the id on s
  logins, faults

trail == <<reported, confirmed, withdrawn, dropped, left, unseen, carried, overlapped>>
dvars == <<store, source, pushing, inserted, jobs, calls, todo, picked, pending, trail,
           logins, faults>>
vars == <<rvars, dvars>>

Runners == Docs \cup {LoginRunner}

\* The database may hold documents from earlier runs of the server.
Init ==
  /\ RegistryInit
  /\ source \in [Requests -> Accounts \cup {NoAccount}]
  /\ store \in SUBSET {d \in Docs : source[d[1]] \notin {NoAccount, d[2]}}
  /\ reported = store /\ confirmed = {} /\ withdrawn = {} /\ dropped = {}
  /\ left = {} /\ unseen = {} /\ carried = {} /\ overlapped = {}
  /\ pushing = [s \in Sessions |-> {}] /\ inserted = [s \in Sessions |-> {}]
  /\ jobs = {} /\ calls = {} /\ todo = {} /\ picked = {} /\ pending = {}
  /\ logins = 0 /\ faults = 0

\* The session can handle a packet.
Reading(s) == pc[s] = "read"

\* A database call throws; every one of them catches that and goes on.
Throws ==
  /\ faults < MaxFaults
  /\ faults' = faults + 1

-----------------------------------------------------------------------------
\* processPushRequest: one document per key, the sender's own account skipped.
PushRequest(s, i, dsts) ==
  /\ status[s] = LoggedIn
  /\ source[i] = NoAccount
  /\ source' = [source EXCEPT ![i] = accountId[s]]
  /\ pushing' = [pushing EXCEPT ![s] = {i} \X (dsts \ {accountId[s]})]
  /\ BeginHandler(s)
  /\ UNCHANGED <<store, inserted, jobs, calls, todo, picked, pending, trail, faults,
                 logins>>

\* DB::addRequest reports success even after an exception.
AddRequest(d) ==
  /\ \/ store' = store \cup {d} /\ UNCHANGED <<dropped, faults>>
     \/ Throws /\ dropped' = dropped \cup {d} /\ UNCHANGED store
  /\ reported' = reported \cup {d}
  /\ UNCHANGED <<confirmed, withdrawn, left, unseen, carried, overlapped>>

\* Mutant of PushOne: the job is posted before the insert.
PushPostsFirst(s, d) ==
  /\ pc[s] = "busy"
  /\ \/ /\ d \in pushing[s] /\ inserted[s] = {}
        /\ jobs' = jobs \cup {d}
        /\ pushing' = [pushing EXCEPT ![s] = @ \ {d}]
        /\ inserted' = [inserted EXCEPT ![s] = @ \cup {d}]
        /\ UNCHANGED <<store, trail, faults>>
     \/ /\ d \in inserted[s]
        /\ AddRequest(d)
        /\ inserted' = [inserted EXCEPT ![s] = @ \ {d}]
        /\ UNCHANGED <<pushing, jobs>>
  /\ UNCHANGED <<rvars, source, calls, todo, picked, pending, logins>>

\* processPushRequest, one turn of the loop: insert, then post the job.
PushOne(s, d) ==
  /\ pc[s] = "busy"
  /\ \/ /\ d \in pushing[s] /\ inserted[s] = {}
        /\ AddRequest(d)
        /\ pushing' = [pushing EXCEPT ![s] = @ \ {d}]
        /\ inserted' = [inserted EXCEPT ![s] = @ \cup {d}]
        /\ UNCHANGED jobs
     \/ /\ d \in inserted[s]
        /\ jobs' = jobs \cup {d}
        /\ inserted' = [inserted EXCEPT ![s] = @ \ {d}]
        /\ UNCHANGED <<store, pushing, trail, faults>>
  /\ UNCHANGED <<rvars, source, calls, todo, picked, pending, logins>>

PushEnd(s) ==
  /\ pushing[s] = {} /\ inserted[s] = {}
  /\ EndHandler(s)
  /\ UNCHANGED dvars

\* Server::processUserRequests: take the sessions listed for the recipient;
\* with none listed it only sends a Firebase notification.
ProcessUserRequests(d) ==
  /\ d \in jobs
  /\ jobs' = jobs \ {d}
  /\ calls' = calls \cup {<<d, s>> : s \in {t \in Sessions : <<d[2], t>> \in registry}}
  /\ UNCHANGED <<rvars, store, source, pushing, inserted, todo, picked, pending, trail,
                 logins, faults>>

-----------------------------------------------------------------------------
\* processRequests: the list is made for the id the session has now, and is
\* short when the query throws.
GetRequests(r, s) ==
  LET mine == {d \in store : d[2] = accountId[s]}
  IN /\ <<r, s>> \in calls
     /\ calls' = calls \ {<<r, s>>}
     /\ \E got \in SUBSET mine :
          /\ IF got = mine THEN UNCHANGED faults ELSE Throws
          /\ todo' = todo \cup {<<r, s, d>> : d \in got}
          /\ unseen' = (unseen \ {<<s, d>> : d \in got}) \cup {<<s, d>> : d \in mine \ got}
     /\ UNCHANGED <<rvars, store, source, pushing, inserted, jobs, picked, pending,
                    reported, confirmed, withdrawn, dropped, left, carried, overlapped,
                    logins>>

\* Mutant of RequestPending: nothing is ever found.
RequestPendingNever(s, i) == FALSE

\* Zway::Engine::requestPending goes by type and id.
RequestPending(s, i) == \E p \in pending : p[2] = s /\ p[3][1] = i

\* processRequests, one turn of the loop: skip what is pending; post the rest,
\* with no lock held between the two.
ProcessOne(r, s, d) ==
  /\ \/ /\ <<r, s, d>> \in todo /\ (\A e \in Docs : <<r, s, e>> \notin picked)
        /\ todo' = todo \ {<<r, s, d>>}
        /\ picked' = IF RequestPending(s, d[1]) THEN picked ELSE picked \cup {<<r, s, d>>}
        /\ overlapped' = IF /\ ~RequestPending(s, d[1])
                            /\ \E p \in picked : p[2] = s /\ p[3][1] = d[1]
                         THEN overlapped \cup {<<s, d[1]>>} ELSE overlapped
        /\ UNCHANGED pending
     \/ /\ <<r, s, d>> \in picked
        /\ picked' = picked \ {<<r, s, d>>}
        /\ pending' = pending \cup {<<r, s, d>>}
        /\ UNCHANGED <<todo, overlapped>>
  /\ UNCHANGED <<rvars, store, source, pushing, inserted, jobs, calls, reported, confirmed,
                 withdrawn, dropped, left, unseen, carried, faults, logins>>

-----------------------------------------------------------------------------
\* The answer to a posted request: it is no longer pending, the read goes on.
Answered(r, s, d) ==
  /\ Reading(s) /\ <<r, s, d>> \in pending
  /\ pending' = pending \ {<<r, s, d>>}
  /\ RecvPacket(s)
  /\ UNCHANGED <<sock, status, accountId, registry, swept, source, pushing, inserted, jobs,
                 calls, todo, picked, reported, withdrawn, dropped, unseen, carried,
                 overlapped, logins>>

\* Mutant of Confirm: the query has no dst.
ConfirmForAll(r, s, d) ==
  /\ Answered(r, s, d)
  /\ confirmed' = confirmed \cup {d}
  /\ store' = {e \in store : e[1] # d[1]}
  /\ UNCHANGED <<left, faults>>

\* The callback of a posted request, status 1: delete {id, dst: accountId()}
\* with the id the session has now; that the delete failed is ignored.
Confirm(r, s, d) ==
  /\ Answered(r, s, d)
  /\ confirmed' = confirmed \cup {d}
  /\ \/ store' = store \ {<<d[1], accountId[s]>>} /\ UNCHANGED <<left, faults>>
     \/ Throws /\ left' = left \cup {<<s, d>>} /\ UNCHANGED store

\* Mutant of Refuse: the status of the response is not looked at.
RefuseDeletes(r, s, d) ==
  /\ Answered(r, s, d)
  /\ left' = left \cup {<<s, d>>}
  /\ store' = store \ {d}
  /\ UNCHANGED <<confirmed, faults>>

\* The callback, any other status: the document stays.
Refuse(r, s, d) ==
  /\ Answered(r, s, d)
  /\ left' = left \cup {<<s, d>>}
  /\ UNCHANGED <<store, confirmed, faults>>

\* processDispatchRequest: the sender or the recipient deletes one document
\* with the id.  A delete that fails is reported and changes nothing.
DispatchRequest(s, d) ==
  /\ Reading(s) /\ status[s] = LoggedIn
  /\ d \in store
  /\ accountId[s] \in {source[d[1]], d[2]}
  /\ store' = store \ {d}
  /\ withdrawn' = withdrawn \cup {d}
  /\ RecvPacket(s)
  /\ UNCHANGED <<sock, status, accountId, registry, swept, source, pushing, inserted, jobs,
                 calls, todo, picked, pending, reported, confirmed, dropped, left, unseen,
                 carried, overlapped, faults, logins>>

-----------------------------------------------------------------------------
\* processLogin, credentials accepted.
LoginBegin(s) ==
  /\ logins < MaxLogins
  /\ logins' = logins + 1
  /\ Login(s)
  /\ UNCHANGED <<store, source, pushing, inserted, jobs, calls, todo, picked, pending,
                 trail, faults>>

\* What runners have listed for a session or posted on it.
InHand(s) == {d \in Docs : \E p \in todo \cup picked \cup pending : p[2] = s /\ p[3] = d}

\* Mutant of LoginServe: no processRequests() at the end of processLogin.
LoginSilent(s, a) ==
  /\ LoginAppend(s, a)
  /\ carried' = IF accountId[s] = a THEN carried ELSE carried \cup ({s} \X InHand(s))
  /\ UNCHANGED <<store, source, pushing, inserted, jobs, calls, todo, picked, pending, reported,
                 confirmed, withdrawn, dropped, left, unseen, overlapped, logins, faults>>

\* processLogin, from appendSession on: processRequests follows.  The account
\* may be another than before: a logout keeps the connection and its requests.
LoginServe(s, a) ==
  /\ LoginAppend(s, a)
  /\ calls' = calls \cup {<<LoginRunner, s>>}
  /\ carried' = IF accountId[s] = a THEN carried ELSE carried \cup ({s} \X InHand(s))
  /\ UNCHANGED <<store, source, pushing, inserted, jobs, todo, picked, pending, reported,
                 confirmed, withdrawn, dropped, left, unseen, overlapped, faults, logins>>

LoginServed(s) ==
  /\ <<LoginRunner, s>> \notin calls
  /\ \A d \in Docs : <<LoginRunner, s, d>> \notin todo \cup picked
  /\ LoginFinish(s)
  /\ UNCHANGED dvars

\* The process dies and is started again.
Restart ==
  /\ faults < MaxFaults
  /\ faults' = faults + 1
  /\ sock' = [s \in Sessions |-> IF sock[s] = "none" THEN "none" ELSE "closed"]
  /\ pc' = [s \in Sessions |-> IF sock[s] = "none" THEN "none" ELSE "stopped"]
  /\ status' = [s \in Sessions |-> Disconnected]
  /\ registry' = {}
  /\ pushing' = [s \in Sessions |-> {}] /\ inserted' = [s \in Sessions |-> {}]
  /\ jobs' = {} /\ calls' = {} /\ todo' = {} /\ picked' = {} /\ pending' = {}
  /\ UNCHANGED <<accountId, swept, store, source, trail, logins>>

\* Connections and packets that need nothing of this module.
RegistryStep ==
  /\ \/ \E s \in Sessions :
          Start(s) \/ Handshake(s) \/ Close(s) \/ ReadStops(s) \/ Logout(s)
     \/ RemoveSessions
  /\ UNCHANGED dvars

\* What a session's handlers do once they have begun.
SessionHandler(s) ==
  \/ \E d \in Docs : PushOne(s, d)
  \/ PushEnd(s)
  \/ (CloseRemove(s) \/ LoginRemove(s)) /\ UNCHANGED dvars
  \/ \E a \in Accounts : LoginServe(s, a)
  \/ LoginServed(s)

\* One call of processRequests, on a session by a runner.
Runner(r, s) == GetRequests(r, s) \/ \E d \in Docs : ProcessOne(r, s, d)

Answer(r, s) == \E d \in Docs : Confirm(r, s, d) \/ Refuse(r, s, d)

Next ==
  \/ RegistryStep
  \/ Restart
  \/ \E s \in Sessions :
       \/ \E i \in Requests, dsts \in SUBSET Accounts : PushRequest(s, i, dsts)
       \/ \E d \in Docs : DispatchRequest(s, d)
       \/ LoginBegin(s) \/ SessionHandler(s)
       \/ \E r \in Runners : Runner(r, s) \/ Answer(r, s)
  \/ \E d \in Docs : ProcessUserRequests(d)

\* Handlers and queued jobs run; clients owe nothing.
Fairness ==
  /\ \A s \in Sessions : WF_vars(SessionHandler(s))
  /\ \A d \in Docs : WF_vars(ProcessUserRequests(d))
  /\ \A s \in Sessions, r \in Runners : WF_vars(Runner(r, s))

Spec == Init /\ [][Next]_vars /\ Fairness

-----------------------------------------------------------------------------
\* Every variable has its type.
TypeOK ==
  /\ RegistryTypeOK
  /\ store \subseteq Docs /\ jobs \subseteq Docs
  /\ reported \subseteq Docs /\ confirmed \subseteq Docs /\ withdrawn \subseteq Docs
  /\ dropped \subseteq Docs
  /\ source \in [Requests -> Accounts \cup {NoAccount}]
  /\ pushing \in [Sessions -> SUBSET Docs] /\ inserted \in [Sessions -> SUBSET Docs]
  /\ calls \subseteq Runners \X Sessions
  /\ todo \subseteq Runners \X Sessions \X Docs
  /\ picked \subseteq Runners \X Sessions \X Docs
  /\ pending \subseteq Runners \X Sessions \X Docs
  /\ left \subseteq Sessions \X Docs /\ unseen \subseteq Sessions \X Docs
  /\ carried \subseteq Sessions \X Docs /\ overlapped \subseteq Sessions \X Requests
  /\ logins \in 0 .. MaxLogins /\ faults \in 0 .. MaxFaults

\* The session took a copy of the message along to another account.
Took(s, i) == \E e \in Docs : e[1] = i /\ <<s, e>> \in carried

\* No stored message is lost: what the sender was told is on its way stays in
\* the store until a client that was sent that very document confirms it or a
\* party to it withdraws it, over logins, several devices, failing calls and
\* restarts.  There are two ways out: the insert, whose failure addRequest does
\* not report, and a session that took another recipient's copy of the same
\* message along to this account: its callback reads accountId() late.
NoLoss ==
  \A d \in reported \ (store \cup confirmed \cup withdrawn \cup dropped) :
    \E s \in Sessions, a \in Accounts \ {d[2]} : <<s, <<d[1], a>>>> \in carried

\* Insert-then-post against register-then-list: whichever of a push and a
\* login comes first, a document in the store of a listed session was posted
\* there, or somebody is still going to look.  The ways out: the list that should have
\* had it came from a query that threw, its answer left it in the store, or the
\* session took a copy of the same message along to another account.
Covered ==
  \A d \in store, s \in Sessions :
    <<d[2], s>> \in registry =>
      \/ \E r \in Runners :
           \/ <<r, s>> \in calls
           \/ <<r, s, d>> \in todo \cup picked \cup pending
      \/ d \in jobs \/ \E t \in Sessions : d \in inserted[t]
      \/ <<s, d>> \in left \cup unseen \/ Took(s, d[1])

\* A client has the same request id before it twice only when two runners
\* were between requestPending and postRequest of it at the same time, even
\* when the session changed its account.
PostedOnce ==
  \A p \in pending, q \in pending :
    p # q /\ p[2] = q[2] /\ p[3][1] = q[3][1] => <<p[2], p[3][1]>> \in overlapped

\* A stored document reaches every session of its recipient: it is put to the
\* client unless it, or the session, goes away first, or the ways out of
\* Covered apply.
Offered ==
  \A d \in Docs, s \in Sessions :
    d \in store /\ <<d[2], s>> \in registry ~>
      \/ \E r \in Runners : <<r, s, d>> \in pending
      \/ d \notin store \/ <<d[2], s>> \notin registry
      \/ <<s, d>> \in left \cup unseen \/ Took(s, d[1])

Box == INSTANCE Mailbox WITH
  box <- store, put <- reported \ dropped,
  taken <- {d \in Docs : \E s \in Sessions : <<s, d>> \in carried}

\* Delivery implements Mailbox: no step takes a document out of the store
\* but its own confirmation or withdrawal, or the confirmation of another copy
\* of the message that a session took along.
KeepsMail == Box!Spec
=============================================================================
