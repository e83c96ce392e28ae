------------------------------ MODULE Contacts ------------------------------
(***************************************************************************)
(* Contact requests (src/src/session.cpp): AddContact by name or by add    *)
(* code, CreateAddCode, AcceptContact, RejectContact and Dispatch, over    *)
(* the collection zway.requests.  Each database call is a step of its own; *)
(* the handlers of different sessions, two devices of one account among    *)
(* them, interleave between the calls.                                     *)
(*                                                                         *)
(* Sessions here are logged in.  A request that is refused before anything *)
(* is stored (unknown name, missing key, own account) changes nothing and  *)
(* is not an action.  Random add codes are taken to be new.  How a stored  *)
(* document finds its recipient's sessions is the subject of Delivery.     *)
(***************************************************************************)
EXTENDS Naturals, FiniteSets

CONSTANTS
  Sessions,     \* logged-in sessions
  Accounts,
  Owner,        \* the account of each session
  Ids,          \* request ids, chosen by the clients
  Codes,        \* add codes
  None,         \* an absent field
  MaxFaults     \* bound on the crashes and on the database calls that throw

\* The contact documents of zway.requests.
Document ==
  [id : Ids, type : {"add", "accept", "reject"}, src : Accounts,
   dst : Accounts \cup {None}, code : Codes \cup {None}, ref : Ids \cup {None}]

ASSUME ContactsAssumption ==
  /\ Owner \in [Sessions -> Accounts]
  /\ None \notin Accounts \cup Ids \cup Codes \cup Document
  /\ MaxFaults \in Nat

VARIABLES
  docs,      \* the contact documents of zway.requests
  pc,        \* pc[s]: where the handler of s is
  job,       \* job[s]: the document the handler of s is going to insert
  contacts,  \* contacts[s]: entries of m_contacts made by the server
  posted,    \* <<s, d>>: answer d is posted on s and unanswered
  used,      \* ids the clients have used
  asked,     \* history: the AddContact documents reported as inserted
  verdicts,  \* history: the AcceptContact and RejectContact ones
  heard,     \* history: ids of documents whose answer was confirmed or answered
  withdrawn, \* history: ids of requests given up by Dispatch, them or their answer
  spent,     \* history: codes the handler that used them has deleted
  raced,     \* history: accounts that had two handlers at once or one cut off
  unfiled,   \* history: documents of asked and verdicts whose insert failed
  unchecked, \* history: <<src, dst>> for which requestPending failed
  undeleted, \* history: ids of answered documents whose delete failed
  faults

failed == <<unfiled, unchecked, undeleted, faults>>
vars == <<docs, pc, job, contacts, posted, used, asked, verdicts, heard,
          withdrawn, spent, raced, failed>>

Doc(i, type, src, dst, code, ref) ==
  [id |-> i, type |-> type, src |-> src, dst |-> dst, code |-> code, ref |-> ref]

Init ==
  /\ docs = {} /\ posted = {} /\ used = {}
  /\ pc = [s \in Sessions |-> "idle"]
  /\ job = [s \in Sessions |-> None]
  /\ contacts = [s \in Sessions |-> {}]
  /\ asked = {} /\ verdicts = {} /\ heard = {} /\ withdrawn = {} /\ spent = {}
  /\ raced = {} /\ unfiled = {} /\ unchecked = {} /\ undeleted = {}
  /\ faults = 0

\* A database call throws; every one of them catches that and goes on.
Throws ==
  /\ faults < MaxFaults
  /\ faults' = faults + 1

\* Another session of the account is in the middle of a handler.
NoteRace(s) ==
  raced' = IF \E t \in Sessions \ {s} : Owner[t] = Owner[s] /\ pc[t] # "idle"
           THEN raced \cup {Owner[s]} ELSE raced

\* A handler begins, with document d to be inserted.
Begin(s, l, d) ==
  /\ pc[s] = "idle" /\ d.id \notin used
  /\ used' = used \cup {d.id}
  /\ job' = [job EXCEPT ![s] = d]
  /\ pc' = [pc EXCEPT ![s] = l]
  /\ NoteRace(s)

Goto(s, l) == pc' = [pc EXCEPT ![s] = l]

\* deleteRequest with justOne: MongoDB picks one of the matching documents.
DeleteOne(match) ==
  \/ match = {} /\ UNCHANGED docs
  \/ \E d \in match : docs' = docs \ {d}

-----------------------------------------------------------------------------
\* processAddContactRequest, up to the lookup of account b.
AddByName(s, i, b) ==
  /\ b # Owner[s]
  /\ Begin(s, "check", Doc(i, "add", Owner[s], b, None, None))
  /\ UNCHANGED <<docs, contacts, posted, asked, verdicts, heard, withdrawn, spent, failed>>

\* The same with an add code: the contact is the src of a document with it.
AddByCode(s, i, c) ==
  /\ \E d \in docs :
       /\ d.type = "add" /\ d.code = c
       /\ d.src # Owner[s]
       /\ Begin(s, "check", Doc(i, "add", Owner[s], d.src, c, None))
  /\ UNCHANGED <<docs, contacts, posted, asked, verdicts, heard, withdrawn, spent, failed>>

\* Mutant of CheckPending: the answer of requestPending is ignored.
CheckNothing(s) ==
  /\ pc[s] = "check"
  /\ Goto(s, "insert")
  /\ UNCHANGED <<docs, job, contacts, posted, used, asked, verdicts, heard, withdrawn,
                 spent, raced, failed>>

\* DB::requestPending compares the count with 1; a count that throws finds
\* nothing pending.
CheckPending(s) ==
  LET same == {d \in docs : d.type = "add" /\ d.src = job[s].src /\ d.dst = job[s].dst}
  IN /\ pc[s] = "check"
     /\ \/ /\ Goto(s, IF Cardinality(same) = 1 THEN "idle" ELSE "insert")
           /\ UNCHANGED <<unchecked, faults>>
        \/ /\ Throws
           /\ Goto(s, "insert")
           /\ unchecked' = unchecked \cup {<<job[s].src, job[s].dst>>}
     /\ UNCHANGED <<docs, job, contacts, posted, used, asked, verdicts, heard, withdrawn,
                    spent, raced, unfiled, undeleted>>

\* DB::addRequest reports success even after an exception.
AddRequest(d) ==
  /\ \/ docs' = docs \cup {d} /\ UNCHANGED <<unfiled, faults>>
     \/ Throws /\ unfiled' = unfiled \cup {d} /\ UNCHANGED docs
  /\ UNCHANGED <<unchecked, undeleted>>

\* addRequest; without an add code the handler is done.
InsertAdd(s) ==
  /\ pc[s] = "insert"
  /\ AddRequest(job[s])
  /\ asked' = asked \cup {job[s]}
  /\ Goto(s, IF job[s].code = None THEN "idle" ELSE "drop")
  /\ UNCHANGED <<job, contacts, posted, used, verdicts, heard, withdrawn, spent, raced>>

\* "delete add code if any": one document with the code, or none when the
\* delete fails, which nobody looks at.
DropCode(s) ==
  /\ pc[s] = "drop"
  /\ \/ /\ DeleteOne({d \in docs : d.code = job[s].code})
        /\ spent' = spent \cup {job[s].code}
        /\ UNCHANGED faults
     \/ Throws /\ UNCHANGED <<docs, spent>>
  /\ Goto(s, "idle")
  /\ UNCHANGED <<job, contacts, posted, used, asked, verdicts, heard, withdrawn, raced,
                 unfiled, unchecked, undeleted>>

\* processCreateAddCode: an AddContact document without dst.
CreateAddCode(s, i, c) ==
  /\ pc[s] = "idle" /\ i \notin used
  /\ c \notin spent /\ \A d \in docs : d.code # c
  /\ \A t \in Sessions : pc[t] # "idle" => job[t].code # c
  /\ used' = used \cup {i}
  /\ AddRequest(Doc(i, "add", Owner[s], None, c, None))
  /\ UNCHANGED <<pc, job, contacts, posted, asked, verdicts, heard, withdrawn, spent, raced>>

-----------------------------------------------------------------------------
\* Mutant of Decide: the query has no dst.
DecideAnyones(s, i, d, verdict) ==
  /\ d \in docs /\ d.dst # None
  /\ d.type = "reject" => verdict = "reject"
  /\ Begin(s, "answer", Doc(i, verdict, Owner[s], d.src, None, d.id))
  /\ UNCHANGED <<docs, contacts, posted, asked, verdicts, heard, withdrawn, spent, failed>>

\* Mutant of Decide: the answer is stored under the id of the request.
DecideSameId(s, i, d, verdict) ==
  /\ pc[s] = "idle"
  /\ d \in docs /\ d.dst = Owner[s]
  /\ d.type = "reject" => verdict = "reject"
  /\ job' = [job EXCEPT ![s] = Doc(d.id, verdict, Owner[s], d.src, None, d.id)]
  /\ pc' = [pc EXCEPT ![s] = "answer"]
  /\ UNCHANGED <<docs, contacts, posted, used, asked, verdicts, heard, withdrawn, spent,
                 raced, failed>>

\* getRequest by id and dst: a document is answered by the account it is for,
\* and may itself be an answer.  A rejection has no publicKey, and accepting it
\* ends the process: an exception that nobody catches.
Decide(s, i, d, verdict) ==
  /\ d \in docs /\ d.dst = Owner[s]
  /\ d.type = "reject" => verdict = "reject"
  /\ Begin(s, "answer", Doc(i, verdict, Owner[s], d.src, None, d.id))
  /\ UNCHANGED <<docs, contacts, posted, asked, verdicts, heard, withdrawn, spent, failed>>

AcceptContact(s, i, d) == Decide(s, i, d, "accept")
RejectContact(s, i, d) == Decide(s, i, d, "reject")

\* Mutant of InsertAnswer: the request is deleted before its answer is stored.
AnswerDeletesFirst(s) ==
  /\ pc[s] = "answer"
  /\ DeleteOne({d \in docs : d.id = job[s].ref})
  /\ verdicts' = verdicts \cup {job[s]}
  /\ Goto(s, "delete")
  /\ UNCHANGED <<job, contacts, posted, used, asked, heard, withdrawn, spent, raced, failed>>

\* addRequest of the answer, addressed to the requester.
InsertAnswer(s) ==
  /\ pc[s] = "answer"
  /\ AddRequest(job[s])
  /\ verdicts' = verdicts \cup {job[s]}
  /\ Goto(s, "delete")
  /\ UNCHANGED <<job, contacts, posted, used, asked, heard, withdrawn, spent, raced>>

\* "add contact" when accepting, and the end of the handler.
AnswerEnds(s) ==
  /\ contacts' = [contacts EXCEPT
       ![s] = IF job[s].type = "accept" THEN @ \cup {job[s].dst} ELSE @]
  /\ Goto(s, "idle")
  /\ UNCHANGED <<job, posted, used, asked, verdicts, withdrawn, spent, raced, unfiled,
                 unchecked>>

\* Mutant of DeleteAnswered: "delete contact request" is left out.
DeleteNothing(s) ==
  /\ pc[s] = "delete"
  /\ AnswerEnds(s)
  /\ UNCHANGED <<docs, heard, undeleted, faults>>

\* "delete contact request", by its id alone; that it failed is ignored.
DeleteAnswered(s) ==
  /\ pc[s] = "delete"
  /\ \/ /\ DeleteOne({d \in docs : d.id = job[s].ref})
        /\ heard' = heard \cup {d.ref : d \in {e \in docs : e.id = job[s].ref /\ e.type # "add"}}
        /\ UNCHANGED <<undeleted, faults>>
     \/ Throws /\ undeleted' = undeleted \cup {job[s].ref} /\ UNCHANGED <<docs, heard>>
  /\ AnswerEnds(s)

\* processRequests on a session of the requester; an AcceptContact is entered
\* in m_contacts at once.
PostAnswer(s, d) ==
  /\ d \in docs /\ d.type # "add" /\ d.dst = Owner[s]
  /\ <<s, d>> \notin posted
  /\ posted' = posted \cup {<<s, d>>}
  /\ contacts' = [contacts EXCEPT ![s] = IF d.type = "accept" THEN @ \cup {d.src} ELSE @]
  /\ UNCHANGED <<docs, pc, job, used, asked, verdicts, heard, withdrawn, spent, raced, failed>>

\* Its callback, status 1: delete {id, dst}; a failure is ignored.
ConfirmAnswer(s, d) ==
  /\ <<s, d>> \in posted /\ pc[s] = "idle"
  /\ posted' = posted \ {<<s, d>>}
  /\ \/ docs' = docs \ {d} /\ UNCHANGED faults
     \/ Throws /\ UNCHANGED docs
  /\ heard' = heard \cup {d.ref}
  /\ UNCHANGED <<pc, job, contacts, used, asked, verdicts, withdrawn, spent, raced, unfiled,
                 unchecked, undeleted>>

\* processDispatchRequest: either party deletes a document.  A delete that fails
\* is reported and changes nothing.
Dispatch(s, d) ==
  /\ pc[s] = "idle"
  /\ d \in docs /\ Owner[s] \in {d.src, d.dst}
  /\ docs' = docs \ {d}
  /\ withdrawn' = withdrawn \cup {IF d.type = "add" THEN d.id ELSE d.ref}
  /\ UNCHANGED <<pc, job, contacts, posted, used, asked, verdicts, heard, spent, raced, failed>>

\* The process dies and is started again.
Restart ==
  /\ Throws
  /\ pc' = [s \in Sessions |-> "idle"]
  /\ contacts' = [s \in Sessions |-> {}]
  /\ posted' = {}
  /\ raced' = raced \cup {Owner[s] : s \in {t \in Sessions : pc[t] # "idle"}}
  /\ UNCHANGED <<docs, job, used, asked, verdicts, heard, withdrawn, spent, unfiled,
                 unchecked, undeleted>>

Next ==
  \/ \E s \in Sessions, i \in Ids :
       \/ \E b \in Accounts : AddByName(s, i, b)
       \/ \E c \in Codes : AddByCode(s, i, c) \/ CreateAddCode(s, i, c)
       \/ \E d \in docs : AcceptContact(s, i, d) \/ RejectContact(s, i, d)
  \/ \E s \in Sessions :
       \/ CheckPending(s) \/ InsertAdd(s) \/ DropCode(s) \/ InsertAnswer(s) \/ DeleteAnswered(s)
       \/ \E d \in docs : PostAnswer(s, d) \/ Dispatch(s, d)
       \/ \E d \in verdicts : ConfirmAnswer(s, d)
  \/ Restart

Spec == Init /\ [][Next]_vars

-----------------------------------------------------------------------------
\* Every variable has its type; no id is shared by two documents; a handler
\* at work has a document of the kind its next step inserts or answers with.
TypeOK ==
  /\ docs \subseteq Document /\ asked \subseteq Document /\ verdicts \subseteq Document
  /\ pc \in [Sessions -> {"idle", "check", "insert", "drop", "answer", "delete"}]
  /\ job \in [Sessions -> Document \cup {None}]
  /\ contacts \in [Sessions -> SUBSET Accounts]
  /\ posted \subseteq Sessions \X verdicts
  /\ used \subseteq Ids /\ heard \subseteq Ids /\ withdrawn \subseteq Ids
  /\ spent \subseteq Codes /\ raced \subseteq Accounts
  /\ unfiled \subseteq Document /\ unchecked \subseteq Accounts \X Accounts
  /\ undeleted \subseteq Ids
  /\ faults \in 0 .. MaxFaults
  /\ \A d, e \in docs : d.id = e.id => d = e
  /\ \A s \in Sessions :
       pc[s] # "idle" =>
         job[s] # None /\ (job[s].type = "add" <=> pc[s] \in {"check", "insert", "drop"})

\* A contact request made by name that the requester was told is stored leaves
\* a trace, over concurrent answers of several devices and a crash between any
\* two database calls: it is stored, or its answer is, or the requester has
\* confirmed or answered an answer, or a party gave it up.  The way out is
\* addRequest, which reports success when it throws: the request, or an answer
\* after which the request is deleted all the same, was never stored.
RequestKept ==
  \A r \in {q \in asked : q.code = None} :
    \/ r \in docs
    \/ \E d \in docs : d.ref = r.id
    \/ r.id \in heard \cup withdrawn
    \/ \E d \in unfiled : d = r \/ d.ref = r.id

\* Nobody gets a contact without both sides: the one asked the other, who
\* accepted that very request.
Consent ==
  \A s \in Sessions : \A a \in contacts[s] :
    \E r \in asked, v \in verdicts :
      /\ {r.src, r.dst} = {a, Owner[s]}
      /\ v.ref = r.id /\ v.type = "accept" /\ v.src = r.dst /\ v.dst = r.src

\* The check-then-insert of AddContact is not atomic, but only two handlers of
\* the requester's own account, a crash, or a count that threw can interfere
\* with it: otherwise one request at most is outstanding for a pair of accounts.
OnePending ==
  \A d, e \in {q \in docs : q.type = "add" /\ q.dst # None /\ q.src \notin raced} :
    d.src = e.src /\ d.dst = e.dst => d = e \/ <<d.src, d.dst>> \in unchecked

\* Likewise the insert-then-delete of an answer: unless the account that was
\* asked had two handlers at once or one cut off, or the delete failed, which
\* nobody looks at, a request has one verdict.
OneVerdict ==
  \A v, w \in {q \in verdicts : q.src \notin raced} :
    v.ref = w.ref => v = w \/ v.ref \in undeleted

\* session.cpp:1275 says the handler deletes the add code it used: afterwards
\* the code resolves to no request.
CodeSpent == \A c \in spent : \A d \in docs : d.code # c
=============================================================================
