--------------------------- MODULE ContactsProofs ---------------------------
(***************************************************************************)
(* Proofs about Contacts, for any accounts, devices, ids, codes and number *)
(* of crashes and failed calls: contact requests leave a trace unless an   *)
(* insert failed, contacts have both consents, and the two check-then-act  *)
(* sequences of the handlers can be disturbed only from within one account,*)
(* by a crash or by their own failed call.                                 *)
(***************************************************************************)
EXTENDS Contacts, FiniteSetTheorems, TLAPS

All == docs \cup asked \cup verdicts \cup unfiled

\* The handler of s has not inserted its document yet.
Unborn(s) == pc[s] \in {"check", "insert", "answer"}

\* Ids lead to one document, and those of documents to come are new.
IdsUnique ==
  /\ \A d \in All : d.id \in used
  /\ \A d, e \in All : d.id = e.id => d = e
  /\ \A s \in Sessions : Unborn(s) =>
       job[s].id \in used /\ \A d \in All : d.id # job[s].id
  /\ \A s, t \in Sessions : Unborn(s) /\ Unborn(t) /\ job[s].id = job[t].id => s = t

\* What the documents of each kind look like.
Kinds ==
  /\ \A r \in asked : r.type = "add" /\ r.ref = None /\ r.dst # None
  /\ \A v \in verdicts : v.type # "add" /\ v.code = None /\ v.ref # None /\ v.dst # None
  /\ \A d \in docs : /\ d.type = "add" => d.ref = None
                     /\ d.type = "add" /\ d.dst # None => d \in asked
                     /\ d.type = "add" /\ d.dst = None => d.code # None
                     /\ d.type # "add" => d \in verdicts

\* What a handler has in hand at each place.
Jobs ==
  \A s \in Sessions : pc[s] # "idle" =>
    /\ job[s] \in Document /\ job[s].src = Owner[s] /\ job[s].dst # None
    /\ pc[s] \in {"check", "insert", "drop"} => job[s].type = "add" /\ job[s].ref = None
    /\ pc[s] \in {"answer", "delete"} =>
         job[s].type # "add" /\ job[s].ref # None /\ job[s].code = None
    /\ pc[s] = "drop" => job[s].code # None
    /\ pc[s] = "delete" => job[s] \in verdicts

\* v answers a document that was made, in the name of the account it is for;
\* nobody accepts a rejection.
Answers(v) ==
  \E r \in asked \cup verdicts :
    /\ v.ref = r.id /\ v.src = r.dst /\ v.dst = r.src
    /\ r.type = "reject" => v.type = "reject"

Links ==
  /\ \A v \in verdicts : Answers(v)
  /\ \A s \in Sessions : pc[s] = "answer" => Answers(job[s])

\* One of a and b asked the other, who accepted.
Agreed(a, b) ==
  \E r \in asked, v \in verdicts :
    /\ {r.src, r.dst} = {a, b}
    /\ v.ref = r.id /\ v.type = "accept" /\ v.src = r.dst /\ v.dst = r.src

\* An acceptance, also one of an acceptance, goes back to a request.
Agreement == \A v \in verdicts : v.type = "accept" => Agreed(v.src, v.dst)

\* The answer is stored before the request is deleted, unless that failed, and
\* leaves the store only through the parties.
AnswerFirst ==
  \A s \in Sessions :
    pc[s] = "delete" => job[s] \in docs \cup unfiled \/ job[s].ref \in heard \cup withdrawn

\* Handlers of one account that are at work together have been noted.
Overlaps ==
  \A s, t \in Sessions :
    s # t /\ Owner[s] = Owner[t] /\ pc[s] # "idle" /\ pc[t] # "idle" => Owner[s] \in raced

\* What requestPending has found still holds when the request is inserted.
Checked ==
  \A s \in Sessions :
    pc[s] = "insert" /\ Owner[s] \notin raced /\ <<Owner[s], job[s].dst>> \notin unchecked =>
      \A d \in docs : ~ (d.type = "add" /\ d.src = Owner[s] /\ d.dst = job[s].dst)

\* A document that has a verdict is gone, or its handler is about to delete it,
\* or the delete failed; so one that is being answered for the first time has
\* none.
Decided ==
  /\ \A s \in Sessions : pc[s] = "answer" /\ Owner[s] \notin raced =>
       \A v \in verdicts : v.ref # job[s].ref \/ v.ref \in undeleted
  /\ \A v \in verdicts : v.src \notin raced =>
       \/ \A d \in docs : d.id # v.ref
       \/ \E t \in Sessions : pc[t] = "delete" /\ job[t] = v
       \/ v.ref \in undeleted

\* What a step that only removes documents and ends handlers cannot harm.
Steady ==
  /\ IdsUnique /\ Kinds /\ Jobs /\ Links /\ Agreement /\ Overlaps /\ Checked /\ Decided
  /\ OnePending /\ OneVerdict

\* The inductive invariant.
Inv == TypeOK /\ Steady /\ AnswerFirst /\ RequestKept /\ Consent

LEMMA DocFields ==
  ASSUME NEW i \in Ids, NEW type \in {"add", "accept", "reject"}, NEW src \in Accounts,
         NEW dst \in Accounts \cup {None}, NEW code \in Codes \cup {None},
         NEW ref \in Ids \cup {None}
  PROVE  LET d == Doc(i, type, src, dst, code, ref)
         IN /\ d \in Document /\ d.id = i /\ d.type = type /\ d.src = src
            /\ d.dst = dst /\ d.code = code /\ d.ref = ref
BY DEF Doc, Document

\* Consents stay on record, and are the same seen from either side.
LEMMA AgreedKept ==
  ASSUME NEW a, NEW b, Agreed(a, b), asked \subseteq asked', verdicts \subseteq verdicts'
  PROVE  Agreed(a, b)'
<1>1. PICK r \in asked, v \in verdicts :
        /\ {r.src, r.dst} = {a, b}
        /\ v.ref = r.id /\ v.type = "accept" /\ v.src = r.dst /\ v.dst = r.src
  BY DEF Agreed
<1>2. r \in asked' /\ v \in verdicts'
  OBVIOUS
<1>. QED
  BY <1>1, <1>2 DEF Agreed

LEMMA AgreedSym ==
  ASSUME NEW a, NEW b, Agreed(a, b)
  PROVE  Agreed(b, a)
BY DEF Agreed

LEMMA ConsentAgreed == Consent <=> \A s \in Sessions : \A a \in contacts[s] : Agreed(a, Owner[s])
BY DEF Consent, Agreed

LEMMA AgreementKept ==
  ASSUME Agreement, asked \subseteq asked', verdicts' = verdicts
  PROVE  Agreement'
<1>1. SUFFICES ASSUME NEW v \in verdicts, v.type = "accept" PROVE Agreed(v.src, v.dst)'
  BY DEF Agreement
<1>. QED
  BY <1>1, AgreedKept DEF Agreement

LEMMA ConsentKept ==
  ASSUME Consent, contacts' = contacts, asked \subseteq asked', verdicts \subseteq verdicts'
  PROVE  Consent'
<1>1. SUFFICES ASSUME NEW s \in Sessions, NEW a \in contacts[s] PROVE Agreed(a, Owner[s])'
  BY DEF Consent, Agreed
<1>. QED
  BY ConsentAgreed, AgreedKept

\* What addRequest does with a new document, whether it fails or not.
LEMMA AddRequestEffect ==
  ASSUME TypeOK, NEW d \in Document, AddRequest(d)
  PROVE  /\ docs \subseteq docs' /\ docs' \subseteq docs \cup {d}
         /\ unfiled \subseteq unfiled' /\ unfiled' \subseteq unfiled \cup {d}
         /\ d \in docs' \cup unfiled'
         /\ docs' \subseteq Document /\ unfiled' \subseteq Document
         /\ faults' \in 0 .. MaxFaults
         /\ UNCHANGED <<unchecked, undeleted>>
<1>1. UNCHANGED faults \/ Throws
  BY DEF AddRequest
<1>2. faults' \in 0 .. MaxFaults
  BY <1>1, ContactsAssumption DEF Throws, TypeOK
<1>. QED
  BY <1>2 DEF AddRequest, TypeOK

\* A handler begins with document e to insert.
LEMMA BeginStep ==
  ASSUME Inv, NEW s \in Sessions, NEW l \in {"check", "answer"}, NEW e \in Document,
         Begin(s, l, e), e.src = Owner[s], e.dst # None,
         l = "check" => e.type = "add" /\ e.ref = None,
         l = "answer" => /\ e.type # "add" /\ e.ref # None /\ e.code = None
                         /\ \E d \in docs :
                              /\ d.dst = Owner[s] /\ e.dst = d.src /\ e.ref = d.id
                              /\ d.type = "reject" => e.type = "reject",
         UNCHANGED <<docs, contacts, posted, asked, verdicts, heard, withdrawn, spent, failed>>
  PROVE  Inv'
<1>. USE ContactsAssumption
<1>1. /\ pc[s] = "idle" /\ e.id \notin used /\ used' = used \cup {e.id}
      /\ job' = [job EXCEPT ![s] = e] /\ pc' = [pc EXCEPT ![s] = l]
      /\ pc' \in [Sessions -> {"idle", "check", "insert", "drop", "answer", "delete"}]
      /\ job' \in [Sessions -> Document \cup {None}]
      /\ e.id \in Ids
      /\ UNCHANGED <<unfiled, unchecked, undeleted, faults>>
  BY DEF Begin, Inv, TypeOK, Document, failed
<1>2. /\ pc'[s] = l /\ job'[s] = e
      /\ \A t \in Sessions \ {s} : pc'[t] = pc[t] /\ job'[t] = job[t]
  BY <1>1 DEF Inv, TypeOK
<1>3. /\ raced \subseteq raced' /\ raced' \subseteq Accounts
      /\ (\E t \in Sessions \ {s} : Owner[t] = Owner[s] /\ pc[t] # "idle") => Owner[s] \in raced'
  <2>1. raced \subseteq Accounts /\ Owner[s] \in Accounts
    BY DEF Inv, TypeOK
  <2>2. NoteRace(s)
    BY DEF Begin
  <2>. QED
    BY <2>1, <2>2 DEF NoteRace
<1>4. TypeOK'
  <2>1. \A t \in Sessions : pc'[t] # "idle" =>
          job'[t] # None /\ (job'[t].type = "add" <=> pc'[t] \in {"check", "insert", "drop"})
    BY <1>2 DEF Inv, TypeOK
  <2>. QED
    BY <1>1, <1>3, <2>1 DEF Inv, TypeOK
<1>5. IdsUnique'
  BY <1>1, <1>2 DEF Inv, Steady, IdsUnique, All, Unborn
<1>6. Kinds' /\ RequestKept' /\ Consent' /\ Agreement'
  <2>1. Agreement' /\ Consent'
    BY AgreementKept, ConsentKept DEF Inv, Steady
  <2>2. Kinds' /\ RequestKept'
    BY <1>1 DEF Inv, Steady, Kinds, RequestKept
  <2>. QED
    BY <2>1, <2>2
<1>7. Jobs'
  BY <1>2 DEF Inv, Steady, Jobs
<1>8. Links'
  <2>1. ASSUME l = "answer" PROVE Answers(e)
    BY <2>1 DEF Inv, Steady, Kinds, Answers
  <2>. QED
    BY <1>2, <2>1 DEF Inv, Steady, Links, Answers
<1>9. AnswerFirst'
  BY <1>1, <1>2 DEF Inv, AnswerFirst
<1>10. Overlaps'
  BY <1>2, <1>3 DEF Inv, Steady, Overlaps
<1>11. Checked'
  BY <1>1, <1>2, <1>3 DEF Inv, Steady, Checked
<1>12. Decided'
  <2>1. ASSUME l = "answer", Owner[s] \notin raced', NEW v \in verdicts
        PROVE  v.ref # e.ref \/ v.ref \in undeleted
    <3>1. PICK d \in docs : d.dst = Owner[s] /\ e.ref = d.id
      BY <2>1
    <3>2. SUFFICES ASSUME v.ref = d.id, v.ref \notin undeleted PROVE FALSE
      BY <3>1
    <3>3. d \in asked \cup verdicts
      BY <3>1 DEF Inv, Steady, Kinds
    <3>4. v.src = Owner[s]
      BY <3>1, <3>2, <3>3 DEF Inv, Steady, Links, Answers, IdsUnique, All
    <3>5. PICK t \in Sessions : pc[t] = "delete" /\ job[t] = v
      BY <1>3, <2>1, <3>2, <3>4 DEF Inv, Steady, Decided
    <3>6. Owner[t] = Owner[s] /\ t # s
      BY <1>1, <3>4, <3>5 DEF Inv, Steady, Jobs
    <3>. QED
      BY <1>3, <2>1, <3>5, <3>6
  <2>2. ASSUME NEW v \in verdicts, v.src \notin raced'
        PROVE  \/ \A d \in docs : d.id # v.ref
               \/ \E t \in Sessions : pc'[t] = "delete" /\ job'[t] = v
               \/ v.ref \in undeleted
    <3>1. CASE \A d \in docs : d.id # v.ref
      BY <3>1
    <3>2. ASSUME NEW t \in Sessions, pc[t] = "delete", job[t] = v
          PROVE  pc'[t] = "delete" /\ job'[t] = v
      BY <1>1, <1>2, <3>2
    <3>. QED
      BY <1>3, <2>2, <3>1, <3>2 DEF Inv, Steady, Decided
  <2>3. ASSUME NEW t \in Sessions, pc'[t] = "answer", Owner[t] \notin raced', NEW v \in verdicts
        PROVE  v.ref # job'[t].ref \/ v.ref \in undeleted
    <3>1. CASE t = s
      BY <1>2, <2>1, <2>3, <3>1
    <3>2. CASE t # s
      BY <1>2, <1>3, <2>3, <3>2 DEF Inv, Steady, Decided
    <3>. QED
      BY <3>1, <3>2
  <2>. QED
    BY <1>1, <2>2, <2>3 DEF Decided
<1>13. OnePending' /\ OneVerdict'
  BY <1>1, <1>3 DEF Inv, Steady, OnePending, OneVerdict
<1>. QED
  BY <1>4, <1>5, <1>6, <1>7, <1>8, <1>9, <1>10, <1>11, <1>12, <1>13 DEF Inv, Steady

LEMMA AddByNameStep ==
  ASSUME Inv, NEW s \in Sessions, NEW i \in Ids, NEW b \in Accounts, AddByName(s, i, b)
  PROVE  Inv'
<1>. DEFINE e == Doc(i, "add", Owner[s], b, None, None)
<1>1. /\ e \in Document /\ e.src = Owner[s] /\ e.dst = b /\ e.type = "add" /\ e.ref = None
      /\ b # None
  BY ContactsAssumption, DocFields
<1>2. /\ Begin(s, "check", e)
      /\ UNCHANGED <<docs, contacts, posted, asked, verdicts, heard, withdrawn, spent, failed>>
  BY DEF AddByName
<1>. HIDE DEF e
<1>. QED
  BY <1>1, <1>2, BeginStep

LEMMA AddByCodeStep ==
  ASSUME Inv, NEW s \in Sessions, NEW i \in Ids, NEW c \in Codes, AddByCode(s, i, c)
  PROVE  Inv'
<1>1. PICK d \in docs : Begin(s, "check", Doc(i, "add", Owner[s], d.src, c, None))
  BY DEF AddByCode
<1>. DEFINE e == Doc(i, "add", Owner[s], d.src, c, None)
<1>2. d.src \in Accounts /\ d.src # None
  BY ContactsAssumption DEF Inv, TypeOK, Document
<1>3. e \in Document /\ e.src = Owner[s] /\ e.dst = d.src /\ e.type = "add" /\ e.ref = None
  BY ContactsAssumption, <1>2, DocFields
<1>4. UNCHANGED <<docs, contacts, posted, asked, verdicts, heard, withdrawn, spent, failed>>
  BY DEF AddByCode
<1>5. Begin(s, "check", e)
  BY <1>1
<1>. HIDE DEF e
<1>. QED
  BY <1>2, <1>3, <1>4, <1>5, BeginStep

LEMMA DecideStep ==
  ASSUME Inv, NEW s \in Sessions, NEW i \in Ids, NEW d \in docs,
         NEW verdict \in {"accept", "reject"}, Decide(s, i, d, verdict)
  PROVE  Inv'
<1>. DEFINE e == Doc(i, verdict, Owner[s], d.src, None, d.id)
<1>1. d.src \in Accounts /\ d.id \in Ids
  BY DEF Inv, TypeOK, Document
<1>2. d.src # None /\ d.id # None
  BY <1>1, ContactsAssumption
<1>3. /\ e \in Document /\ e.src = Owner[s] /\ e.dst = d.src /\ e.type = verdict
      /\ e.ref = d.id /\ e.code = None
  BY ContactsAssumption, <1>1, DocFields
<1>4. /\ Begin(s, "answer", e) /\ d.dst = Owner[s]
      /\ d.type = "reject" => verdict = "reject"
      /\ UNCHANGED <<docs, contacts, posted, asked, verdicts, heard, withdrawn, spent, failed>>
  BY DEF Decide
<1>. HIDE DEF e
<1>5. \E x \in docs : /\ x.dst = Owner[s] /\ e.dst = x.src /\ e.ref = x.id
                    /\ x.type = "reject" => e.type = "reject"
  BY <1>3, <1>4
<1>. QED
  BY <1>2, <1>3, <1>4, <1>5, BeginStep

\* requestPending counts the documents of the pair.
LEMMA CheckPendingStep ==
  ASSUME Inv, NEW s \in Sessions, CheckPending(s)
  PROVE  Inv'
<1>. USE ContactsAssumption
<1>. DEFINE same == {d \in docs : d.type = "add" /\ d.src = job[s].src /\ d.dst = job[s].dst}
<1>1. /\ pc[s] = "check"
      /\ pc' \in {[pc EXCEPT ![s] = "idle"], [pc EXCEPT ![s] = "insert"]}
      /\ unchecked' \in {unchecked, unchecked \cup {<<job[s].src, job[s].dst>>}}
      /\ \/ <<job[s].src, job[s].dst>> \in unchecked'
         \/ pc' = [pc EXCEPT ![s] = IF Cardinality(same) = 1 THEN "idle" ELSE "insert"]
      /\ UNCHANGED faults \/ Throws
      /\ UNCHANGED <<docs, job, contacts, posted, used, asked, verdicts, heard, withdrawn,
                     spent, raced, unfiled, undeleted>>
  BY DEF CheckPending, Goto
<1>2. /\ pc'[s] \in {"idle", "insert"} /\ \A t \in Sessions \ {s} : pc'[t] = pc[t]
      /\ pc' \in [Sessions -> {"idle", "check", "insert", "drop", "answer", "delete"}]
  BY <1>1 DEF Inv, TypeOK
<1>3. ASSUME pc'[s] = "insert", Owner[s] \notin raced, <<Owner[s], job[s].dst>> \notin unchecked'
      PROVE  same = {}
  <2>2. job[s].src = Owner[s] /\ job[s].dst # None
    BY <1>1 DEF Inv, Steady, Jobs
  <2>1. Cardinality(same) # 1
    BY <1>1, <1>3, <2>2 DEF Inv, TypeOK
  <2>3. \A d, e \in same : d = e
    BY <1>1, <1>3, <2>2 DEF Inv, Steady, OnePending
  <2>4. ASSUME NEW d \in same PROVE FALSE
    <3>1. same = {d}
      BY <2>3
    <3>2. Cardinality({d}) = 1
      BY FS_Singleton
    <3>. QED
      BY <2>1, <3>1, <3>2
  <2>. QED
    BY <2>4
<1>4. TypeOK'
  <2>1. faults' \in 0 .. MaxFaults
    BY <1>1 DEF Inv, TypeOK, Throws
  <2>2. job[s].src \in Accounts /\ job[s].dst \in Accounts
    BY <1>1 DEF Inv, Steady, Jobs, Document
  <2>3. unchecked' \subseteq Accounts \X Accounts
    BY <1>1, <2>2 DEF Inv, TypeOK
  <2>4. \A t \in Sessions : pc'[t] # "idle" =>
          job'[t] # None /\ (job'[t].type = "add" <=> pc'[t] \in {"check", "insert", "drop"})
    BY <1>1, <1>2 DEF Inv, TypeOK
  <2>. QED
    BY <1>1, <1>2, <2>1, <2>3, <2>4 DEF Inv, TypeOK
<1>5. IdsUnique'
  BY <1>1, <1>2 DEF Inv, Steady, IdsUnique, All, Unborn
<1>6. Kinds' /\ RequestKept' /\ Consent' /\ Agreement' /\ OnePending' /\ OneVerdict'
  <2>1. Agreement' /\ Consent'
    BY <1>1, AgreementKept, ConsentKept DEF Inv, Steady
  <2>2. Kinds' /\ RequestKept' /\ OneVerdict'
    BY <1>1 DEF Inv, Steady, Kinds, RequestKept, OneVerdict
  <2>3. OnePending'
    BY <1>1 DEF Inv, Steady, OnePending
  <2>. QED
    BY <2>1, <2>2, <2>3
<1>7. Jobs'
  BY <1>1, <1>2 DEF Inv, Steady, Jobs
<1>8. Links' /\ AnswerFirst'
  BY <1>1, <1>2 DEF Inv, Steady, Links, Answers, AnswerFirst
<1>9. Overlaps'
  BY <1>1, <1>2 DEF Inv, Steady, Overlaps
<1>10. Checked'
  <2>1. ASSUME pc'[s] = "insert", Owner[s] \notin raced,
               <<Owner[s], job[s].dst>> \notin unchecked', NEW d \in docs
        PROVE  ~ (d.type = "add" /\ d.src = Owner[s] /\ d.dst = job[s].dst)
    <3>1. job[s].src = Owner[s]
      BY <1>1 DEF Inv, Steady, Jobs
    <3>. QED
      BY <1>3, <2>1, <3>1
  <2>. QED
    BY <1>1, <1>2, <2>1 DEF Inv, Steady, Checked
<1>11. Decided'
  BY <1>1, <1>2 DEF Inv, Steady, Decided
<1>. QED
  BY <1>4, <1>5, <1>6, <1>7, <1>8, <1>9, <1>10, <1>11 DEF Inv, Steady

\* addRequest of a contact request.
LEMMA InsertAddStep ==
  ASSUME Inv, NEW s \in Sessions, InsertAdd(s)
  PROVE  Inv'
<1>. USE ContactsAssumption
<1>1. /\ pc[s] = "insert" /\ AddRequest(job[s]) /\ asked' = asked \cup {job[s]}
      /\ pc' = [pc EXCEPT ![s] = IF job[s].code = None THEN "idle" ELSE "drop"]
      /\ UNCHANGED <<job, contacts, posted, used, verdicts, heard, withdrawn, spent, raced>>
  BY DEF InsertAdd, Goto
<1>2. /\ pc'[s] \in {"idle", "drop"} /\ \A t \in Sessions \ {s} : pc'[t] = pc[t]
      /\ pc'[s] = "drop" => job[s].code # None
      /\ pc' \in [Sessions -> {"idle", "check", "insert", "drop", "answer", "delete"}]
  BY <1>1 DEF Inv, TypeOK
<1>3. /\ job[s] \in Document /\ job[s].src = Owner[s] /\ job[s].dst # None
      /\ job[s].type = "add" /\ job[s].ref = None
  BY <1>1 DEF Inv, Steady, Jobs
<1>4. Unborn(s) /\ \A d \in All : d.id # job[s].id
  BY <1>1 DEF Inv, Steady, IdsUnique, Unborn
<1>add. /\ docs \subseteq docs' /\ docs' \subseteq docs \cup {job[s]}
      /\ unfiled \subseteq unfiled' /\ unfiled' \subseteq unfiled \cup {job[s]}
      /\ job[s] \in docs' \cup unfiled'
      /\ docs' \subseteq Document /\ unfiled' \subseteq Document
      /\ faults' \in 0 .. MaxFaults
      /\ UNCHANGED <<unchecked, undeleted>>
  BY <1>1, <1>3, AddRequestEffect DEF Inv
<1>5. TypeOK'
  <2>1. \A d, e \in docs' : d.id = e.id => d = e
    BY <1>add, <1>4 DEF Inv, TypeOK, All
  <2>2. \A t \in Sessions : pc'[t] # "idle" =>
          job'[t] # None /\ (job'[t].type = "add" <=> pc'[t] \in {"check", "insert", "drop"})
    BY <1>1, <1>2, <1>3 DEF Inv, TypeOK
  <2>. QED
    BY <1>1, <1>2, <1>3, <1>add, <2>1, <2>2 DEF Inv, TypeOK
<1>6. IdsUnique'
  <2>1. All' = All \cup {job[s]}
    BY <1>1, <1>add DEF All
  <2>2. \A t \in Sessions : Unborn(t)' => Unborn(t) /\ t # s
    BY <1>2 DEF Unborn
  <2>. QED
    BY <1>1, <1>4, <2>1, <2>2 DEF Inv, Steady, IdsUnique
<1>7. Kinds'
  BY <1>1, <1>3, <1>add DEF Inv, Steady, Kinds
<1>8. Jobs'
  BY <1>1, <1>2, <1>3 DEF Inv, Steady, Jobs
<1>9. Links' /\ AnswerFirst'
  BY <1>1, <1>2, <1>add DEF Inv, Steady, Links, Answers, AnswerFirst
<1>10. Overlaps'
  BY <1>1, <1>2 DEF Inv, Steady, Overlaps
<1>11. Checked'
  <2>1. SUFFICES ASSUME NEW t \in Sessions, pc'[t] = "insert", Owner[t] \notin raced,
                        <<Owner[t], job[t].dst>> \notin unchecked, NEW d \in docs', d.type = "add", d.src = Owner[t], d.dst = job[t].dst
                 PROVE  FALSE
    BY <1>1, <1>add DEF Checked
  <2>2. t # s /\ pc[t] = "insert"
    BY <1>2, <2>1
  <2>3. Owner[t] # Owner[s]
    BY <1>1, <2>1, <2>2 DEF Inv, Steady, Overlaps
  <2>. QED
    BY <1>1, <1>3, <1>add, <2>1, <2>2, <2>3 DEF Inv, Steady, Checked
<1>12. Decided'
  <2>1. ASSUME NEW v \in verdicts PROVE v.ref # job[s].id
    BY <1>4 DEF Inv, Steady, Links, Answers, All
  <2>2. \A t \in Sessions : pc[t] \in {"answer", "delete"} <=> pc'[t] \in {"answer", "delete"}
    BY <1>1, <1>2
  <2>3. \A t \in Sessions : pc'[t] \in {"answer", "delete"} => pc'[t] = pc[t]
    BY <1>1, <1>2
  <2>. QED
    BY <1>1, <1>add, <2>1, <2>2, <2>3 DEF Inv, Steady, Decided
<1>13. RequestKept' /\ Consent' /\ Agreement'
  <2>1. RequestKept'
    BY <1>1, <1>add DEF Inv, RequestKept
  <2>2. Consent'
    BY <1>1, ConsentKept DEF Inv
  <2>3. Agreement'
    BY <1>1, AgreedKept DEF Inv, Steady, Agreement
  <2>. QED
    BY <2>1, <2>2, <2>3
<1>14. OnePending'
  BY <1>1, <1>3, <1>add DEF Inv, Steady, OnePending, Checked
<1>15. OneVerdict'
  BY <1>1, <1>add DEF Inv, Steady, OneVerdict
<1>. QED
  BY <1>5, <1>6, <1>7, <1>8, <1>9, <1>10, <1>11, <1>12, <1>13, <1>14, <1>15 DEF Inv, Steady

\* addRequest of an answer.
LEMMA InsertAnswerStep ==
  ASSUME Inv, NEW s \in Sessions, InsertAnswer(s)
  PROVE  Inv'
<1>. USE ContactsAssumption
<1>1. /\ pc[s] = "answer" /\ AddRequest(job[s]) /\ verdicts' = verdicts \cup {job[s]}
      /\ pc' = [pc EXCEPT ![s] = "delete"]
      /\ UNCHANGED <<job, contacts, posted, used, asked, heard, withdrawn, spent, raced>>
  BY DEF InsertAnswer, Goto
<1>2. /\ pc'[s] = "delete" /\ \A t \in Sessions \ {s} : pc'[t] = pc[t]
      /\ pc' \in [Sessions -> {"idle", "check", "insert", "drop", "answer", "delete"}]
  BY <1>1 DEF Inv, TypeOK
<1>3. /\ job[s] \in Document /\ job[s].src = Owner[s] /\ job[s].dst # None
      /\ job[s].type # "add" /\ job[s].ref # None /\ job[s].code = None
  BY <1>1 DEF Inv, Steady, Jobs
<1>4. Unborn(s) /\ \A d \in All : d.id # job[s].id
  BY <1>1 DEF Inv, Steady, IdsUnique, Unborn
<1>add. /\ docs \subseteq docs' /\ docs' \subseteq docs \cup {job[s]}
      /\ unfiled \subseteq unfiled' /\ unfiled' \subseteq unfiled \cup {job[s]}
      /\ job[s] \in docs' \cup unfiled'
      /\ docs' \subseteq Document /\ unfiled' \subseteq Document
      /\ faults' \in 0 .. MaxFaults
      /\ UNCHANGED <<unchecked, undeleted>>
  BY <1>1, <1>3, AddRequestEffect DEF Inv
<1>5. PICK r \in asked \cup verdicts :
        /\ job[s].ref = r.id /\ job[s].src = r.dst /\ job[s].dst = r.src
        /\ r.type = "reject" => job[s].type = "reject"
  BY <1>1 DEF Inv, Steady, Links, Answers
<1>6. TypeOK'
  <2>1. \A d, e \in docs' : d.id = e.id => d = e
    BY <1>add, <1>4 DEF Inv, TypeOK, All
  <2>2. \A t \in Sessions : pc'[t] # "idle" =>
          job'[t] # None /\ (job'[t].type = "add" <=> pc'[t] \in {"check", "insert", "drop"})
    BY <1>1, <1>2, <1>3 DEF Inv, TypeOK
  <2>. QED
    BY <1>1, <1>2, <1>3, <1>add, <2>1, <2>2 DEF Inv, TypeOK
<1>7. IdsUnique'
  <2>1. All' = All \cup {job[s]}
    BY <1>1, <1>add DEF All
  <2>2. \A t \in Sessions : Unborn(t)' => Unborn(t) /\ t # s
    BY <1>2 DEF Unborn
  <2>. QED
    BY <1>1, <1>4, <2>1, <2>2 DEF Inv, Steady, IdsUnique
<1>8. Kinds'
  BY <1>1, <1>3, <1>add DEF Inv, Steady, Kinds
<1>9. Jobs'
  BY <1>1, <1>2, <1>3 DEF Inv, Steady, Jobs
<1>10. Links'
  BY <1>1, <1>2, <1>5 DEF Inv, Steady, Links, Answers
<1>11. AnswerFirst' /\ RequestKept' /\ Consent' /\ Agreement'
  <2>1. AnswerFirst' /\ RequestKept'
    BY <1>1, <1>2, <1>add DEF Inv, AnswerFirst, RequestKept
  <2>2. Consent'
    BY <1>1, ConsentKept DEF Inv
  <2>3. ASSUME job[s].type = "accept" PROVE Agreed(job[s].src, job[s].dst)'
    <3>1. CASE r \in asked
      <4>1. {r.src, r.dst} = {job[s].src, job[s].dst} /\ r \in asked' /\ job[s] \in verdicts'
        BY <1>1, <1>5, <3>1
      <4>. QED
        BY <1>1, <1>5, <2>3, <4>1 DEF Agreed
    <3>2. CASE r \in verdicts
      <4>1. r.type = "accept"
        <5>1. r \in Document /\ r.type # "add" /\ r.type # "reject"
          BY <1>5, <2>3, <3>2 DEF Inv, Steady, Kinds, TypeOK
        <5>. QED
          BY <5>1 DEF Document
      <4>2. Agreed(job[s].src, job[s].dst)
        BY <1>5, <3>2, <4>1, AgreedSym DEF Inv, Steady, Agreement
      <4>. QED
        BY <1>1, <4>2, AgreedKept
    <3>. QED
      BY <3>1, <3>2
  <2>4. Agreement'
    <3>1. ASSUME NEW v \in verdicts, v.type = "accept" PROVE Agreed(v.src, v.dst)'
      BY <1>1, <3>1, AgreedKept DEF Inv, Steady, Agreement
    <3>. QED
      BY <1>1, <2>3, <3>1 DEF Agreement
  <2>. QED
    BY <2>1, <2>2, <2>4
<1>12. Overlaps'
  BY <1>1, <1>2 DEF Inv, Steady, Overlaps
<1>13. Checked' /\ OnePending'
  BY <1>1, <1>2, <1>3, <1>add DEF Inv, Steady, Checked, OnePending
<1>14. Decided'
  <2>1. ASSUME NEW t \in Sessions, pc'[t] = "answer", Owner[t] \notin raced,
               NEW v \in verdicts'
        PROVE  v.ref # job[t].ref \/ v.ref \in undeleted
    <3>1. t # s /\ pc[t] = "answer"
      BY <1>2, <2>1
    <3>2. CASE v \in verdicts
      BY <2>1, <3>1, <3>2 DEF Inv, Steady, Decided
    <3>3. CASE v = job[s]
      <4>1. SUFFICES ASSUME job[s].ref = job[t].ref PROVE FALSE
        BY <3>3
      <4>2. PICK q \in asked \cup verdicts : job[t].ref = q.id /\ job[t].src = q.dst
        BY <3>1 DEF Inv, Steady, Links, Answers
      <4>3. q = r
        BY <1>5, <4>1, <4>2 DEF Inv, Steady, IdsUnique, All
      <4>4. Owner[t] = Owner[s]
        BY <1>3, <1>5, <3>1, <4>2, <4>3 DEF Inv, Steady, Jobs
      <4>. QED
        BY <1>1, <2>1, <3>1, <4>4 DEF Inv, Steady, Overlaps
    <3>. QED
      BY <1>1, <2>1, <3>2, <3>3
  <2>2. ASSUME NEW v \in verdicts', v.src \notin raced
        PROVE  \/ \A d \in docs' : d.id # v.ref
               \/ \E t \in Sessions : pc'[t] = "delete" /\ job[t] = v
               \/ v.ref \in undeleted
    <3>1. CASE v = job[s]
      BY <1>2, <3>1
    <3>2. CASE v \in verdicts /\ v # job[s]
      <4>1. v.ref # job[s].id
        BY <1>4, <3>2 DEF Inv, Steady, Links, Answers, All
      <4>2. ASSUME NEW t \in Sessions, pc[t] = "delete" PROVE pc'[t] = "delete"
        BY <1>2, <4>2
      <4>. QED
        BY <1>add, <2>2, <3>2, <4>1, <4>2 DEF Inv, Steady, Decided
    <3>. QED
      BY <1>1, <2>2, <3>1, <3>2
  <2>. QED
    BY <1>1, <1>add, <2>1, <2>2 DEF Decided
<1>15. OneVerdict'
  <2>1. ASSUME NEW v \in verdicts, v.src \notin raced, v.ref = job[s].ref,
               Owner[s] \notin raced
        PROVE  v.ref \in undeleted
    BY <1>1, <2>1 DEF Inv, Steady, Decided
  <2>. QED
    BY <1>1, <1>3, <1>add, <2>1 DEF Inv, Steady, OneVerdict
<1>. QED
  BY <1>6, <1>7, <1>8, <1>9, <1>10, <1>11, <1>12, <1>13, <1>14, <1>15 DEF Inv, Steady

\* What survives a step that inserts nothing, and in which handlers stand still
\* or end.  One that ends before its request is deleted is noted in raced.
LEMMA ShrinkStep ==
  ASSUME Inv, docs' \subseteq docs, raced \subseteq raced', undeleted \subseteq undeleted',
         \A t \in Sessions : pc'[t] = pc[t] \/ pc'[t] = "idle",
         \A t \in Sessions : pc[t] = "delete" =>
           \/ pc'[t] = "delete" \/ Owner[t] \in raced' \/ job[t].ref \in undeleted'
           \/ \A d \in docs' : d.id # job[t].ref,
         UNCHANGED <<job, used, asked, verdicts, unfiled, unchecked>>
  PROVE  Steady'
<1>1. IdsUnique'
  <2>1. All' \subseteq All
    BY DEF All
  <2>2. \A t \in Sessions : Unborn(t)' => Unborn(t)
    BY DEF Unborn
  <2>. QED
    BY <2>1, <2>2 DEF Inv, Steady, IdsUnique
<1>2. Kinds'
  BY DEF Inv, Steady, Kinds
<1>3. Jobs'
  BY DEF Inv, Steady, Jobs
<1>4. Links' /\ Agreement' /\ Overlaps' /\ Checked'
  <2>1. Agreement'
    BY AgreementKept DEF Inv, Steady
  <2>2. Links' /\ Overlaps' /\ Checked'
    BY DEF Inv, Steady, Links, Answers, Overlaps, Checked
  <2>. QED
    BY <2>1, <2>2
<1>5. Decided'
  <2>1. ASSUME NEW v \in verdicts, v.src \notin raced'
        PROVE  \/ \A d \in docs' : d.id # v.ref
               \/ \E t \in Sessions : pc'[t] = "delete" /\ job[t] = v
               \/ v.ref \in undeleted'
    <3>1. CASE \A d \in docs : d.id # v.ref
      BY <3>1
    <3>2. ASSUME NEW t \in Sessions, pc[t] = "delete", job[t] = v
          PROVE  \/ pc'[t] = "delete" \/ v.ref \in undeleted'
                 \/ \A d \in docs' : d.id # v.ref
      <4>1. Owner[t] = v.src
        BY <3>2 DEF Inv, Steady, Jobs
      <4>. QED
        BY <2>1, <3>2, <4>1
    <3>. QED
      BY <2>1, <3>1, <3>2 DEF Inv, Steady, Decided
  <2>2. \A t \in Sessions : pc'[t] = "answer" /\ Owner[t] \notin raced' =>
          \A v \in verdicts : v.ref # job[t].ref \/ v.ref \in undeleted'
    BY DEF Inv, Steady, Decided
  <2>. QED
    BY <2>1, <2>2 DEF Decided
<1>6. OnePending' /\ OneVerdict'
  BY DEF Inv, Steady, OnePending, OneVerdict
<1>. QED
  BY <1>1, <1>2, <1>3, <1>4, <1>5, <1>6 DEF Steady

\* The add code that was used: neither a request by name nor an answer goes.
LEMMA DropCodeStep ==
  ASSUME Inv, NEW s \in Sessions, DropCode(s)
  PROVE  Inv'
<1>. USE ContactsAssumption
<1>1. /\ pc[s] = "drop" /\ pc' = [pc EXCEPT ![s] = "idle"]
      /\ DeleteOne({d \in docs : d.code = job[s].code}) \/ UNCHANGED docs
      /\ spent' \in {spent, spent \cup {job[s].code}}
      /\ UNCHANGED faults \/ Throws
      /\ UNCHANGED <<job, contacts, posted, used, asked, verdicts, heard, withdrawn, raced,
                     unfiled, unchecked, undeleted>>
  BY DEF DropCode, Goto
<1>2. /\ pc'[s] = "idle" /\ \A t \in Sessions \ {s} : pc'[t] = pc[t]
      /\ pc' \in [Sessions -> {"idle", "check", "insert", "drop", "answer", "delete"}]
  BY <1>1 DEF Inv, TypeOK
<1>3. job[s] \in Document /\ job[s].code # None
  BY <1>1 DEF Inv, Steady, Jobs
<1>4. docs' \subseteq docs /\ \A d \in docs \ docs' : d.code # None
  BY <1>1, <1>3 DEF DeleteOne
<1>5. TypeOK'
  <2>1. job[s].code \in Codes
    BY <1>3 DEF Document
  <2>2. spent' \subseteq Codes
    BY <1>1, <2>1 DEF Inv, TypeOK
  <2>3. docs' \subseteq Document /\ \A d, e \in docs' : d.id = e.id => d = e
    BY <1>4 DEF Inv, TypeOK
  <2>4. faults' \in 0 .. MaxFaults
    BY <1>1 DEF Inv, TypeOK, Throws
  <2>. QED
    BY <1>1, <1>2, <2>2, <2>3, <2>4 DEF Inv, TypeOK
<1>6. Steady'
  BY <1>1, <1>2, <1>4, ShrinkStep
<1>7. AnswerFirst'
  BY <1>1, <1>2, <1>4 DEF Inv, Steady, AnswerFirst, Kinds, Jobs
<1>8. RequestKept'
  <2>1. SUFFICES ASSUME NEW r \in asked, r.code = None
                 PROVE  \/ r \in docs' \/ \E d \in docs' : d.ref = r.id
                        \/ r.id \in heard \cup withdrawn
                        \/ \E d \in unfiled : d = r \/ d.ref = r.id
    BY <1>1 DEF RequestKept
  <2>2. ASSUME NEW d \in docs, d.ref = r.id PROVE d \in docs'
    <3>1. d.ref # None
      <4>1. r.id \in Ids
        BY DEF Inv, TypeOK, Document
      <4>. QED
        BY <2>2, <4>1
    <3>2. d.code = None
      BY <3>1 DEF Inv, Steady, Kinds
    <3>. QED
      BY <1>4, <3>2
  <2>. QED
    BY <1>4, <2>1, <2>2 DEF Inv, RequestKept
<1>9. Consent'
  BY <1>1, ConsentKept DEF Inv
<1>. QED
  BY <1>5, <1>6, <1>7, <1>8, <1>9 DEF Inv, Steady

\* deleteRequest by id: nothing with the id is left, unless it failed; what goes
\* is the request, or an answer that now counts as heard.
LEMMA DeleteAnsweredStep ==
  ASSUME Inv, NEW s \in Sessions, DeleteAnswered(s)
  PROVE  Inv'
<1>. USE ContactsAssumption
<1>. DEFINE gone == {e \in docs : e.id = job[s].ref}
            replies == {e \in docs : e.id = job[s].ref /\ e.type # "add"}
<1>1. /\ pc[s] = "delete" /\ pc' = [pc EXCEPT ![s] = "idle"]
      /\ contacts' = [contacts EXCEPT
           ![s] = IF job[s].type = "accept" THEN contacts[s] \cup {job[s].dst} ELSE contacts[s]]
      /\ \/ DeleteOne(gone) /\ heard' = heard \cup {d.ref : d \in replies} /\ undeleted' = undeleted
         \/ docs' = docs /\ heard' = heard /\ undeleted' = undeleted \cup {job[s].ref}
      /\ UNCHANGED faults \/ Throws
      /\ UNCHANGED <<job, posted, used, asked, verdicts, withdrawn, spent, raced, unfiled,
                     unchecked>>
  BY DEF DeleteAnswered, AnswerEnds, Goto
<1>2. /\ pc'[s] = "idle" /\ \A t \in Sessions \ {s} : pc'[t] = pc[t]
      /\ pc' \in [Sessions -> {"idle", "check", "insert", "drop", "answer", "delete"}]
  BY <1>1 DEF Inv, TypeOK
<1>3. /\ job[s] \in Document /\ job[s].src = Owner[s] /\ job[s].dst # None
      /\ job[s] \in verdicts /\ job[s].ref \in Ids
  <2>1. job[s] \in Document /\ job[s].ref # None /\ job[s].dst # None /\ job[s] \in verdicts
    BY <1>1 DEF Inv, Steady, Jobs
  <2>. QED
    BY <1>1, <2>1 DEF Inv, Steady, Jobs, Document
<1>4. \A d, e \in gone : d = e
  BY DEF Inv, TypeOK
<1>5. /\ docs' \subseteq docs
      /\ \A d \in docs \ docs' : d.id = job[s].ref /\ (d.type # "add" => d.ref \in heard')
      /\ (\A d \in docs' : d.id # job[s].ref) \/ job[s].ref \in undeleted'
      /\ undeleted \subseteq undeleted' /\ undeleted' \subseteq undeleted \cup {job[s].ref}
      /\ heard \subseteq heard'
  BY <1>1, <1>4 DEF DeleteOne
<1>6. /\ contacts' \in [Sessions -> SUBSET Accounts]
      /\ \A t \in Sessions \ {s} : contacts'[t] = contacts[t]
      /\ \A a \in contacts'[s] : a \in contacts[s] \/ (a = job[s].dst /\ job[s].type = "accept")
  <2>1. job[s].dst \in Accounts
    BY <1>3 DEF Document
  <2>2. contacts \in [Sessions -> SUBSET Accounts]
    BY DEF Inv, TypeOK
  <2>. QED
    BY <1>1, <2>1, <2>2
<1>7. TypeOK'
  <2>1. docs' \subseteq Document /\ \A d, e \in docs' : d.id = e.id => d = e
    BY <1>5 DEF Inv, TypeOK
  <2>2. faults' \in 0 .. MaxFaults
    BY <1>1 DEF Inv, TypeOK, Throws
  <2>3. heard' \subseteq Ids
    <3>1. ASSUME NEW d \in replies PROVE d.ref \in Ids
      <4>1. d \in Document /\ d.ref # None
        BY DEF Inv, Steady, TypeOK, Kinds
      <4>. QED
        BY <4>1 DEF Document
    <3>. QED
      BY <1>1, <3>1 DEF Inv, TypeOK
  <2>4. undeleted' \subseteq Ids
    BY <1>3, <1>5 DEF Inv, TypeOK
  <2>. QED
    BY <1>1, <1>2, <1>6, <2>1, <2>2, <2>3, <2>4 DEF Inv, TypeOK
<1>. HIDE DEF gone, replies
<1>8. Steady'
  BY <1>1, <1>2, <1>5, ShrinkStep
<1>9. AnswerFirst'
  <2>1. \A t \in Sessions : pc'[t] = "delete" => pc[t] = "delete" /\ job[t].type # "add"
    BY <1>2 DEF Inv, Steady, Jobs
  <2>. QED
    BY <1>1, <1>5, <2>1 DEF Inv, AnswerFirst
<1>10. RequestKept'
  <2>1. SUFFICES ASSUME NEW q \in asked, q.code = None
                 PROVE  \/ q \in docs' \/ \E d \in docs' : d.ref = q.id
                        \/ q.id \in heard' \cup withdrawn
                        \/ \E d \in unfiled : d = q \/ d.ref = q.id
    BY <1>1 DEF RequestKept
  <2>2. q.type = "add" /\ q.id # None
    <3>1. q.id \in Ids
      BY DEF Inv, TypeOK, Document
    <3>. QED
      BY <3>1 DEF Inv, Steady, Kinds
  <2>3. CASE q \in docs \ docs'
    <3>1. q.id = job[s].ref
      BY <1>5, <2>3
    <3>2. job[s] \in docs \cup unfiled \/ q.id \in heard \cup withdrawn
      BY <1>1, <3>1 DEF Inv, AnswerFirst
    <3>3. job[s].type # "add" /\ (job[s] \in docs \ docs' => q.id \in heard')
      BY <1>1, <1>5, <3>1 DEF Inv, Steady, Jobs
    <3>. QED
      BY <1>5, <3>1, <3>2, <3>3
  <2>4. ASSUME NEW d \in docs, d.ref = q.id PROVE d \in docs' \/ q.id \in heard'
    <3>1. d.type # "add"
      BY <2>2, <2>4 DEF Inv, Steady, Kinds
    <3>. QED
      BY <1>5, <2>4, <3>1
  <2>. QED
    BY <1>5, <2>1, <2>3, <2>4 DEF Inv, RequestKept
<1>11. Consent'
  <2>1. SUFFICES ASSUME NEW t \in Sessions, NEW a \in contacts'[t] PROVE Agreed(a, Owner[t])
    BY <1>1 DEF Consent, Agreed
  <2>2. CASE a \in contacts[t]
    BY <2>2, ConsentAgreed DEF Inv
  <2>3. CASE t = s /\ a = job[s].dst /\ job[s].type = "accept"
    BY <1>3, <2>3, AgreedSym DEF Inv, Steady, Agreement
  <2>. QED
    BY <1>6, <2>2, <2>3
<1>. QED
  BY <1>7, <1>8, <1>9, <1>10, <1>11 DEF Inv

\* An add code is a document that asks nobody yet.
LEMMA CreateAddCodeStep ==
  ASSUME Inv, NEW s \in Sessions, NEW i \in Ids, NEW c \in Codes, CreateAddCode(s, i, c)
  PROVE  Inv'
<1>. USE ContactsAssumption
<1>. DEFINE e == Doc(i, "add", Owner[s], None, c, None)
<1>1. /\ i \notin used /\ used' = used \cup {i} /\ AddRequest(e)
      /\ UNCHANGED <<pc, job, contacts, posted, asked, verdicts, heard, withdrawn, spent, raced>>
  BY DEF CreateAddCode
<1>2. /\ e \in Document /\ e.id = i /\ e.type = "add" /\ e.dst = None /\ e.code = c /\ e.ref = None
      /\ c # None
  BY DocFields
<1>. HIDE DEF e
<1>add. /\ docs \subseteq docs' /\ docs' \subseteq docs \cup {e}
      /\ unfiled \subseteq unfiled' /\ unfiled' \subseteq unfiled \cup {e}
      /\ e \in docs' \cup unfiled'
      /\ docs' \subseteq Document /\ unfiled' \subseteq Document
      /\ faults' \in 0 .. MaxFaults
      /\ UNCHANGED <<unchecked, undeleted>>
  BY <1>1, <1>2, AddRequestEffect DEF Inv
<1>3. \A d \in All : d.id # i
  BY <1>1 DEF Inv, Steady, IdsUnique
<1>4. TypeOK'
  <2>1. \A d, f \in docs' : d.id = f.id => d = f
    BY <1>add, <1>2, <1>3 DEF Inv, TypeOK, All
  <2>. QED
    BY <1>1, <1>2, <1>add, <2>1 DEF Inv, TypeOK
<1>5. IdsUnique'
  <2>1. All' = All \cup {e}
    BY <1>1, <1>add DEF All
  <2>2. \A t \in Sessions : Unborn(t)' <=> Unborn(t)
    BY <1>1 DEF Unborn
  <2>. QED
    BY <1>1, <1>2, <1>3, <2>1, <2>2 DEF Inv, Steady, IdsUnique
<1>6. Kinds'
  BY <1>1, <1>2, <1>add DEF Inv, Steady, Kinds
<1>7. Jobs'
  BY <1>1 DEF Inv, Steady, Jobs
<1>8. Links' /\ Agreement' /\ AnswerFirst' /\ Overlaps' /\ RequestKept'
  <2>1. Links'
    BY <1>1 DEF Inv, Steady, Links, Answers
  <2>2. Agreement'
    BY <1>1 DEF Inv, Steady, Agreement, Agreed
  <2>3. AnswerFirst'
    BY <1>1, <1>add DEF Inv, AnswerFirst
  <2>4. Overlaps'
    BY <1>1 DEF Inv, Steady, Overlaps
  <2>5. RequestKept'
    BY <1>1, <1>add DEF Inv, RequestKept
  <2>. QED
    BY <2>1, <2>2, <2>3, <2>4, <2>5
<1>9. Checked'
  BY <1>1, <1>2, <1>add DEF Inv, Steady, Checked, Jobs
<1>10. Decided'
  <2>1. \A v \in verdicts : v.ref # i
    BY <1>3 DEF Inv, Steady, Links, Answers, All
  <2>. QED
    BY <1>1, <1>2, <1>add, <2>1 DEF Inv, Steady, Decided
<1>11. Consent'
  BY <1>1, ConsentKept DEF Inv
<1>12. OnePending' /\ OneVerdict'
  BY <1>1, <1>2, <1>add DEF Inv, Steady, OnePending, OneVerdict
<1>. QED
  BY <1>4, <1>5, <1>6, <1>7, <1>8, <1>9, <1>10, <1>11, <1>12 DEF Inv, Steady

\* processRequests delivers answer d to a session of the requester.
LEMMA PostAnswerStep ==
  ASSUME Inv, NEW s \in Sessions, NEW d \in docs, PostAnswer(s, d)
  PROVE  Inv'
<1>. USE ContactsAssumption
<1>1. /\ d.type # "add" /\ d.dst = Owner[s] /\ posted' = posted \cup {<<s, d>>}
      /\ contacts' = [contacts EXCEPT
           ![s] = IF d.type = "accept" THEN contacts[s] \cup {d.src} ELSE contacts[s]]
      /\ UNCHANGED <<docs, pc, job, used, asked, verdicts, heard, withdrawn, spent, raced, unfiled,
                     unchecked, undeleted, faults>>
  BY DEF PostAnswer, failed
<1>2. d \in verdicts /\ d \in Document
  BY <1>1 DEF Inv, Steady, Kinds, TypeOK
<1>3. /\ contacts' \in [Sessions -> SUBSET Accounts]
      /\ \A t \in Sessions \ {s} : contacts'[t] = contacts[t]
      /\ \A a \in contacts'[s] : a \in contacts[s] \/ (a = d.src /\ d.type = "accept")
  <2>1. d.src \in Accounts
    BY <1>2 DEF Document
  <2>2. contacts \in [Sessions -> SUBSET Accounts]
    BY DEF Inv, TypeOK
  <2>. QED
    BY <1>1, <2>1, <2>2
<1>4. TypeOK'
  BY <1>1, <1>2, <1>3 DEF Inv, TypeOK
<1>5. Steady'
  BY <1>1, ShrinkStep
<1>6. AnswerFirst' /\ RequestKept'
  BY <1>1 DEF Inv, AnswerFirst, RequestKept
<1>7. Consent'
  <2>1. SUFFICES ASSUME NEW t \in Sessions, NEW a \in contacts'[t] PROVE Agreed(a, Owner[t])
    BY <1>1 DEF Consent, Agreed
  <2>2. CASE a \in contacts[t]
    BY <2>2, ConsentAgreed DEF Inv
  <2>3. CASE t = s /\ a = d.src /\ d.type = "accept"
    BY <1>1, <1>2, <2>3 DEF Inv, Steady, Agreement
  <2>. QED
    BY <1>3, <2>2, <2>3
<1>. QED
  BY <1>4, <1>5, <1>6, <1>7 DEF Inv

\* The requester confirms answer d, which is deleted.
LEMMA ConfirmAnswerStep ==
  ASSUME Inv, NEW s \in Sessions, NEW d \in verdicts, ConfirmAnswer(s, d)
  PROVE  Inv'
<1>. USE ContactsAssumption
<1>1. /\ posted' = posted \ {<<s, d>>} /\ heard' = heard \cup {d.ref}
      /\ docs' \in {docs, docs \ {d}}
      /\ UNCHANGED faults \/ Throws
      /\ UNCHANGED <<pc, job, contacts, used, asked, verdicts, withdrawn, spent, raced, unfiled,
                     unchecked, undeleted>>
  BY DEF ConfirmAnswer
<1>2. d.type # "add" /\ d.ref \in Ids
  <2>1. d \in Document /\ d.type # "add" /\ d.ref # None
    BY DEF Inv, Steady, TypeOK, Kinds
  <2>. QED
    BY <2>1 DEF Document
<1>3. TypeOK'
  <2>1. faults' \in 0 .. MaxFaults
    BY <1>1 DEF Inv, TypeOK, Throws
  <2>. QED
    BY <1>1, <1>2, <2>1 DEF Inv, TypeOK
<1>4. Steady'
  BY <1>1, ShrinkStep
<1>5. AnswerFirst'
  BY <1>1 DEF Inv, AnswerFirst
<1>6. RequestKept'
  BY <1>1, <1>2 DEF Inv, Steady, RequestKept, Kinds
<1>7. Consent'
  BY <1>1, ConsentKept DEF Inv
<1>. QED
  BY <1>3, <1>4, <1>5, <1>6, <1>7 DEF Inv, Steady

\* A party gives up document d.
LEMMA DispatchStep ==
  ASSUME Inv, NEW s \in Sessions, NEW d \in docs, Dispatch(s, d)
  PROVE  Inv'
<1>. USE ContactsAssumption
<1>. DEFINE w == IF d.type = "add" THEN d.id ELSE d.ref
<1>1. /\ docs' = docs \ {d} /\ withdrawn' = withdrawn \cup {w}
      /\ UNCHANGED <<pc, job, contacts, posted, used, asked, verdicts, heard, spent, raced, unfiled,
                     unchecked, undeleted, faults>>
  BY DEF Dispatch, failed
<1>2. w \in Ids
  <2>1. d \in Document /\ (d.type # "add" => d.ref # None)
    BY DEF Inv, Steady, TypeOK, Kinds
  <2>. QED
    BY <2>1 DEF Document
<1>3. /\ d.type = "add" => w = d.id /\ d.ref = None
      /\ d.type # "add" => w = d.ref
  BY DEF Inv, Steady, Kinds
<1>. HIDE DEF w
<1>4. TypeOK'
  BY <1>1, <1>2 DEF Inv, TypeOK
<1>5. Steady'
  BY <1>1, ShrinkStep
<1>6. AnswerFirst'
  BY <1>1, <1>3 DEF Inv, Steady, AnswerFirst, Jobs
<1>7. RequestKept'
  <2>1. SUFFICES ASSUME NEW r \in asked, r.code = None
                 PROVE  \/ r \in docs' \/ \E x \in docs' : x.ref = r.id
                        \/ r.id \in heard \cup withdrawn'
                        \/ \E x \in unfiled : x = r \/ x.ref = r.id
    BY <1>1 DEF RequestKept
  <2>2. r.type = "add" /\ r.id # None
    <3>1. r.id \in Ids
      BY DEF Inv, TypeOK, Document
    <3>. QED
      BY <3>1 DEF Inv, Steady, Kinds
  <2>. QED
    BY <1>1, <1>3, <2>1, <2>2 DEF Inv, RequestKept
<1>8. Consent'
  BY <1>1, ConsentKept DEF Inv
<1>. QED
  BY <1>4, <1>5, <1>6, <1>7, <1>8 DEF Inv, Steady

\* A crash: the handlers it cuts off are noted.
LEMMA RestartStep ==
  ASSUME Inv, Restart
  PROVE  Inv'
<1>. USE ContactsAssumption
<1>1. /\ faults < MaxFaults /\ faults' = faults + 1
      /\ pc' = [s \in Sessions |-> "idle"] /\ contacts' = [s \in Sessions |-> {}]
      /\ posted' = {}
      /\ raced' = raced \cup {Owner[s] : s \in {t \in Sessions : pc[t] # "idle"}}
      /\ UNCHANGED <<docs, job, used, asked, verdicts, heard, withdrawn, spent, unfiled,
                     unchecked, undeleted>>
  BY DEF Restart, Throws
<1>2. \A s \in Sessions : pc[s] # "idle" => Owner[s] \in raced'
  BY <1>1
<1>3. raced \subseteq raced' /\ raced' \subseteq Accounts
  BY <1>1 DEF Inv, TypeOK
<1>4. TypeOK'
  <2>1. faults' \in 0 .. MaxFaults
    BY <1>1 DEF Inv, TypeOK
  <2>2. /\ pc' \in [Sessions -> {"idle", "check", "insert", "drop", "answer", "delete"}]
        /\ contacts' \in [Sessions -> SUBSET Accounts]
        /\ \A s \in Sessions : pc'[s] = "idle"
    BY <1>1
  <2>. QED
    BY <1>1, <1>3, <2>1, <2>2 DEF Inv, TypeOK
<1>5. Steady'
  BY <1>1, <1>2, <1>3, ShrinkStep
<1>6. AnswerFirst' /\ RequestKept' /\ Consent'
  BY <1>1 DEF Inv, AnswerFirst, RequestKept, Consent
<1>. QED
  BY <1>4, <1>5, <1>6 DEF Inv, Steady

LEMMA ContactsInit == Init => Inv
<1>. USE ContactsAssumption
<1>1. SUFFICES ASSUME Init PROVE Inv
  OBVIOUS
<1>2. /\ docs = {} /\ posted = {} /\ used = {} /\ asked = {} /\ verdicts = {} /\ heard = {}
      /\ withdrawn = {} /\ spent = {} /\ raced = {} /\ unfiled = {} /\ unchecked = {}
      /\ undeleted = {} /\ faults = 0
      /\ pc = [s \in Sessions |-> "idle"] /\ job = [s \in Sessions |-> None]
      /\ contacts = [s \in Sessions |-> {}]
  BY <1>1 DEF Init
<1>3. TypeOK
  BY <1>2 DEF TypeOK
<1>4. Steady
  BY <1>2 DEF Steady, IdsUnique, All, Unborn, Kinds, Jobs, Links, Agreement, Overlaps, Checked,
              Decided, OnePending, OneVerdict
<1>5. AnswerFirst /\ RequestKept /\ Consent
  BY <1>2 DEF AnswerFirst, RequestKept, Consent
<1>. QED
  BY <1>3, <1>4, <1>5 DEF Inv, Steady

LEMMA ContactsStutter == Inv /\ UNCHANGED vars => Inv'
<1>1. SUFFICES ASSUME Inv, UNCHANGED vars PROVE Inv'
  OBVIOUS
<1>2. UNCHANGED <<docs, pc, job, contacts, posted, used, asked, verdicts, heard, withdrawn,
                  spent, raced, unfiled, unchecked, undeleted, faults>>
  BY <1>1 DEF vars, failed
<1>3. TypeOK'
  BY <1>1, <1>2 DEF Inv, TypeOK
<1>4. Steady'
  BY <1>1, <1>2, ShrinkStep
<1>5. AnswerFirst' /\ RequestKept' /\ Consent'
  BY <1>1, <1>2 DEF Inv, AnswerFirst, RequestKept, Consent
<1>. QED
  BY <1>3, <1>4, <1>5 DEF Inv, Steady

LEMMA ContactsNext == Inv /\ [Next]_vars => Inv'
<1>. SUFFICES ASSUME Inv, [Next]_vars PROVE Inv'
  OBVIOUS
<1>1. CASE UNCHANGED vars
  BY <1>1, ContactsStutter
<1>2. ASSUME NEW s \in Sessions, NEW i \in Ids, NEW b \in Accounts, AddByName(s, i, b)
      PROVE  Inv'
  BY <1>2, AddByNameStep
<1>3. ASSUME NEW s \in Sessions, NEW i \in Ids, NEW c \in Codes,
             AddByCode(s, i, c) \/ CreateAddCode(s, i, c)
      PROVE  Inv'
  BY <1>3, AddByCodeStep, CreateAddCodeStep
<1>4. ASSUME NEW s \in Sessions, NEW i \in Ids, NEW d \in docs,
             AcceptContact(s, i, d) \/ RejectContact(s, i, d)
      PROVE  Inv'
  BY <1>4, DecideStep DEF AcceptContact, RejectContact
<1>5. ASSUME NEW s \in Sessions,
             \/ CheckPending(s) \/ InsertAdd(s) \/ DropCode(s) \/ InsertAnswer(s)
             \/ DeleteAnswered(s)
      PROVE  Inv'
  BY <1>5, CheckPendingStep, InsertAddStep, DropCodeStep, InsertAnswerStep, DeleteAnsweredStep
<1>6. ASSUME NEW s \in Sessions, NEW d \in docs, PostAnswer(s, d) \/ Dispatch(s, d)
      PROVE  Inv'
  BY <1>6, PostAnswerStep, DispatchStep
<1>7. ASSUME NEW s \in Sessions, NEW d \in verdicts, ConfirmAnswer(s, d)
      PROVE  Inv'
  BY <1>7, ConfirmAnswerStep
<1>8. CASE Restart
  BY <1>8, RestartStep
<1>. QED
  BY <1>1, <1>2, <1>3, <1>4, <1>5, <1>6, <1>7, <1>8 DEF Next

LEMMA ContactsInvariant == Spec => []Inv
BY ContactsInit, ContactsNext, PTL DEF Spec

-----------------------------------------------------------------------------
\* The documents, the handlers of AddContact, AcceptContact and RejectContact
\* and what they hold always have their types, and no two documents share an id.
THEOREM ContactsTypeCorrect == Spec => []TypeOK
<1>1. Inv => TypeOK
  BY DEF Inv
<1>. QED
  BY ContactsInvariant, <1>1, PTL

\* A contact request made by name leaves a trace: AcceptContact and
\* RejectContact store the answer before they delete the request, so that
\* neither two devices answering at once, nor a crash in between, nor a failed
\* delete loses both; only addRequest reporting success after it failed does.
THEOREM ContactsRequestKept == Spec => []RequestKept
<1>1. Inv => RequestKept
  BY DEF Inv
<1>. QED
  BY ContactsInvariant, <1>1, PTL

\* m_contacts of a session only names accounts one of which asked and the other
\* of which accepted that very request.
THEOREM ContactsConsent == Spec => []Consent
<1>1. Inv => Consent
  BY DEF Inv
<1>. QED
  BY ContactsInvariant, <1>1, PTL

\* requestPending and the addRequest after it are two database calls, but two
\* requests for one pair of accounts can result only when the requester's own
\* account has two handlers at work or one that was cut off, or when the count
\* of requestPending threw for that very pair.
THEOREM ContactsOnePending == Spec => []OnePending
<1>1. Inv => OnePending
  BY DEF Inv, Steady
<1>. QED
  BY ContactsInvariant, <1>1, PTL

\* Nor has a request two verdicts unless the account that was asked had two
\* handlers at work or one that was cut off between its answer and its delete,
\* or that delete failed.
THEOREM ContactsOneVerdict == Spec => []OneVerdict
<1>1. Inv => OneVerdict
  BY DEF Inv, Steady
<1>. QED
  BY ContactsInvariant, <1>1, PTL
=============================================================================
