------------------------------ MODULE Accounts ------------------------------
(***************************************************************************)
(* Registration (processCreateAccount in src/src/session.cpp and the       *)
(* queries of src/src/db.cpp it makes): look for the name, take the        *)
(* highest id plus one, insert.  Nothing spans the three database calls,   *)
(* and as many registrations run at once as there are workers.             *)
(*                                                                         *)
(* Requests with missing fields change nothing and are not actions; the    *)
(* password hash is left out.                                              *)
(***************************************************************************)
EXTENDS Naturals, FiniteSets

CONSTANTS
  Registrations,  \* CreateAccount requests
  Names,
  Matches,        \* <<n, m>>: n, as a regular expression, is found in m
  NumWorkers

ASSUME AccountsAssumption ==
  /\ IsFiniteSet(Registrations)
  /\ Matches \subseteq Names \X Names
  /\ \A n \in Names : <<n, n>> \in Matches
  /\ NumWorkers \in Nat \ {0}

VARIABLES
  accounts,  \* zway.accounts: registrations that were inserted
  at,        \* where each handler is
  name,      \* the name asked for
  id,        \* accountId, once newAccountId has returned
  reported,  \* history: registrations answered with an account id
  before,    \* history: before[r] were answered before r began
  failed     \* history: a query threw

accountsVars == <<accounts, at, name, id, reported, before, failed>>

AccountsInit ==
  /\ accounts = {} /\ reported = {}
  /\ at = [r \in Registrations |-> "new"]
  /\ name \in [Registrations -> Names]
  /\ id = [r \in Registrations |-> 0]
  /\ before = [r \in Registrations |-> {}]
  /\ failed = FALSE

Proceed(r, l) == at' = [at EXCEPT ![r] = l]
Running == {r \in Registrations : at[r] \in {"name", "id", "insert"}}

\* A worker takes up the request.
CreateAccount(r) ==
  /\ at[r] = "new" /\ Cardinality(Running) < NumWorkers
  /\ before' = [before EXCEPT ![r] = reported]
  /\ Proceed(r, "name")
  /\ UNCHANGED <<accounts, name, id, reported, failed>>

\* Mutant of GetAccount: the answer is ignored.
GetNothing(r) ==
  /\ at[r] = "name"
  /\ Proceed(r, "id")
  /\ UNCHANGED <<accounts, name, id, reported, before, failed>>

\* DB::getAccount by name; a query that throws counts as not found.
GetAccount(r) ==
  /\ at[r] = "name"
  /\ \/ Proceed(r, IF \E a \in accounts : <<name[r], name[a]>> \in Matches
                THEN "refused" ELSE "id")
        /\ UNCHANGED failed
     \/ Proceed(r, "id") /\ failed' = TRUE
  /\ UNCHANGED <<accounts, name, id, reported, before>>

\* Mutant of Highest: the sort is ascending.
Lowest == CHOOSE i \in {id[a] : a \in accounts} : \A a \in accounts : i <= id[a]

\* The highest id in the collection.
Highest == CHOOSE i \in {id[a] : a \in accounts} : \A a \in accounts : i >= id[a]

\* DB::newAccountId: 1 for an empty collection, 0 when the query throws.
NewAccountId(r) ==
  /\ at[r] = "id"
  /\ \/ id' = [id EXCEPT ![r] = IF accounts = {} THEN 1 ELSE Highest + 1]
        /\ UNCHANGED failed
     \/ id' = [id EXCEPT ![r] = 0] /\ failed' = TRUE
  /\ Proceed(r, "insert")
  /\ UNCHANGED <<accounts, name, reported, before>>

\* Mutant of InsertAccount: success is answered after an exception too.
InsertClaims(r) ==
  /\ at[r] = "insert"
  /\ reported' = reported \cup {r}
  /\ Proceed(r, "done")
  /\ \/ accounts' = accounts \cup {r}
     \/ UNCHANGED accounts
  /\ UNCHANGED <<name, id, before, failed>>

\* DB::insertAccount and the response.
InsertAccount(r) ==
  /\ at[r] = "insert"
  /\ \/ accounts' = accounts \cup {r} /\ reported' = reported \cup {r} /\ Proceed(r, "done")
     \/ Proceed(r, "refused") /\ UNCHANGED <<accounts, reported>>
  /\ UNCHANGED <<name, id, before, failed>>

AccountsNext ==
  \E r \in Registrations :
    CreateAccount(r) \/ GetAccount(r) \/ NewAccountId(r) \/ InsertAccount(r)

AccountsSpec == AccountsInit /\ [][AccountsNext]_accountsVars

-----------------------------------------------------------------------------
\* Every variable has its type, and every account id a client was given belongs
\* to a stored account, whatever database calls fail.
AccountsTypeOK ==
  /\ accounts \subseteq Registrations /\ reported \subseteq accounts
  /\ at \in [Registrations -> {"new", "name", "id", "insert", "done", "refused"}]
  /\ name \in [Registrations -> Names]
  /\ id \in [Registrations -> Nat]
  /\ before \in [Registrations -> SUBSET Registrations]
  /\ failed \in BOOLEAN

\* Registrations that do not overlap do not collide: one that began after
\* another was answered gets a higher id and a name not found in the other's,
\* unless a query threw.
FreshAfterReply ==
  ~ failed =>
    \A r \in accounts : \A q \in before[r] :
      id[q] < id[r] /\ <<name[r], name[q]>> \notin Matches

\* Registrations that do overlap may share an id, since newAccountId and the
\* insert are two calls, but never more of them than there are workers; with
\* one worker ids are unique.  A query that throws gives out the id 0.
Collisions ==
  ~ failed =>
    \A r \in accounts : Cardinality({q \in accounts : id[q] = id[r]}) <= NumWorkers
=============================================================================
