# Zway server: a TLA+ model

The Zway server (`src/`) is the switchboard of a crypto messenger. Clients keep
one TLS connection each to it; the server stores requests (messages, contact
requests and their answers) in MongoDB until the recipient's client confirms
them, and resources (files) in `tmp/`. It is one process with an `io_service`, a
pool of worker threads (20 by default, 50 at most) that run all handlers, a
console thread, and a pool of 25 MongoDB client objects.

What makes it hard: handlers of different connections run in parallel and share
the session map, the database pool, the store and the files; the handlers of one
connection run one after another, but its sending half is entered from any
worker; locks cover single accesses and hardly ever a whole decision; most
sequences of two or three database calls can be cut by a crash or by another
device of the same account.

## Inventory

| component | state | operations | interacts with |
|---|---|---|---|
| database pool (`db.cpp`) | `m_connections`, condition variable | `startup`, `acquire`, `getConnection`, `Lock::unlock`, `cleanup` | every `DB::` call of every worker; `Server::close` |
| send path (`session.cpp`, `server.cpp`) | `m_sending`, `m_packetQueue`, the engine's stream senders, `Server::m_senders` | `postPacket`, `addStreamSender`, `sendPacket`, `onPacketSent`, `Server::onTimer` | called by all handlers of all sessions |
| session and registry (`session.cpp`, `server.cpp`) | `m_status`, `m_accountId`, the socket, `Server::m_sessions` | `start`, `handleHandshake`, the read chain, `close`, `processLogin`, `processLogout`, `appendSession`, `removeSession`, `removeSessions` | console, acceptor, store and forward, presence |
| store and forward (`session.cpp`, `server.cpp`, `db.cpp`) | `zway.requests`, queued jobs, pending requests | `processPushRequest`, `processUserRequests`, `processRequests` and its callbacks, `processDispatchRequest` | registry, database, Firebase |
| contact requests (`session.cpp`) | `zway.requests`, `m_contacts` | AddContact, CreateAddCode, AcceptContact, RejectContact, Dispatch | store and forward |
| accounts (`session.cpp`, `db.cpp`) | `zway.accounts` | `processCreateAccount`, `newAccountId`, `insertAccount` | login |
| presence (`session.cpp`) | `m_config`, `m_contacts`, the account's `fcmToken` | `setConfig`, `broadcastStatus`, `getContactStatus`, Config, ContactStatus, the status list of a login | registry, send path |
| stream buffers (`streambuffer.cpp`, `streambuffersender.cpp`, `server.cpp`) | `m_buffers`, files in `tmp/`, `m_bytesReadable`, `m_lastActivity` | `createStreamReceiver`, `read`, `write`, `getStreamBuffer`, eviction in `onTimer` | send path, store |
| acceptor and shutdown (`server.cpp`, `main.cpp`) | `m_acceptor`, `m_paused`, `m_timer`, the work object | `accept`, `handleSession`, `onTimer`, `pause`, `resume`, `removeSessions`, `close`, `join_all` | registry, workers |
| mutexes (everywhere) | who holds which | `boost::mutex::scoped_lock` | everything |
| Firebase (`fcmsender.cpp`), logging, UBJ/BSON conversion, scripts | none of their own | | |

What makes each correct: the pool never shares or loses a connection and
`acquire` comes back; the send path writes each packet once and never falls
asleep; the map of sessions agrees with the sessions; a stored message stays
until it is confirmed and reaches every connected device of its recipient; a
contact request always leaves a trace and contacts are made by two consenting
accounts; account ids handed out are stored, and fresh where the code can
guarantee it; two clients that come online together hear of each other; a
finished download is one whole upload; the server goes on accepting and polling
until it is closed, and then ends; threads never wait in a circle. The points
where this could go wrong, line by line, are the hazards in `PROJECT.json`.

## Modules

| module | models | state and actions |
|---|---|---|
| `ConnectionPool` | abstract | the owner of each connection: taken, given back, dropped |
| `DBPool` | `db.cpp:49-154` | one step per access of the queue; `Wait`/`Timeout`/`Retry` are the single `wait_for` without predicate and the second `getConnection` |
| `PacketChannel` | abstract | a packet is offered, written once, finished |
| `SendPath` | `sendPacket`, `onPacketSent`, `postPacket`, `addStreamSender`, half of `Server::onTimer` | one step per critical section; `pc[w]` is where worker `w` is in `sendPacket` |
| `SessionRegistry` | session life cycle and `m_sessions` | `pc[s]` is where the read chain of session `s` is; login is three steps, close two |
| `Mailbox` | abstract | a document is put, confirmed, withdrawn, or taken along to another account |
| `Delivery` | store and forward; extends `SessionRegistry` | `inserted` is a document between `addRequest` and the post of its job, `jobs` are posted `processUserRequests`, `calls`, `todo` and `picked` the progress of `processRequests` (`picked`: between `requestPending` and `postRequest`), `pending` what the engine waits for |
| `Contacts` | contact requests | one step per database call, `job[s]` is the document the handler of `s` inserts |
| `Accounts` | registration | one step per database call |
| `Presence` | config and contact status; extends `SessionRegistry` | `stage[s]` and `todo[s]`: the loop over the contacts that the handler of `s` is in and whom it has yet to visit |
| `StreamStore` | abstract | parts are appended to a resource and handed out in order |
| `StreamBuffers` | `streambuffer.cpp`, `streambuffersender.cpp`, `createStreamReceiver`, the other half of `onTimer` | files, the table, the objects with their counters; one step per access of one of them |
| `Lifecycle` | `accept`, `handleSession`, the timer chain, `pause`, `resume`, `close`, the end of `main` | `life` of session objects, `main` thread, `job` of each worker, `moving`, the session a login has out of `m_sessions`, the acceptor and the timer |
| `LockOrder` | every mutex of the server | `held`, the stack of each thread, `wanted`, what it waits for; `Inside` lists what is taken under what |
| `MC*` | instances for TLC | symmetry sets and constants |
| `*Proofs` | theorems | inductive invariants and TLAPS proofs |

`Delivery` and `Presence` are compositions with the registry: every action of
the registry that needs nothing of theirs is a step of `RegistryStep`, login ends
in `processRequests` in one and in config and status list in the other, and their
handlers are handlers of the same read chain. `Lifecycle` keeps of a session
only whether it is listed and open.

Each mutant, an operator named in a comment `Mutant of ...`, is a plausible bug
in one definition. It is not part of any specification; replacing the definition
by it makes the property it was written for fail.

History variables (`raced`, `exposed`, `failed`, `reported`, ...) record what
happened for the properties. No action reads them except to keep request ids,
packets and add codes new. Some are the ways out of a property: what the code
really does when calls overlap or fail is in the model, and the variable notes
that it happened. In `Delivery` these are `dropped` (the insert failed), `left`
(an answer left the document in the store), `unseen` (a query that threw did not
list it), `carried` (a session changed its account with the document in hand)
and `overlapped` (two runners between `requestPending` and `postRequest`); in
`Contacts` `raced`, `unfiled`, `unchecked` and `undeleted` (the insert, the count
or the delete failed); in `Lifecycle` `missed` (not in `m_sessions` during the
`removeSessions` of `close`).

### Abstractions

- Messages, keys and packets are model values. Request ids of different pushes
  and contact requests are different; the copies of a group message share one,
  as in the code. A temporary id differs from every account id, add codes are
  new when drawn. These are random or client-chosen 32-bit numbers in the code.
- `DB::m_mutex` guards only the condition variable; each of its critical
  sections holds one visible step, so it has no variable in `DBPool`.
  `DB::cleanup` assigns the queue without `m_connectionsMutex`; a torn assignment
  is undefined behaviour and modelled by its intended effect only.
- MongoDB calls are atomic. `remove(..., justOne)` takes any matching document.
  In `Delivery`, `Contacts` and `Accounts` the calls may throw, and do what the
  `catch` of each does: `addRequest` reports success, `deleteRequest` a failure
  that most callers ignore, `requestPending` finds nothing, `getRequests` returns
  the part of the list it has, which may be none. Where a failure is reported to
  the client and nothing is changed (Dispatch, `getRequest`) there is no step.
  `MaxFaults` bounds the crashes and the failing calls together.
- What is pending on a session is kept by the engine, a submodule that is not in
  the repository (external): `requestPending` goes by the id, a logout or login
  does not clear it, and an answer ends one pending request.
- A handshake that completes after `removeSessions` closed the socket makes
  `remote_endpoint()` throw and ends the process; `Delivery` has such ends as
  `Restart`.
- `getRequest` has no filter on the type, so in `Contacts` an answer can itself be
  answered. To accept a rejection ends the process (it has no `publicKey`), which
  is a `Restart`. Requests refused before anything is stored change nothing and
  are not actions.
- Names are compared with a relation `Matches` that is reflexive: names without
  special characters of regular expressions.
- The Firebase branch of `processUserRequests` changes nothing that is modelled.
- In `Presence`, `setConfig` up to its broadcast is one step. `m_config` is read
  by other sessions without a lock; the outcome of that race on a library
  container is undefined, and only the values before and after are modelled. The
  entries AcceptContact adds to `m_contacts` are in `Contacts`.
- In `StreamBuffers` one part is the body of one packet. `lastActivity` is
  "never" (0), "recent" or "old" (over a minute). `FileBuffer::init` closes a
  file it refuses twice, which ends the process at worst: `Restart`.
  `removeStreamBuffer` has no caller and no action. Disk errors are left out.
- In `Lifecycle` a slot is a place for a session object, reused when the object
  is gone; a client connects only while a slot is left for the next accept. A
  login there is only the time between `removeSession` and `appendSession`.
- The daemon mode is not modelled. It has no console: the main thread runs
  handlers too, and SIGUSR1 stops the `io_service` (`main.cpp:71-74`, `237-240`).
  Every `run()` then returns after its present handler, whatever is queued, and
  `close` runs while the workers may still be in theirs.
- `SendPath` lists a slow sender in `m_senders` at the beginning of
  `addStreamSender`'s `sendPacket` and the code right after it; the timer may poll
  it earlier than in the code, which changes nothing but that. `SessionRegistry`
  begins with `start`; the time between accept and `start` is in `Lifecycle`.
- `LockOrder` lets a thread take any mutex that some critical section of the
  innermost one it holds takes, in any order and for any object: more than the
  code does, so that no circular wait there means none in the code. The engine's
  mutexes are not in the repository; its callbacks into the server are taken
  to come without one.

## Runs

Bounds: two or three of everything that interleaves, chosen so that a waiter
finds the pool empty and misses a wake-up (after `cleanup`), two workers are in
`sendPacket` together with a packet left in the queue, two devices answer the
same message (which the database holds from an earlier run: `Delivery`'s initial
states are all stores), one connection logs in to two recipients of a message in
turn (`MaxLogins = 2`), a crash or a failing call falls between any two steps and
a second one on its consequences (`MaxFaults = 2`), an add code is used twice and
an answer is answered (three ids), a third registration follows two overlapping
ones, two uploads of one id probe together while a download polls and the timer
evicts the object of each, and pauses and resumes fall into a running
`handleSession` with a latecomer waiting and a login under way (four slots).

| run | instance | shows |
|---|---|---|
| `pool` | 3 threads, 3 connections | exclusive use, nobody waits or gets `nullptr` before shutdown, `acquire` returns, refinement of `ConnectionPool` |
| `send` | 2 workers, 3 packets | each packet once, no lost wake-up, refinement of `PacketChannel` with liveness; writes overlap and packets overtake only after two workers were between the test and the setting of `m_sending` (`raced`) |
| `registry` | 3 sessions, 2 accounts, 1 temporary id | a listed session is where removal looks for it, closed ones stay only where a login raced `removeSessions`; a session that closes itself leaves for good |
| `delivery` | 2 sessions, 3 accounts, 1 request id, 2 logins, 2 crashes or failing calls | no message lost but by a failed insert or a copy taken along to another account (`dropped`, `carried`); none forgotten but for `left`, `unseen`, `carried`; no id posted twice but for `overlapped`; refinement of `Mailbox` |
| `delivery_live` | 2 sessions, 2 accounts, 2 logins, 1 crash or failing call | every device is offered every message, with the same ways out as `Covered` |
| `contacts` | an account with one device, one with two, 3 ids, 1 code, 2 crashes or failing calls | no request vanishes unless an insert failed (`unfiled`), contacts have both consents; one request per pair and one verdict per request unless handlers of the same account overlapped or were cut off (`raced`), or a count or a delete failed (`unchecked`, `undeleted`) |
| `contacts_code` | three accounts, 3 ids, 1 code | expects a violation: a used add code still resolves, to the account that used it (the finding in `PROJECT.json`) |
| `accounts` | 2 workers, 4 registrations, 3 names | what the three unprotected calls of a registration still guarantee, and what is left of it after a query threw (`failed`) |
| `presence` | 2 sessions, 2 accounts, configs that turn the status on and off | two clients that come online at once hear of each other; no device that logged out keeps the account's token |
| `streams` | 2 uploads and 1 download of one id, 2 parts, 2 evictions, 1 restart | a complete download is one whole upload, a second upload is kept out, the notification comes after the last part, downloads end; each with the windows that remain (`raced`, `exposed`); refinement of `StreamStore` |
| `lifecycle` | 2 workers, 4 slots | an accept and a timer wait are always alive, paused servers can be resumed, `close` leaves nobody and the process ends; each with the windows that remain (`broken`, `bindFailed`, `missed`, `late`) |
| `locks` | 3 threads, 2 sessions, 1 buffer | no circular wait, nor a deadlock |

The type invariants of `DBPool`, `SendPath`, `SessionRegistry`, `Delivery` and
`LockOrder`, and the invariants `NoLeak` and `RegistryKeyed`, are proved for all
constants and need no run.

`CHECK_DEADLOCK FALSE` is set where the system may really stop: sessions end and
do not come back (a session object is used once), a thread that got `nullptr`
has crashed, the server ends, clients run out of the bounded requests. Only
`locks` checks for deadlock.

### Fairness

- `DBPool`: threads run, database calls return, `wait_for` ends after ten
  seconds. Weak fairness of every step but `Acquire`, which nobody has to start.
- `SendPath`: a worker ends its handler (weak); the operating system completes
  or fails every write and some worker runs the completion; the two-second timer
  is re-armed by its own handler. The last two are strong, because the workers
  that could run them are busy now and then. Nobody has to post or upload.
- `SessionRegistry`, `Delivery`, `Presence`: handlers that began go on and posted
  jobs run. No fairness of clients, connections or operators.
- `StreamBuffers`: the handler of a packet runs to its end, and the timer polls
  each sender. No client has to send the next part, no object has to grow old.
- `Lifecycle`: queued handlers run to their end, a login among them, reads on a closed socket end,
  the timer expires, the main thread goes on. Neither clients nor the operator
  owe anything.

## Proofs

All for arbitrary constants, checked by TLAPS; the assumptions are the named
`ASSUME`s of the modules. Every invariant that a run checks is a theorem, and so
are the safety parts of the four refinements. Each inductive invariant was
model-checked before it was proved. `DeliveryProofs`
holds the proofs about the registry too, `DatabaseProofs` those about the pool
and about registrations.

- `DatabaseProofs`, the pool: `PoolTypeCorrect`, `PoolOwnership`,
  `PoolLargeEnough`, `PoolRefines`. The invariant adds to `ExclusiveUse` and
  `NoLeak` that the queue has no duplicates; the size argument compares the
  cardinality of held and pooled connections with that of the threads.
- `DatabaseProofs`, registrations: `AccountsTypeCorrect`, `AccountsFresh`,
  `AccountsCollisions`, `AccountsUnique` (one worker). `Fresh` says what a
  registration knows at each of its calls about those answered before it began.
  For the collisions, `Shared` counts with the accounts the registrations that
  are about to be inserted (`Holders`): a new id is above every stored one, so
  all its holders are still running, no more than workers; once one of them is
  stored nobody joins. That the sort of `newAccountId` has a highest id to find
  is part of the invariant (`Stored`), since induction over the collection is
  out of reach.
- `SendPathProofs`: `SendTypeCorrect`, `SendNeverStalls`, `SendExactlyOnce`,
  `SendOneAtATime`, `SendImplementsChannel` (the safety part of `Delivers`).
  `NoStall` alone is not inductive: a caller that finds `m_sending` set goes
  away, so one needs `Flag` (while `m_sending` is set, a write is under way,
  about to begin, or its handler about to clear it), and for uploads that arrive
  unnoticed `Listed` (awaited senders are on the timer's list). For the packets,
  `Apart` and `Places` keep each in one place, `Counted` compares the lengths, and
  `Single` and `InOrder` say what holds until two workers raced: one packet under
  way, and wire, packet and queue in the order of entry.
- `DeliveryProofs`, the registry: `RegistryTypeCorrect`, `RegistryConsistent`,
  `RegistryNoGhost`, `RegistryGone`. The invariant `Inv` adds `Chain`, what each
  place of the read chain says about socket and entries. `RegistryGone` is the
  safety half of `Departs`: what left after a `close` never comes back.
- `DeliveryProofs`, store and forward: `DeliveryTypeCorrect`,
  `DeliveryRegistryConsistent`, `DeliveryKeepsMessages`, `DeliveryPostsOnce`,
  `DeliveryOwnMail`, `DeliveryCovers`, `DeliveryKeepsMail`, for any clients, also
  those that change their account. The registry's `Inv` carries over because
  every step but `Restart` is a registry step (`DeliveryIsRegistry`). `DInv` adds
  `Identity` (who is logged in has an account's id), `Own` (what a runner has
  listed or posted for a session is of its account or was carried along),
  `Provenance` (what is stored or in somebody's hand was inserted, and a document
  that is to be inserted is new) and `Once` (what two runners hold between
  `requestPending` and `postRequest`). By `Own` a callback deletes its own document
  or one of a message that was carried, from which `NoLoss`
  and the refinement follow; `Covered` follows a document from insert to job to
  call to list to pending.
- `ContactsProofs`: `ContactsTypeCorrect`, `ContactsRequestKept`,
  `ContactsConsent`, `ContactsOnePending`, `ContactsOneVerdict`. `IdsUnique`,
  `Kinds` and `Jobs` describe the documents and what handlers have in hand;
  `Links` and `AnswerFirst` (an answer is stored before its document is deleted,
  unless the insert failed) carry `RequestKept`. Since an answer can be answered,
  `Consent` needs `Agreement`: every acceptance, of whatever document, goes back
  to a request of one party and an acceptance of it by the other. `Overlaps`,
  `Checked` and `Decided` say what a check of the database is still worth when it
  is used, as long as no other handler of the account was at work and no call
  failed. Assumed: the absent value is no document.
- `PresenceProofs`: `PresenceTypeCorrect`, `PresenceIntroduced`,
  `PresenceTokenOfUser`, `PresenceImplementsRegistry`. For `Introduced` one needs
  `Announced` (`m_config` is assigned before the broadcast, so that
  `getContactStatus` confirms what was announced) and `Visited` (in the middle of
  a query, whoever announced itself before its turn in the loop is in the answers
  or was heard). For the tokens, `Tokens`: no token leads to a session that is
  about to change its id.
- `StreamBuffersProofs`: `StreamTypeCorrect`, `StreamBacked`, `StreamOneWriter`,
  `StreamNotifiedIsStored`, `StreamWholeDownloads`, `StreamImplementsStore`.
  `Progress` says for each step of an upload which of its parts are in the file
  and what its object counts; `Alone` and `Listed` say what holds of a file whose
  uploads did not race and which was not exposed: one upload at work, in the
  table, having written all of it; then `Lengths` (its objects know the whole
  length) and `Prefixes` (a download has a beginning of the file) make a finished
  download whole.
- `LifecycleProofs`: `LifeTypeCorrect`, `LifeServing`, `LifeTicks`,
  `LifeNobodyLeft`. `AcceptChain` and `TimerChain` follow the one accept and the
  one timer wait through the handlers, `OneHandlerEach` keeps two workers out of
  the same one, `Acceptor` ties the acceptor to where the main thread is, and
  `Latecomers` says who can still be started once it is closed, or
  was in the middle of a login.
- `LockOrderProofs`: `LockTypeCorrect`, `LockNoDeadlock`. The mutexes have ranks:
  `m_contacts` and `m_senders` 1, `m_sessions`, `m_sending` and the packet queue
  2, `m_buffers`, `DB::m_mutex` and `m_status` 3, the rest 4; `Inside` only leads
  upwards. Inductive are `Ascending` (a thread's stack, and what it waits for,
  ascend) and that a mutex has one holder. In a set of threads that wait for each
  other one waits for a mutex of greatest rank; its holder would wait for a
  greater one.

Only model-checked: liveness, which is outside the prover's reach
(`AcquireReturns`, `Departs`, `Offered`, `DownloadEnds`, `Ends`, and the liveness
part of `Delivers`).

## Observations

What the code does and no line of the repository denies. Each is reachable in the
models, and the properties above are worded around it.

- Registry: a logged-out connection stays listed under its account and goes on
  getting its requests. A login that races `removeSessions` lists its closed
  session again, and nobody removes it.
- Delivery: a logout keeps the connection, its id and its pending requests, and a
  login to another account may follow. Then the callback's late `accountId()` lets
  an answer delete the second account's copy of a group message instead of the
  first's, and that message is lost for the second; and while the first copy is
  pending, `requestPending`, which knows only the request id, skips the second
  account's copy, which nobody looks at again before the next job or login. Without
  `carried` in them `NoLoss`, `Covered` and `KeepsMail` fail. `addRequest` returns
  true after an exception. A list that a query failed to make is not made again,
  and a document whose delete failed stays and is posted again only by the next
  job or login. Two runners on one session may post the same id twice.
- Contacts: when the insert of an answer fails, its request is deleted all the
  same and nothing is left of either. A count that throws lets a second request
  in, and a delete that failed leaves an answered request to be answered again.
  An answer can be answered like a request; accepting a rejection ends the
  process.
- Presence: logout and close leave `m_config` alone, so a logged-out session that
  is still listed counts as online in `getContactStatus`, and `close` tells
  nobody. A status list may be older than a broadcast that overtook it. The
  logout of one device clears the token of another device of the account.
- Streams: the file of an interrupted upload blocks its id for ever and is served
  truncated. So is a file opened after its running upload was evicted, or between
  `fopen` and `addStreamBuffer`. Two uploads that probe together mix their parts.
- Acceptor: an accept that fails ends the chain until the server is paused and
  resumed; a resume that cannot bind leaves the acceptor open and every later
  resume fails. `close` cancels a timer whose handler may be queued and will arm
  it again, and then `join_all` waits for ever; a connection accepted just before
  `close` is started after `removeSessions` and left to its client, and so is a
  session that a login has just taken out of `m_sessions`.
- `numContactRequests` returns -1 on an exception, which its callers keep in an
  unsigned variable and take for some requests: at worst a notification too many.

## Not modelled

Firebase (one blocking library call without state), logging, command line,
scripts, the UBJ/BSON conversions (structural recursion over library values that
are opaque here), the password hash, FindContact (a read-only query), and the
engine's packet format (not in the repository). The heartbeat is commented out in
the code.

## Plan

1. Done: pool, send path, registry, delivery, contacts, accounts, presence,
   stream buffers, life cycle, mutexes, with the theorems above.
2. Proofs: the stability facts behind the other liveness properties (a download
   that ended stays ended, a message stays offered), as `RegistryGone` is for
   `Departs`.
