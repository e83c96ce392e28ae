-------------------------- MODULE SessionRegistry --------------------------
(***************************************************************************)
(* The life of ClientSession objects and the server's map of them          *)
(* (src/src/session.cpp, src/src/server.cpp).  A session has one chain of  *)
(* asynchronous reads, so its handlers run one after another, but several  *)
(* sessions run in different workers and the operator's removeSessions     *)
(* runs beside all of them.                                                *)
(*                                                                         *)
(* A random temporary id is taken to differ from every account id.         *)
(***************************************************************************)
EXTENDS Naturals, FiniteSets

CONSTANTS
  Sessions,   \* ClientSession objects
  Accounts,   \* account ids
  TempIds,    \* temporary ids drawn by start()
  NoAccount   \* the m_accountId of a session that was never started

ASSUME IdAssumption ==
  /\ Accounts \cap TempIds = {}
  /\ NoAccount \notin Accounts \cup TempIds

Disconnected == 0
Connected == 1
LoggedIn == 2

VARIABLES
  sock,       \* "none" before accept, then "open", then "closed"
  status,     \* m_status
  accountId,  \* m_accountId
  registry,   \* m_sessions: pairs <<id, session>>
  pc,         \* where the read chain of each session is
  swept       \* history: sessions that removeSessions closed

rvars == <<sock, status, accountId, registry, pc, swept>>

Ids == Accounts \cup TempIds

RegistryInit ==
  /\ sock = [s \in Sessions |-> "none"]
  /\ status = [s \in Sessions |-> Disconnected]
  /\ accountId = [s \in Sessions |-> NoAccount]
  /\ registry = {}
  /\ pc = [s \in Sessions |-> "none"]
  /\ swept = {}

Goto(s, l) == pc' = [pc EXCEPT ![s] = l]
SetStatus(s, v) == status' = [status EXCEPT ![s] = v]

\* Server::removeSession looks under the id the session has now.
Removed(s) == registry \ {<<accountId[s], s>>}

\* recvPacket: the chain goes on reading, or ends at once with a bad
\* descriptor when the socket was closed meanwhile.
RecvPacket(s) == Goto(s, IF sock[s] = "open" THEN "read" ELSE "stopped")

\* Server::handleSession and ClientSession::start: draw a temporary id,
\* register, begin the TLS handshake.  The accepted connection that is not
\* started yet, which nobody can find, is in Lifecycle.
Start(s) ==
  /\ sock[s] = "none"
  /\ sock' = [sock EXCEPT ![s] = "open"]
  /\ \E id \in TempIds :
       /\ accountId' = [accountId EXCEPT ![s] = id]
       /\ registry' = registry \cup {<<id, s>>}
  /\ Goto(s, "handshake")
  /\ UNCHANGED <<status, swept>>

\* handleHandshake.  With the socket closed under it, remote_endpoint() throws
\* and the process ends.
Handshake(s) ==
  /\ pc[s] = "handshake" /\ sock[s] = "open"
  /\ SetStatus(s, Connected)
  /\ RecvPacket(s)
  /\ UNCHANGED <<sock, accountId, registry, swept>>

\* Mutant of Close: close(false, false), as in the heartbeat's dead code.
CloseKeeps(s) ==
  /\ pc[s] \in {"handshake", "read"}
  /\ sock' = [sock EXCEPT ![s] = "closed"]
  /\ SetStatus(s, Disconnected)
  /\ Goto(s, "stopped")
  /\ UNCHANGED <<accountId, registry, swept>>

\* close(false, true), up to the removal: entered when the handshake fails or
\* a read ends with eof, reset, abort or a short read.
Close(s) ==
  /\ pc[s] \in {"handshake", "read"}
  /\ sock' = [sock EXCEPT ![s] = "closed"]
  /\ SetStatus(s, Disconnected)
  /\ Goto(s, "closing")
  /\ UNCHANGED <<accountId, registry, swept>>

\* close: removeSession.
CloseRemove(s) ==
  /\ pc[s] = "closing"
  /\ registry' = Removed(s)
  /\ Goto(s, "stopped")
  /\ UNCHANGED <<sock, status, accountId, swept>>

\* A read is cancelled by somebody's close, or ends with an error the handlers
\* do not list, or delivers part of a head: the chain ends, nothing else happens.
ReadStops(s) ==
  /\ pc[s] = "read"
  /\ Goto(s, "stopped")
  /\ UNCHANGED <<sock, status, accountId, registry, swept>>

\* processLogin, credentials accepted.  The packet may have been read before
\* removeSessions closed the socket.
Login(s) ==
  /\ pc[s] = "read"
  /\ status[s] < LoggedIn
  /\ SetStatus(s, LoggedIn)
  /\ Goto(s, "loginRemove")
  /\ UNCHANGED <<sock, accountId, registry, swept>>

\* Mutant of LoginRemove: the temporary entry stays.
LoginRemoveSkipped(s) ==
  /\ pc[s] = "loginRemove"
  /\ Goto(s, "loginAppend")
  /\ UNCHANGED <<sock, status, accountId, registry, swept>>

\* processLogin: "remove temporary session".
LoginRemove(s) ==
  /\ pc[s] = "loginRemove"
  /\ registry' = Removed(s)
  /\ Goto(s, "loginAppend")
  /\ UNCHANGED <<sock, status, accountId, swept>>

\* processLogin: "append authenticated session".
LoginAppend(s, a) ==
  /\ pc[s] = "loginAppend"
  /\ accountId' = [accountId EXCEPT ![s] = a]
  /\ registry' = registry \cup {<<a, s>>}
  /\ Goto(s, "serve")
  /\ UNCHANGED <<sock, status, swept>>

\* processLogin: the response and processRequests, then the next read.
LoginFinish(s) ==
  /\ pc[s] = "serve"
  /\ RecvPacket(s)
  /\ UNCHANGED <<sock, status, accountId, registry, swept>>

\* Mutant of Logout: the entry is removed and no temporary one made.
LogoutForgets(s) ==
  /\ pc[s] = "read"
  /\ status[s] = LoggedIn
  /\ SetStatus(s, Connected)
  /\ registry' = Removed(s)
  /\ Goto(s, "busy")
  /\ UNCHANGED <<sock, accountId, swept>>

\* processLogout, up to the status broadcast: the session keeps its id and its
\* entry.
Logout(s) ==
  /\ pc[s] = "read"
  /\ status[s] = LoggedIn
  /\ SetStatus(s, Connected)
  /\ Goto(s, "busy")
  /\ UNCHANGED <<sock, accountId, registry, swept>>

\* Any other packet handler: it touches neither the status nor the registry,
\* but the session may be closed while it runs.  EndHandler also ends a logout.
BeginHandler(s) ==
  /\ pc[s] = "read"
  /\ Goto(s, "busy")
  /\ UNCHANGED <<sock, status, accountId, registry, swept>>

EndHandler(s) ==
  /\ pc[s] = "busy"
  /\ RecvPacket(s)
  /\ UNCHANGED <<sock, status, accountId, registry, swept>>

\* Server::removeSessions, under the m_sessions lock: close(false, false) for
\* every entry, then clear the map.  Run by the console's r and by close().
RemoveSessions ==
  LET victims == {s \in Sessions : \E k \in Ids : <<k, s>> \in registry}
  IN /\ victims # {}
     /\ sock' = [s \in Sessions |-> IF s \in victims THEN "closed" ELSE sock[s]]
     /\ status' = [s \in Sessions |-> IF s \in victims THEN Disconnected ELSE status[s]]
     /\ registry' = {}
     /\ swept' = swept \cup victims
     /\ UNCHANGED <<accountId, pc>>

\* The steps of a session's handlers once they run.
Handler(s) ==
  \/ CloseRemove(s) \/ EndHandler(s)
  \/ LoginRemove(s) \/ (\E a \in Accounts : LoginAppend(s, a)) \/ LoginFinish(s)

RegistryNext ==
  \/ \E s \in Sessions :
       \/ Start(s) \/ Handshake(s) \/ Close(s) \/ ReadStops(s)
       \/ Login(s) \/ Logout(s) \/ BeginHandler(s) \/ Handler(s)
  \/ RemoveSessions

\* A handler that has begun runs to its end.
RegistrySpec ==
  RegistryInit /\ [][RegistryNext]_rvars /\ \A s \in Sessions : WF_rvars(Handler(s))

----------------------------------------------------------------------------
Labels == {"none", "handshake", "read", "busy", "closing", "stopped",
           "loginRemove", "loginAppend", "serve"}

\* Every variable has its type.
RegistryTypeOK ==
  /\ sock \in [Sessions -> {"none", "open", "closed"}]
  /\ status \in [Sessions -> {Disconnected, Connected, LoggedIn}]
  /\ accountId \in [Sessions -> Ids \cup {NoAccount}]
  /\ registry \subseteq Ids \X Sessions
  /\ pc \in [Sessions -> Labels]
  /\ swept \subseteq Sessions

\* A session is listed under its present id only, so removeSession, which
\* looks under accountId(), can always find the entry it has to remove.
RegistryKeyed == \A e \in registry : e[1] = accountId[e[2]]

\* A session with an open socket can be found under its id, except in the
\* window of processLogin between removing and appending it; so neither
\* removeSessions nor processUserRequests overlooks a connected client.
Findable ==
  \A s \in Sessions :
    sock[s] = "open" /\ pc[s] # "loginAppend" => <<accountId[s], s>> \in registry

\* An entry whose socket is closed is about to be removed by the session's own
\* close(), unless removeSessions closed it while it was logging in.
NoGhost ==
  \A e \in registry :
    sock[e[2]] = "open" \/ pc[e[2]] = "closing" \/ e[2] \in swept

\* A session that closes itself leaves the map for good.
Departs ==
  \A s \in Sessions :
    pc[s] = "closing" ~> [](\A k \in Ids : <<k, s>> \notin registry)
============================================================================
