--------------------------- MODULE StreamBuffers ---------------------------
(***************************************************************************)
(* Resources (src/src/streambuffer.cpp, streambuffersender.cpp, server.cpp,*)
(* session.cpp).  An upload arrives part by part in the uploader's session *)
(* and is appended to the file tmp/<id> by a StreamBuffer object; downloads*)
(* read it in other sessions, often while it still grows.  The table       *)
(* m_buffers leads from an id to the object; the timer empties it of       *)
(* objects nobody has used for a minute, and a file that has no entry is   *)
(* opened again as an object of its own, of the length it then has.        *)
(*                                                                         *)
(* One part is one packet's body.  One access of a file, of the table or   *)
(* of an object's counters is one step; an object that was just made has   *)
(* lastActivity 0, "never", which is more than a minute ago.               *)
(***************************************************************************)
EXTENDS Naturals, Sequences, FiniteSets

CONSTANTS
  Ids, Uploads, Downloads,
  Target,        \* the resource of each upload and download
  Parts,         \* the parts of a complete resource
  MaxEvictions,  \* bound on the timer's evictions
  MaxRestarts    \* bound on restarts of the server

ASSUME StreamAssumption ==
  /\ Target \in [Uploads \cup Downloads -> Ids]
  /\ Parts \in Nat \ {0}
  /\ MaxEvictions \in Nat /\ MaxRestarts \in Nat

VARIABLES
  files,      \* the ids that have a file
  file,       \* the parts in each file, pairs <<upload, number>>
  buffers,    \* m_buffers: the object of each id, or NoObject
  obj,        \* the StreamBuffer objects made since the server started
  up,         \* where each upload is
  upObj,      \* the object each upload writes to
  down,       \* where each download is
  downObj,    \* m_buffer of each download's StreamBufferSender
  got,        \* the parts each download has put into packets
  requests,   \* uploads whose Dispatch request is in the database
  evictions, restarts,
  raced,      \* history: ids two uploads of which probed the file together
  exposed     \* history: ids whose unfinished file could be or was opened

vars == <<files, file, buffers, obj, up, upObj, down, downObj, got, requests,
          evictions, restarts, raced, exposed>>

NoObject == 0

Init ==
  /\ files = {}
  /\ file = [id \in Ids |-> <<>>]
  /\ buffers = [id \in Ids |-> NoObject]
  /\ obj = <<>>
  /\ up = [u \in Uploads |-> "none"] /\ upObj = [u \in Uploads |-> NoObject]
  /\ down = [d \in Downloads |-> "none"] /\ downObj = [d \in Downloads |-> NoObject]
  /\ got = [d \in Downloads |-> <<>>]
  /\ requests = {}
  /\ evictions = 0 /\ restarts = 0
  /\ raced = {} /\ exposed = {}

Step(u, l) == up' = [up EXCEPT ![u] = l]

\* The constructors: nothing readable, never used.
Created(id) == [id |-> id, parts |-> Parts, readable |-> 0, activity |-> "never"]

\* StreamBuffer::open and load: the length of the file decides everything.
Loaded(id) ==
  [id |-> id, parts |-> Len(file[id]), readable |-> Len(file[id]), activity |-> "never"]

-----------------------------------------------------------------------------
\* Mutant of Probe: the file is opened for appending at once.
ProbeSkipped(u) ==
  /\ up[u] = "none"
  /\ Step(u, "probed")
  /\ UNCHANGED <<files, file, buffers, obj, upObj, down, downObj, got, requests,
                 evictions, restarts, raced, exposed>>

\* createStreamReceiver for the first packet, down to FileBuffer::init: an
\* existing file is refused, whoever wrote it and however little of it.  The
\* refused FileBuffer closes its file twice; the process dies of it at worst,
\* which is Restart.
Probe(u) ==
  LET id == Target[u]
  IN /\ up[u] = "none"
     /\ Step(u, IF id \in files THEN "refused" ELSE "probed")
     /\ raced' = IF id \notin files /\ \E v \in Uploads \ {u} : Target[v] = id /\ up[v] = "probed"
                 THEN raced \cup {id} ELSE raced
     /\ UNCHANGED <<files, file, buffers, obj, upObj, down, downObj, got, requests,
                    evictions, restarts, exposed>>

\* FileBuffer::init: the second fopen makes the file, or opens the one that
\* was made since the probe.
CreateFile(u) ==
  /\ up[u] = "probed"
  /\ files' = files \cup {Target[u]}
  /\ obj' = Append(obj, Created(Target[u]))
  /\ upObj' = [upObj EXCEPT ![u] = Len(obj) + 1]
  /\ Step(u, "created")
  /\ UNCHANGED <<file, buffers, down, downObj, got, requests, evictions, restarts,
                 raced, exposed>>

\* Server::addStreamBuffer, whose refusal createStreamReceiver ignores.
AddStreamBuffer(u) ==
  LET id == Target[u]
  IN /\ up[u] = "created"
     /\ buffers' = [buffers EXCEPT ![id] = IF @ = NoObject THEN upObj[u] ELSE @]
     /\ Step(u, "receiving")
     /\ UNCHANGED <<files, file, obj, upObj, down, downObj, got, requests,
                    evictions, restarts, raced, exposed>>

\* Mutant of WritePart: the part stays in the buffer of stdio.
WriteUnflushed(u) ==
  /\ up[u] = "receiving"
  /\ Step(u, "written")
  /\ UNCHANGED <<files, file, buffers, obj, upObj, down, downObj, got, requests,
                 evictions, restarts, raced, exposed>>

\* Mutant of WritePart: the file is not opened in append mode.
WriteInPlace(u) ==
  LET id == Target[u]
      k == obj[upObj[u]].readable
  IN /\ up[u] = "receiving"
     /\ file' = [file EXCEPT ![id] = Append(SubSeq(@, 1, k), <<u, k + 1>>)]
     /\ Step(u, "written")
     /\ UNCHANGED <<files, buffers, obj, upObj, down, downObj, got, requests,
                    evictions, restarts, raced, exposed>>

\* StreamBuffer::write, first half, and FileBuffer::write: the next packet's
\* part goes to the end of the file, the offset notwithstanding, and is
\* flushed.
WritePart(u) ==
  LET id == Target[u]
  IN /\ up[u] = "receiving"
     /\ file' = [file EXCEPT ![id] = Append(@, <<u, obj[upObj[u]].readable + 1>>)]
     /\ Step(u, "written")
     /\ UNCHANGED <<files, buffers, obj, upObj, down, downObj, got, requests,
                    evictions, restarts, raced, exposed>>

\* Mutant of MakeReadable: the receiver takes the last part but one for the
\* last.
MakeReadableEarly(u) ==
  LET o == upObj[u]
  IN /\ up[u] = "written"
     /\ obj' = [obj EXCEPT ![o].readable = @ + 1, ![o].activity = "recent"]
     /\ Step(u, IF obj[o].readable + 2 >= Parts THEN "complete" ELSE "receiving")
     /\ UNCHANGED <<files, file, buffers, upObj, down, downObj, got, requests,
                    evictions, restarts, raced, exposed>>

\* StreamBuffer::write, second half: m_bytesReadable and m_lastActivity.  The
\* receiver (external) is complete with the last part.
MakeReadable(u) ==
  LET o == upObj[u]
  IN /\ up[u] = "written"
     /\ obj' = [obj EXCEPT ![o].readable = @ + 1, ![o].activity = "recent"]
     /\ Step(u, IF obj[o].readable + 1 = Parts THEN "complete" ELSE "receiving")
     /\ UNCHANGED <<files, file, buffers, upObj, down, downObj, got, requests,
                    evictions, restarts, raced, exposed>>

\* The receiver's callback: flush and addRequest, which reports an exception
\* of the database as success.  The processRequests() after it changes nothing
\* here; it is a runner of the module Delivery.
StreamReceived(u) ==
  /\ up[u] = "complete"
  /\ requests' \in {requests, requests \cup {u}}
  /\ Step(u, "done")
  /\ UNCHANGED <<files, file, buffers, obj, upObj, down, downObj, got,
                 evictions, restarts, raced, exposed>>

\* The uploader's session ends between two packets.  The file stays.
Interrupt(u) ==
  /\ up[u] = "receiving"
  /\ Step(u, "cut")
  /\ exposed' = exposed \cup {Target[u]}
  /\ UNCHANGED <<files, file, buffers, obj, upObj, down, downObj, got, requests,
                 evictions, restarts, raced>>

-----------------------------------------------------------------------------
\* Mutant of Found: the table is not consulted.
FoundOnDisk(d) ==
  LET id == Target[d]
  IN IF downObj[d] # NoObject THEN downObj[d]
     ELSE IF id \in files THEN Len(obj) + 1 ELSE NoObject

\* StreamBufferSender::getBuffer and Server::getStreamBuffer: the object the
\* sender has, the one in the table, or a new one for the file.
Found(d) ==
  LET id == Target[d]
  IN IF downObj[d] # NoObject THEN downObj[d]
     ELSE IF buffers[id] # NoObject THEN buffers[id]
     ELSE IF id \in files THEN Len(obj) + 1 ELSE NoObject

\* The objects once getBuffer has run.
ObjectsAfter(d) ==
  IF Found(d) > Len(obj) THEN Append(obj, Loaded(Target[d])) ELSE obj

\* Between FileBuffer::init and addStreamBuffer the file is there and the table
\* knows nothing of its upload.
Unlisted(id) == \E u \in Uploads : Target[u] = id /\ up[u] = "created"

\* Mutant of GetBuffer: the result of StreamBuffer::open is not looked at.
GetBufferUnchecked(d) ==
  LET id == Target[d]
      opened == Found(d) > Len(obj)
  IN /\ downObj' = [downObj EXCEPT ![d] = IF Found(d) = NoObject THEN Len(obj) + 1 ELSE Found(d)]
     /\ buffers' = IF opened THEN [buffers EXCEPT ![id] = Found(d)] ELSE buffers
     /\ exposed' = IF opened /\ Unlisted(id) THEN exposed \cup {id} ELSE exposed

\* What getBuffer changes besides the objects.
GetBuffer(d) ==
  LET id == Target[d]
      opened == Found(d) > Len(obj)
  IN /\ downObj' = [downObj EXCEPT ![d] = Found(d)]
     /\ buffers' = IF opened THEN [buffers EXCEPT ![id] = Found(d)] ELSE buffers
     /\ exposed' = IF opened /\ Unlisted(id) THEN exposed \cup {id} ELSE exposed

\* The callback of a Push in processRequests: the client has confirmed the
\* message and asks for its resource.  The sender is created, with getBuffer,
\* and entered in m_senders.
CreateSender(d) ==
  /\ down[d] = "none"
  /\ down' = [down EXCEPT ![d] = "sending"]
  /\ GetBuffer(d)
  /\ obj' = ObjectsAfter(d)
  /\ UNCHANGED <<files, file, up, upObj, got, requests, evictions, restarts, raced>>

\* Mutant of PreparePacket: a sender that was created before its buffer never
\* looks for it again.
PrepareWithoutRetry(d) ==
  LET o == downObj[d]
      k == Len(got[d]) + 1
  IN /\ down[d] = "sending" /\ o # NoObject
     /\ obj' = [obj EXCEPT ![o].activity = "recent"]
     /\ got' = [got EXCEPT ![d] = IF k <= obj[o].readable THEN Append(@, file[Target[d]][k]) ELSE @]
     /\ down' = [down EXCEPT ![d] = IF Len(got'[d]) = obj[o].parts THEN "done" ELSE @]
     /\ UNCHANGED <<files, file, up, upObj, requests, evictions, restarts, raced,
                    buffers, downObj, exposed>>

\* StreamBufferSender::preparePacket, which sendPacket reaches, at the latest
\* when the timer polls m_senders: getBuffer, then StreamBuffer::read of the
\* next part if it is readable.  A read touches m_lastActivity even if there
\* was nothing to read, unless the file fails it.  The sender (external) is
\* complete when it has sent as many parts as its object had.
PreparePacket(d) ==
  LET id == Target[d]
      o == Found(d)
      objects == ObjectsAfter(d)
      k == Len(got[d]) + 1
      wanted == k <= objects[o].readable
      there == k <= Len(file[id])
  IN /\ down[d] = "sending" /\ o # NoObject
     /\ GetBuffer(d)
     /\ obj' = IF wanted /\ ~there THEN objects
               ELSE [objects EXCEPT ![o].activity = "recent"]
     /\ got' = [got EXCEPT ![d] = IF wanted /\ there THEN Append(@, file[id][k]) ELSE @]
     /\ down' = [down EXCEPT ![d] = IF Len(got'[d]) = objects[o].parts THEN "done" ELSE @]
     /\ UNCHANGED <<files, file, up, upObj, requests, evictions, restarts, raced>>

-----------------------------------------------------------------------------
\* A minute passes in which nobody reads or writes an object of the table.
GrowOld(id) ==
  LET o == buffers[id]
  IN /\ o # NoObject
     /\ obj[o].activity = "recent"
     /\ obj' = [obj EXCEPT ![o].activity = "old"]
     /\ UNCHANGED <<files, file, buffers, up, upObj, down, downObj, got, requests,
                    evictions, restarts, raced, exposed>>

Running(u) == up[u] \in {"receiving", "written"}

\* Server::onTimer, second half: objects that were not used within a minute
\* leave the table, those never used among them.
EvictStale ==
  LET stale == {id \in Ids : buffers[id] # NoObject /\ obj[buffers[id]].activity # "recent"}
  IN /\ stale # {} /\ evictions < MaxEvictions
     /\ evictions' = evictions + 1
     /\ buffers' = [id \in Ids |-> IF id \in stale THEN NoObject ELSE buffers[id]]
     /\ exposed' = exposed \cup
                     {id \in stale : \E u \in Uploads : Running(u) /\ upObj[u] = buffers[id]}
     /\ UNCHANGED <<files, file, obj, up, upObj, down, downObj, got, requests,
                    restarts, raced>>

\* The process ends and is started again: files and database stay.
Restart ==
  LET broken == {u \in Uploads : up[u] \in {"created", "receiving", "written"}}
      ended == {u \in Uploads : up[u] \in {"probed", "complete"}} \cup broken
  IN /\ restarts < MaxRestarts
     /\ restarts' = restarts + 1
     /\ buffers' = [id \in Ids |-> NoObject]
     /\ obj' = <<>>
     /\ up' = [u \in Uploads |-> IF u \in ended THEN "cut" ELSE up[u]]
     /\ upObj' = [u \in Uploads |-> NoObject]
     /\ down' = [d \in Downloads |-> IF down[d] = "sending" THEN "cut" ELSE down[d]]
     /\ downObj' = [d \in Downloads |-> NoObject]
     /\ exposed' = exposed \cup {Target[u] : u \in broken}
     /\ UNCHANGED <<files, file, got, requests, evictions, raced>>

\* The steps of an upload that follow from what its handler has begun.
UploadStep(u) ==
  CreateFile(u) \/ AddStreamBuffer(u) \/ MakeReadable(u) \/ StreamReceived(u)

Next ==
  \/ \E u \in Uploads : Probe(u) \/ WritePart(u) \/ Interrupt(u) \/ UploadStep(u)
  \/ \E d \in Downloads : CreateSender(d) \/ PreparePacket(d)
  \/ \E id \in Ids : GrowOld(id)
  \/ EvictStale \/ Restart

\* Handlers run to their end and the timer polls every sender; no client has to
\* send anything.
Fairness ==
  /\ \A u \in Uploads : WF_vars(UploadStep(u))
  /\ \A d \in Downloads : WF_vars(PreparePacket(d))

Spec == Init /\ [][Next]_vars /\ Fairness
-----------------------------------------------------------------------------
Items == Uploads \X (1 .. Parts)

\* Every variable has its type; an upload has an object from fopen on, and the
\* objects in the table and in the senders' hands exist and are of their id.
TypeOK ==
  /\ files \subseteq Ids
  /\ file \in [Ids -> Seq(Items)] /\ got \in [Downloads -> Seq(Items)]
  /\ obj \in Seq([id : Ids, parts : Nat, readable : Nat, activity : {"never", "recent", "old"}])
  /\ buffers \in [Ids -> 0 .. Len(obj)]
  /\ up \in [Uploads -> {"none", "refused", "probed", "created", "receiving",
                         "written", "complete", "done", "cut"}]
  /\ down \in [Downloads -> {"none", "sending", "done", "cut"}]
  /\ upObj \in [Uploads -> 0 .. Len(obj)] /\ downObj \in [Downloads -> 0 .. Len(obj)]
  /\ requests \subseteq Uploads
  /\ evictions \in 0 .. MaxEvictions /\ restarts \in 0 .. MaxRestarts
  /\ raced \subseteq Ids /\ exposed \subseteq Ids
  /\ \A id \in Ids : buffers[id] # NoObject => obj[buffers[id]].id = id
  /\ \A u \in Uploads : up[u] \in {"created", "receiving", "written", "complete"} =>
       upObj[u] # NoObject /\ obj[upObj[u]].id = Target[u]
  /\ \A d \in Downloads : downObj[d] # NoObject => obj[downObj[d]].id = Target[d]

\* What an object offers is in the file, at every moment between the steps of
\* a writer and for every object of the file, so no read falls short.
Backed == \A o \in 1 .. Len(obj) : obj[o].readable <= Len(file[obj[o].id])

\* The probe keeps a second upload out of a file, except that two uploads that
\* probe before either has created it both append to it.
OneWriter ==
  \A id \in Ids \ raced : \A i, j \in 1 .. Len(file[id]) : file[id][i][1] = file[id][j][1]

Whole(u) == [k \in 1 .. Parts |-> <<u, k>>]

\* A download that is complete has every part of one upload in order, although
\* it read while the upload ran, objects came and went in the table and the
\* server restarted.  Parts are missing only if the file was opened, or can be,
\* while its upload was unfinished and not in the table: cut off, evicted after
\* a minute's silence, or caught between fopen and addStreamBuffer.
WholeDownloads ==
  \A d \in Downloads :
    down[d] = "done" /\ Target[d] \notin raced \cup exposed =>
      \E u \in Uploads : got[d] = Whole(u)

\* The request that tells the uploader that its resource has arrived is in the
\* database only when all parts are in the file, and restarts do not change it.
NotifiedIsStored ==
  \A u \in requests : \A k \in 1 .. Parts :
    \E i \in 1 .. Len(file[Target[u]]) : file[Target[u]][i] = <<u, k>>

Store == INSTANCE StreamStore WITH stored <- file

\* StreamBuffers implements StreamStore: whatever objects stand between them,
\* uploads append and downloads walk through what was appended.
Streams == Store!Spec

\* Once an upload is complete, every download of it that was begun comes to its
\* end (or to the end of the process), even if it was begun before the upload
\* was, or holds an object that has left the table.
DownloadEnds ==
  \A u \in Uploads, d \in Downloads :
    up[u] = "done" /\ Target[d] = Target[u] /\ Target[d] \notin raced /\ down[d] = "sending"
      ~> down[d] # "sending"
=============================================================================
