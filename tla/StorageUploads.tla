---------------------------- MODULE StorageUploads ----------------------------
(***************************************************************************)
(* One resumable upload of Cloud Storage: a session in the metadata, the   *)
(* handlers of its requests, and the object they finish.  A handler reads  *)
(* the session in one transaction, takes the bytes of its request, and     *)
(* writes the session it read, with them, in another; the object and the   *)
(* session's Done are two more.  The client sends what its file has from   *)
(* where the session says it is, and may give a request up that the server *)
(* goes on with.  A unit is 256 KiB; the file is 1..Total.                 *)
(***************************************************************************)
EXTENDS Integers, Sequences, FiniteSets

CONSTANTS Handlers,       \* requests being served at a time
          Total,          \* units of the file
          MaxGivenUp,     \* bound on requests the client gives up
          MaxUploadFaults \* bound on failing handlers, and ends of the process

ASSUME UploadsAssumption ==
    Total \in Nat \ {0} /\ {MaxGivenUp, MaxUploadFaults} \subseteq Nat

VARIABLES session,      \* the record at session/<id>; absent is NoSession
          handler,      \* each request being served
          client,       \* "new", then "sending" until it has its last answer
          versions,     \* the object's versions: the content of each
          cancelled,    \* a DELETE was answered 499
          givenUp,      \* requests the client gave up
          uploadFaults

uploadVars == <<session, handler, client, versions, cancelled, givenUp, uploadFaults>>

File == [i \in 1..Total |-> i]
NoSession == [there |-> FALSE, age |-> "live", chunks |-> <<>>, done |-> FALSE, absent |-> FALSE]
\* A handler: where it is, the session it read or made, whether the request
\* names the total, and whether the client still waits for it.
NoHandler == [at |-> "none", u |-> NoSession, named |-> FALSE, awaited |-> FALSE]
Serving(at, u, named) == [at |-> at, u |-> u, named |-> named, awaited |-> TRUE]

Awaited == \E r \in Handlers : handler[r].awaited
Returns(r) == handler' = [handler EXCEPT ![r] = NoHandler]
Proceeds(r, at) == handler' = [handler EXCEPT ![r].at = at]
\* The client gets its last answer, if it still waits for this request.
Answers(r) == client' = IF handler[r].awaited THEN "ended" ELSE client

UploadFault == uploadFaults < MaxUploadFaults /\ uploadFaults' = uploadFaults + 1

Received(u) == Len(u.chunks)
\* Mutant: what was received before is not skipped.
RestUnskipped(u, sent, first) == sent
\* Of the units sent from first on, those that are not persisted yet.
Rest(u, sent, first) == SubSeq(sent, Received(u) - first + 1, Len(sent))

\* Mutant: the last unit is waited for although it has come.
CompleteBeyond(u, named) == named /\ Received(u) > Total
\* The total is named and reached; otherwise the answer is 308.
Complete(u, named) == named /\ Received(u) = Total
------------------------------------------------------------------------------
\* resumableStart, with or without ifGenerationMatch=0.
StartSession ==
    /\ client = "new" /\ client' = "sending"
    /\ session' \in {[NoSession EXCEPT !.there = TRUE, !.absent = a] : a \in BOOLEAN}
    /\ UNCHANGED <<handler, versions, cancelled, givenUp, uploadFaults>>

\* resumableChunk, up to its first Update: a chunk, or a status query, which
\* has no range (first = past).  The client has asked where the session is, and
\* starts there or before.  A range that starts beyond what is persisted, or
\* ends before it ("the chunk ended early"), is answered 400 and changes nothing.
Chunk(r, first, past, named) ==
    /\ client = "sending" /\ ~Awaited /\ handler[r].at = "none"
    /\ session.there /\ session.age = "live" /\ ~session.done
    /\ first <= Received(session)
    /\ first = past \/ past >= Received(session)
    /\ LET rest == Rest(session, SubSeq(File, first + 1, past), first)
           u == [session EXCEPT !.chunks = @ \o rest] IN
       /\ rest # <<>> \/ Complete(session, named)
       /\ handler' = [handler EXCEPT ![r] =
              Serving(IF rest # <<>> THEN "put" ELSE "finish", u, named)]
    /\ UNCHANGED <<session, client, versions, cancelled, givenUp, uploadFaults>>

\* The chunk is in the session.
PutChunk(r) ==
    /\ handler[r].at = "put"
    /\ session' = handler[r].u
    /\ IF Complete(handler[r].u, handler[r].named) THEN Proceeds(r, "finish") ELSE Returns(r)
    /\ UNCHANGED <<client, versions, cancelled, givenUp, uploadFaults>>

\* resumableFinish: the chunks joined, and finalizeObject with the session's
\* preconditions: ifGenerationMatch=0 refuses a second version.
Finish(r) ==
    /\ handler[r].at = "finish"
    /\ IF handler[r].u.absent /\ versions # <<>>
       THEN Returns(r) /\ Answers(r) /\ UNCHANGED versions
       ELSE /\ versions' = Append(versions, handler[r].u.chunks)
            /\ Proceeds(r, "done") /\ UNCHANGED client
    /\ UNCHANGED <<session, cancelled, givenUp, uploadFaults>>

\* The session's Done, whose Update may fail unseen, and the answer.
RecordDone(r) ==
    /\ handler[r].at = "done"
    /\ \/ session' = [handler[r].u EXCEPT !.done = TRUE] /\ UNCHANGED uploadFaults
       \/ UploadFault /\ UNCHANGED session
    /\ Returns(r) /\ Answers(r)
    /\ UNCHANGED <<versions, cancelled, givenUp>>

\* A request to a session that is done, expired or not there is answered at
\* once; one to a session past its second week removes it.
AnsweredAtOnce ==
    /\ client = "sending" /\ ~Awaited
    /\ session.done \/ session.age # "live" \/ ~session.there
    /\ client' = "ended"
    /\ session' = IF session.age = "gone" THEN NoSession ELSE session
    /\ UNCHANGED <<handler, versions, cancelled, givenUp, uploadFaults>>

\* DELETE: the session is read, and then removed; if that fails the answer is
\* the same.
Cancel(r) ==
    /\ client = "sending" /\ ~Awaited /\ handler[r].at = "none"
    /\ session.there /\ session.age = "live"
    /\ handler' = [handler EXCEPT ![r] = Serving("drop", session, FALSE)]
    /\ UNCHANGED <<session, client, versions, cancelled, givenUp, uploadFaults>>
Drop(r) ==
    /\ handler[r].at = "drop"
    /\ cancelled' = TRUE
    /\ \/ session' = NoSession /\ UNCHANGED uploadFaults
       \/ UploadFault /\ UNCHANGED session
    /\ Returns(r) /\ Answers(r)
    /\ UNCHANGED <<versions, givenUp>>

\* The client gives a request up, the server does not.
GiveUp(r) ==
    /\ handler[r].awaited /\ givenUp < MaxGivenUp
    /\ givenUp' = givenUp + 1
    /\ handler' = [handler EXCEPT ![r].awaited = FALSE]
    /\ UNCHANGED <<session, client, versions, cancelled, uploadFaults>>

\* A handler fails before its next Update: its body ended early, a blob could
\* not be written or joined, the Update failed.  Or the process ends.
HandlersEnd ==
    /\ UploadFault
    /\ \/ \E r \in Handlers : handler[r].at \in {"put", "finish"} /\ Returns(r)
       \/ handler' = [r \in Handlers |-> NoHandler]
    /\ UNCHANGED <<session, client, versions, cancelled, givenUp>>

\* A week passes, and another.  A handler does not take a week.
Weeks ==
    /\ session.there /\ session.age # "gone"
    /\ \A r \in Handlers : handler[r].at = "none"
    /\ session' = [session EXCEPT !.age = IF @ = "live" THEN "expired" ELSE "gone"]
    /\ UNCHANGED <<handler, client, versions, cancelled, givenUp, uploadFaults>>

UploadsInit ==
    /\ session = NoSession /\ handler = [r \in Handlers |-> NoHandler] /\ client = "new"
    /\ versions = <<>> /\ cancelled = FALSE /\ givenUp = 0 /\ uploadFaults = 0

ClientSends ==
    \/ \E r \in Handlers, first \in 0..Total, past \in 0..Total, named \in BOOLEAN :
          first <= past /\ Chunk(r, first, past, named)
    \/ AnsweredAtOnce
HandlerStep == \E r \in Handlers : PutChunk(r) \/ Finish(r) \/ RecordDone(r) \/ Drop(r)
UploadsNext ==
    \/ StartSession \/ ClientSends \/ HandlerStep
    \/ \E r \in Handlers : Cancel(r) \/ GiveUp(r)
    \/ HandlersEnd \/ Weeks

UploadsSpec == UploadsInit /\ [][UploadsNext]_uploadVars

\* The client goes on, and handlers do their next step.
UploadsFairSpec == UploadsSpec /\ WF_uploadVars(ClientSends) /\ WF_uploadVars(HandlerStep)
------------------------------------------------------------------------------
\* Every version an upload makes is the file: each unit once, in order, however
\* requests are repeated, overlap, fail or outlive the client ("Bytes already
\* persisted are immutable: a re-sent range is skipped").
ObjectIsWhole == \A i \in DOMAIN versions : versions[i] = File

\* A client that goes on gets its last answer, and then the object is there,
\* or it cancelled, or its session has expired.
UploadEnds ==
    []<>(client # "new" =>
            client = "ended" /\ (versions # <<>> \/ cancelled \/ ~session.there
                                 \/ session.age # "live"))

\* What the protocol's comment says beside: a cancelled session is gone, and
\* what a session has received it keeps.
CancelledGone == cancelled => ~session.there
ReceivedKept == [][session.there /\ session'.there =>
                      Received(session') >= Received(session)]_uploadVars
==============================================================================
