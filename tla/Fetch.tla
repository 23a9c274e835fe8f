-------------------------------- MODULE Fetch --------------------------------
(***************************************************************************)
(* The data plane of fetches, on top of Exchanges: the one stream that a   *)
(* fetchResponseWriter opens and the application writes objects to         *)
(* (fetch_response_writer.go, local_track.go, fetch_stream.go), the loop   *)
(* that accepts it and the goroutine that reads it into the track of the   *)
(* Fetch call (session.go, remote_track.go).                               *)
(*                                                                         *)
(* The objects of a fetch are numbered as they are written.  The stream is *)
(* a reliable FIFO that is not ordered with the control stream.            *)
(***************************************************************************)
EXTENDS Exchanges

CONSTANTS
    MaxStreams,  \* bound: fetch streams opened
    MaxObjects,  \* bound: objects written per fetch
    BufferCap    \* capacity of RemoteTrack.buffer (100)

ASSUME FetchAssumption == MaxStreams \in Nat /\ MaxObjects \in Nat /\ BufferCap \in Nat \ {0}

VARIABLES
    stream,   \* per request: its fetch stream, how far it got and what it holds
    loop,     \* readStreams of the requester
    written,  \* per request: number of objects written
    buffer,   \* per request: RemoteTrack.buffer
    read,     \* per request: the objects ReadObject returned
    dropped   \* per request: the objects dropped on a full buffer

fetchVars == <<stream, loop, written, buffer, read, dropped>>
allVars == <<vars, fetchVars>>

Objects == 1..MaxObjects

\* Stream states: opened by the responder, accepted by readStreams, read into a
\* track, ignored since its request is unknown, or read to its end.
Stream == [state : {"none", "opened", "accepted", "read", "ignored", "eof"}, sent : Seq(Objects), fin : BOOLEAN]

FetchTypeOK ==
    /\ stream \in [Requests -> Stream]
    /\ loop \in {"running", "cancelled"}
    /\ written \in [Requests -> 0..MaxObjects]
    /\ buffer \in [Requests -> Seq(Objects)] /\ \A r \in Requests : Len(buffer[r]) <= BufferCap
    /\ read \in [Requests -> Seq(Objects)]
    /\ dropped \in [Requests -> SUBSET Objects]

FetchInit ==
    /\ Init
    /\ stream = [r \in Requests |-> [state |-> "none", sent |-> <<>>, fin |-> FALSE]]
    /\ loop = "running"
    /\ written = [r \in Requests |-> 0]
    /\ buffer = [r \in Requests |-> <<>>]
    /\ read = [r \in Requests |-> <<>>]
    /\ dropped = [r \in Requests |-> {}]

-----------------------------------------------------------------------------
\* The responder

\* getFetchStream, from the handler or later: the context of the track ends
\* when FETCH_CANCEL removes it.  The application does not ask for the stream
\* of a fetch it has rejected.
GetFetchStream(r) ==
    /\ call[r].kind = "FETCH" /\ incoming[r] # "none"
    /\ stream[r].state = "none"
    /\ Cardinality({q \in Requests : stream[q].state # "none"}) < MaxStreams
    /\ stream' = [stream EXCEPT ![r].state = "opened"]
    /\ UNCHANGED <<vars, loop, written, buffer, read, dropped>>

\* FetchStream.WriteObject asks nobody whether the fetch was cancelled.
WriteObject(r) ==
    /\ stream[r].state # "none" /\ ~stream[r].fin
    /\ written[r] < MaxObjects
    /\ written' = [written EXCEPT ![r] = @ + 1]
    /\ stream' = [stream EXCEPT ![r].sent = Append(@, written[r] + 1)]
    /\ UNCHANGED <<vars, loop, buffer, read, dropped>>

CloseStream(r) ==
    /\ stream[r].state # "none" /\ ~stream[r].fin
    /\ stream' = [stream EXCEPT ![r].fin = TRUE]
    /\ UNCHANGED <<vars, loop, written, buffer, read, dropped>>

-----------------------------------------------------------------------------
\* The requester

\* readStreams starts a goroutine per stream ...
AcceptUniStream(r) ==
    /\ loop = "running" /\ stream[r].state = "opened"
    /\ stream' = [stream EXCEPT ![r].state = "accepted"]
    /\ UNCHANGED <<vars, loop, written, buffer, read, dropped>>

\* ... until the session's context is cancelled, by the control reader that
\* died; the goroutines it started go on.
StopLoop ==
    /\ loop = "running" /\ reader["requester"] # "reading"
    /\ loop' = "cancelled"
    /\ UNCHANGED <<vars, stream, written, buffer, read, dropped>>

\* handleUniStream, readFetchStream: findByRequestID, in pending and open
\* tracks.  Nobody reads the stream of an unknown request.
HandleUniStreamIfOpen(r) ==
    /\ stream[r].state = "accepted"
    /\ stream' = [stream EXCEPT ![r].state = IF out[r] = "announced" THEN "read" ELSE "ignored"]
    /\ UNCHANGED <<vars, loop, written, buffer, read, dropped>>
HandleUniStream(r) ==
    /\ stream[r].state = "accepted"
    /\ stream' = [stream EXCEPT ![r].state = IF out[r] = "none" THEN "ignored" ELSE "read"]
    /\ UNCHANGED <<vars, loop, written, buffer, read, dropped>>

\* RemoteTrack.push
PushUnbounded(r, obj) == buffer' = [buffer EXCEPT ![r] = Append(@, obj)] /\ UNCHANGED dropped
PushSilently(r, obj) ==
    /\ buffer' = [buffer EXCEPT ![r] = IF Len(@) < BufferCap THEN Append(@, obj) ELSE @]
    /\ UNCHANGED dropped
Push(r, obj) ==
    IF Len(buffer[r]) < BufferCap
    THEN buffer' = [buffer EXCEPT ![r] = Append(@, obj)] /\ UNCHANGED dropped
    ELSE dropped' = [dropped EXCEPT ![r] = @ \cup {obj}] /\ UNCHANGED buffer

\* RemoteTrack.readStream: the next object of the stream, or its end, of which
\* nobody is told.
ReadStream(r) ==
    /\ stream[r].state = "read"
    /\ IF stream[r].sent # <<>>
       THEN /\ Push(r, Head(stream[r].sent))
            /\ stream' = [stream EXCEPT ![r].sent = Tail(@)]
       ELSE /\ stream[r].fin
            /\ stream' = [stream EXCEPT ![r].state = "eof"]
            /\ UNCHANGED <<buffer, dropped>>
    /\ UNCHANGED <<vars, loop, written, read>>

\* ReadObject on the track that Fetch returned; no message ends such a track.
ReadObject(r) ==
    /\ call[r].kind = "FETCH" /\ call[r].at = "accepted"
    /\ buffer[r] # <<>>
    /\ read' = [read EXCEPT ![r] = Append(@, Head(buffer[r]))]
    /\ buffer' = [buffer EXCEPT ![r] = Tail(@)]
    /\ UNCHANGED <<vars, stream, loop, written, dropped>>

-----------------------------------------------------------------------------
Receives(r) == AcceptUniStream(r) \/ HandleUniStream(r) \/ ReadStream(r) \/ ReadObject(r)

FetchNext ==
    \/ Next /\ UNCHANGED fetchVars
    \/ StopLoop
    \/ \E r \in Requests : GetFetchStream(r) \/ WriteObject(r) \/ CloseStream(r) \/ Receives(r)

\* readStreams accepts while it runs, the goroutine of the stream runs, and the
\* application keeps reading.
FetchSpec ==
    /\ FetchInit /\ [][FetchNext]_allVars
    /\ Fairness
    /\ \A r \in Requests : WF_allVars(Receives(r))

-----------------------------------------------------------------------------
\* Properties

\* Though the fetch stream may overtake FETCH_OK, nobody reads it only if the
\* Fetch call it answers has failed: Fetch adds its track before it writes FETCH.
IgnoredOnlyAfterFailure ==
    \A r \in Requests :
        stream[r].state = "ignored" => call[r].at \in {"refused", "cancelled"} \/ decided[r] = "reject"

\* Every object written for a fetch that Fetch returned a track for is read
\* from that track or dropped on its full buffer, also when it was written
\* before the track was confirmed or after it was closed, unless readStreams
\* ended before it had accepted the stream: one accepted earlier is read to its
\* end all the same, though the control reader has died.
FetchedIsRead ==
    \A r \in Requests, n \in Objects :
        written[r] = n /\ call[r].at = "accepted" ~>
            \/ n \in dropped[r] \/ \E k \in 1..Len(read[r]) : read[r][k] = n
            \/ stream[r].state = "opened" /\ loop = "cancelled"
=============================================================================
