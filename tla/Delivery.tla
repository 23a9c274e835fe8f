------------------------------ MODULE Delivery ------------------------------
(***************************************************************************)
(* The data plane of subscriptions, on top of Subscribe: objects that the  *)
(* publisher sends in datagrams and subgroup streams (local_track.go,      *)
(* subgroup.go), the loops and goroutines that receive them (session.go:   *)
(* readStreams, readDatagrams) and the buffer ReadObject takes them from   *)
(* (remote_track.go).                                                      *)
(*                                                                         *)
(* An object is the number under which it was published.  Datagrams may be *)
(* reordered and lost (one that is never received), not duplicated; a uni  *)
(* stream is a reliable FIFO; neither is ordered with the control stream.  *)
(* The application sends on a track after accepting it, from one goroutine *)
(* per track.                                                              *)
(***************************************************************************)
EXTENDS Subscribe

CONSTANTS
    MaxObjects,  \* bound: objects published
    MaxStreams,  \* bound: subgroup streams opened
    BufferCap    \* capacity of RemoteTrack.buffer (100)

ASSUME DeliveryAssumption ==
    MaxObjects \in Nat /\ MaxStreams \in Nat /\ BufferCap \in Nat \ {0}

VARIABLES
    \* publisher
    published,   \* the track and the stream (0: datagram) of every object
    opening,     \* tracks with an openSubgroup call past its closed() check
    count,       \* per track: subgroupCount
    doneCount,   \* per track: StreamCount of its SUBSCRIBE_DONE
    \* network
    dgrams,      \* datagrams under way
    streams,     \* subgroup streams in the order they were opened
    \* subscriber
    loop,        \* readStreams and readDatagrams: running or how they ended
    buffer,      \* per track: RemoteTrack.buffer
    read,        \* per track: objects ReadObject returned without an error
    readErr,     \* per track: the error that ended the reads
    dropped      \* objects dropped on a full buffer

dataVars == <<published, opening, count, doneCount, dgrams, streams, loop, buffer, read, readErr, dropped>>
allVars == <<vars, dataVars>>

Loops == {"streams", "datagrams"}
Objects == 1..MaxObjects

\* Stream states: opened by the publisher, accepted by readStreams, read into a
\* track, or ignored since its alias is unknown or its end was read.
Stream == [track : Requests, alias : Nat, sent : Seq(Objects), fin : BOOLEAN,
           state : {"opened", "accepted", "read", "ignored", "eof"}, to : SUBSET Requests]
Datagram == [alias : Nat, obj : Objects]

DataTypeOK ==
    /\ published \in Seq([track : Requests, stream : 0..MaxStreams])
    /\ opening \subseteq Requests
    /\ count \in [Requests -> Nat] /\ doneCount \in [Requests -> Nat]
    /\ dgrams \subseteq Datagram
    /\ streams \in Seq(Stream)
    /\ loop \in [Loops -> {"running", "errUnknownTrackAlias", "cancelled"}]
    /\ buffer \in [Requests -> Seq(Objects)]
    /\ \A r \in Requests : Len(buffer[r]) <= BufferCap
    /\ read \in [Requests -> Seq(Objects)]
    /\ readErr \in [Requests -> {"none", "ErrSubscribeDone", "Canceled"}]
    /\ dropped \subseteq Objects

DataInit ==
    /\ Init
    /\ published = <<>>
    /\ opening = {}
    /\ count = [r \in Requests |-> 0]
    /\ doneCount = [r \in Requests |-> 0]
    /\ dgrams = {}
    /\ streams = <<>>
    /\ loop = [l \in Loops |-> "running"]
    /\ buffer = [r \in Requests |-> <<>>]
    /\ read = [r \in Requests |-> <<>>]
    /\ readErr = [r \in Requests |-> "none"]
    /\ dropped = {}

-----------------------------------------------------------------------------
\* The publisher

\* localTrack.closed
Closed(r) == localCtx[r] # "live"
Accepted(r) == local[r] \in {"open", "closed"}

Publish(r, stream) ==
    /\ Len(published) < MaxObjects
    /\ published' = Append(published, [track |-> r, stream |-> stream])

SendDatagram(r) ==
    /\ Accepted(r) /\ ~Closed(r)
    /\ Publish(r, 0)
    /\ dgrams' = dgrams \cup {[alias |-> localAlias[r], obj |-> Len(published) + 1]}
    /\ UNCHANGED <<vars, opening, count, doneCount, streams, loop, buffer, read, readErr, dropped>>

\* openSubgroup: the check of closed() ...
OpenSubgroupUnchecked(r) ==
    /\ Accepted(r) /\ r \notin opening
    /\ Len(streams) + Cardinality(opening) < MaxStreams /\ count[r] < MaxStreams
    /\ opening' = opening \cup {r}
    /\ UNCHANGED <<vars, published, count, doneCount, dgrams, streams, loop, buffer, read, readErr, dropped>>
OpenSubgroup(r) ==
    /\ Accepted(r) /\ ~Closed(r) /\ r \notin opening
    /\ Len(streams) + Cardinality(opening) < MaxStreams /\ count[r] < MaxStreams
    /\ opening' = opening \cup {r}
    /\ UNCHANGED <<vars, published, count, doneCount, dgrams, streams, loop, buffer, read, readErr, dropped>>

\* ... then the new stream and its header, which carries the track's alias.
\* OpenUniStream may fail, and so may the write of the header, by which time the
\* stream is counted.
NewSubgroup(r) ==
    /\ r \in opening
    /\ opening' = opening \ {r}
    /\ \/ UNCHANGED <<count, streams>>
       \/ /\ count' = [count EXCEPT ![r] = @ + 1]
          /\ streams' \in {streams, Append(streams, [track |-> r, alias |-> localAlias[r], sent |-> <<>>,
                                                    fin |-> FALSE, state |-> "opened", to |-> {}])}
    /\ UNCHANGED <<vars, published, doneCount, dgrams, loop, buffer, read, readErr, dropped>>

\* Subgroup.WriteObject asks nobody whether the track is closed.
WriteObject(i) ==
    /\ ~streams[i].fin
    /\ Publish(streams[i].track, i)
    /\ streams' = [streams EXCEPT ![i].sent = Append(@, Len(published) + 1)]
    /\ UNCHANGED <<vars, opening, count, doneCount, dgrams, loop, buffer, read, readErr, dropped>>

CloseSubgroup(i) ==
    /\ ~streams[i].fin
    /\ streams' = [streams EXCEPT ![i].fin = TRUE]
    /\ UNCHANGED <<vars, published, opening, count, doneCount, dgrams, loop, buffer, read, readErr, dropped>>

-----------------------------------------------------------------------------
\* The subscriber

\* remoteTracks.findByTrackAlias: the tracks, at most one, an alias leads to.
FindByTrackAliasPending(alias) ==
    {r \in Requests : alias \in DOMAIN aliasTo /\ aliasTo[alias] = r /\ remote[r] = "pending"}
FindByTrackAlias(alias) ==
    {r \in Requests : alias \in DOMAIN aliasTo /\ aliasTo[alias] = r /\ remote[r] # "none"}

\* RemoteTrack.push: into the buffer, or dropped when it is full.
PushUnbounded(r, obj) == buffer' = [buffer EXCEPT ![r] = Append(@, obj)] /\ UNCHANGED dropped
PushOverwrites(r, obj) ==
    /\ buffer' = [buffer EXCEPT ![r] = IF Len(@) < BufferCap THEN Append(@, obj)
                                       ELSE Append(Tail(@), obj)]
    /\ UNCHANGED dropped
Push(r, obj) ==
    IF Len(buffer[r]) < BufferCap
    THEN buffer' = [buffer EXCEPT ![r] = Append(@, obj)] /\ UNCHANGED dropped
    ELSE dropped' = dropped \cup {obj} /\ UNCHANGED buffer

\* readDatagrams, receiveDatagram: an unknown alias ends the loop.
ReceiveDatagram(d) ==
    /\ d \in dgrams /\ loop["datagrams"] = "running"
    /\ dgrams' = dgrams \ {d}
    /\ IF FindByTrackAlias(d.alias) = {}
       THEN loop' = [loop EXCEPT !["datagrams"] = "errUnknownTrackAlias"] /\ UNCHANGED <<buffer, dropped>>
       ELSE (\E r \in FindByTrackAlias(d.alias) : Push(r, d.obj)) /\ UNCHANGED loop
    /\ UNCHANGED <<vars, published, opening, count, doneCount, streams, read, readErr>>

\* readStreams starts a goroutine per stream.
AcceptUniStream(i) ==
    /\ loop["streams"] = "running" /\ streams[i].state = "opened"
    /\ streams' = [streams EXCEPT ![i].state = "accepted"]
    /\ UNCHANGED <<vars, published, opening, count, doneCount, dgrams, loop, buffer, read, readErr, dropped>>

\* It parses the header; if the alias is unknown it returns, and nobody reads
\* the stream any more.
HandleUniStream(i) ==
    /\ streams[i].state = "accepted"
    /\ LET tracks == FindByTrackAlias(streams[i].alias)
       IN  streams' = [streams EXCEPT ![i].state = IF tracks = {} THEN "ignored" ELSE "read",
                                      ![i].to = tracks]
    /\ UNCHANGED <<vars, published, opening, count, doneCount, dgrams, loop, buffer, read, readErr, dropped>>

\* RemoteTrack.readStream: the next object of the stream, or its end.
ReadStreamUnordered(i) ==
    LET sent == streams[i].sent
    IN  /\ streams[i].state = "read"
        /\ \E k \in 1..Len(sent), r \in streams[i].to :
              /\ Push(r, sent[k])
              /\ streams' = [streams EXCEPT ![i].sent = SubSeq(@, 1, k - 1) \o SubSeq(@, k + 1, Len(@))]
        /\ UNCHANGED <<vars, published, opening, count, doneCount, dgrams, loop, read, readErr>>
ReadStream(i) ==
    /\ streams[i].state = "read"
    /\ IF streams[i].sent # <<>>
       THEN /\ \E r \in streams[i].to : Push(r, Head(streams[i].sent))
            /\ streams' = [streams EXCEPT ![i].sent = Tail(@)]
       ELSE /\ streams[i].fin
            /\ streams' = [streams EXCEPT ![i].state = "eof"]
            /\ UNCHANGED <<buffer, dropped>>
    /\ UNCHANGED <<vars, published, opening, count, doneCount, dgrams, loop, read, readErr>>

\* A loop that ended with an error cancels the session's context, and so does
\* a control reader that died; the other loops may go on with what has already
\* arrived before they notice.
StopLoop(l) ==
    /\ loop[l] = "running"
    /\ reader["subscriber"] # "reading" \/ \E k \in Loops : loop[k] = "errUnknownTrackAlias"
    /\ loop' = [loop EXCEPT ![l] = "cancelled"]
    /\ UNCHANGED <<vars, published, opening, count, doneCount, dgrams, streams, buffer, read, readErr, dropped>>

\* ReadObject: the end of the track and a buffered object race; an object taken
\* after the end comes with an error of its own.  The application reads until
\* it gets an error.
ReadObjectEnds(r) ==
    /\ remoteDone[r]
    /\ readErr' = [readErr EXCEPT ![r] = "ErrSubscribeDone"]
    /\ UNCHANGED <<buffer, read>>

ReadObjectTakes(r) ==
    /\ buffer[r] # <<>>
    /\ buffer' = [buffer EXCEPT ![r] = Tail(@)]
    /\ IF remoteDone[r]
       THEN readErr' = [readErr EXCEPT ![r] = "Canceled"] /\ UNCHANGED read
       ELSE read' = [read EXCEPT ![r] = Append(@, Head(buffer[r]))] /\ UNCHANGED readErr

ReadObject(r) ==
    /\ call[r] = "established" /\ readErr[r] = "none"
    /\ ReadObjectEnds(r) \/ ReadObjectTakes(r)
    /\ UNCHANGED <<vars, published, opening, count, doneCount, dgrams, streams, loop, dropped>>

-----------------------------------------------------------------------------
\* A step of Subscribe; SUBSCRIBE_DONE carries the subgroupCount of its track.
ControlStep ==
    /\ Next
    /\ doneCount' = [r \in Requests |-> IF closing[r] = "cancelled" /\ closing'[r] = "yes"
                                        THEN count[r] ELSE doneCount[r]]
    /\ UNCHANGED <<published, opening, count, dgrams, streams, loop, buffer, read, readErr, dropped>>

Receives ==
    \/ \E i \in 1..Len(streams) : AcceptUniStream(i) \/ HandleUniStream(i) \/ ReadStream(i)
    \/ \E d \in dgrams : ReceiveDatagram(d)

DataNext ==
    \/ ControlStep
    \/ \E r \in Requests : SendDatagram(r) \/ OpenSubgroup(r) \/ NewSubgroup(r) \/ ReadObject(r)
    \/ \E i \in 1..Len(streams) : WriteObject(i) \/ CloseSubgroup(i)
    \/ Receives
    \/ \E l \in Loops : StopLoop(l)

DataSpec == DataInit /\ [][DataNext]_allVars

-----------------------------------------------------------------------------
\* Properties

\* What a track has received: read, or still buffered.
Received(r) == read[r] \o buffer[r]

\* An object reaches the reader of a track only if it was published on that
\* track: aliases assigned in onSubscribe and installed by onSubscribeOk never
\* lead a stream or a datagram to another subscription.  This needs handlers that
\* answer before they return: SUBSCRIBE_OK always carries alias 0, the alias of
\* the first subscription, and a second one that is accepted earlier takes it.
NoMisrouting ==
    \A r \in Requests : \A k \in 1..Len(Received(r)) : published[Received(r)[k]].track = r

\* The objects of a stream reach ReadObject in the order they were written,
\* each at most once, however datagrams and other streams are interleaved.
StreamOrder ==
    \A r \in Requests : \A j, k \in 1..Len(Received(r)) :
        LET a == Received(r)[j]
            b == Received(r)[k]
        IN  j < k /\ published[a].stream = published[b].stream /\ published[a].stream # 0 => a < b

\* An object taken off a stream is not lost between the goroutine and the
\* reader: it was read, is buffered, was dropped by push on a full buffer, or
\* was taken after the end of the track.
OnlyOverflowDrops ==
    \A n \in 1..Len(published) :
        LET i == published[n].stream
            under == \E k \in 1..Len(streams[i].sent) : streams[i].sent[k] = n
            there(r) == \E k \in 1..Len(Received(r)) : Received(r)[k] = n
        IN  i # 0 => \/ under \/ n \in dropped
                     \/ \E r \in streams[i].to : there(r) \/ readErr[r] = "Canceled"

\* SUBSCRIBE_OK of track r has not been processed, or nobody holds the track.
NotYetKnown(r) ==
    \/ remote[r] = "none" \/ reader["subscriber"] # "reading"
    \/ \E k \in 1..Len(toSub) : toSub[k].type = "SUBSCRIBE_OK" /\ toSub[k].id = r

\* Whoever is subscribed and has been answered finds its data, if it has the
\* alias that SUBSCRIBE_OK names, which is 0 for every track: a stream is
\* ignored, and a datagram ends the datagram loop and with it the session, only
\* if it overtook the SUBSCRIBE_OK of its track, the Subscribe call was given
\* up, the control reader has died, or the track has another alias, as every
\* track has but the first.  Nothing saves data that come early.
UnknownOnlyWithReason ==
    [][/\ \A i \in 1..Len(streams) :
             streams'[i].state = "ignored" =>
                streams[i].state = "ignored" \/ streams[i].alias # 0 \/ NotYetKnown(streams[i].track)
       /\ loop'["datagrams"] = "errUnknownTrackAlias" /\ loop["datagrams"] = "running" =>
             \A d \in dgrams \ dgrams' : d.alias # 0 \/ NotYetKnown(published[d.obj].track)]_allVars

\* StreamCount of SUBSCRIBE_DONE is short of the streams of the track by the
\* openSubgroup call that raced with the close, at most.
StreamCountIsClose ==
    \A r \in Requests :
        local[r] = "closed" => doneCount[r] <= count[r] /\ count[r] <= doneCount[r] + 1
=============================================================================
