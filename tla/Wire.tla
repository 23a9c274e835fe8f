-------------------------------- MODULE Wire --------------------------------
(***************************************************************************)
(* One channel between two peers, byte by byte: the control stream         *)
(* (control_stream.go), a subgroup stream (subgroup.go), a fetch stream    *)
(* (fetch_stream.go) or the datagrams of a track (local_track.go), with    *)
(* the parsers that read them (ControlMessageParser, ObjectStreamParser,   *)
(* ObjectDatagramMessage).                                                 *)
(*                                                                         *)
(* A stream is a reliable FIFO of bytes; QUIC may end it at any byte when  *)
(* it is reset or the connection fails, and what was not read then is      *)
(* lost.  Datagrams may be lost and reordered.  A parser blocks until the  *)
(* bytes of the next message or object are there, so reading one is a      *)
(* single step.                                                            *)
(***************************************************************************)
EXTENDS WireMessages, FiniteSets

CONSTANTS
    Messages,      \* control messages that are sent ...
    Followers,     \* ... and those among them that follow another one (bound)
    Headers,       \* subgroup headers
    Requests,      \* request IDs of fetches
    ObjectIDs,     \* object IDs
    Payloads,      \* object payloads
    Cuts,          \* bound: numbers of bytes after which a stream is cut
    MaxItems       \* bound: messages or objects on the channel

VARIABLES
    kind,      \* what the channel is
    header,    \* the header its writer sent, if any
    written,   \* messages or objects written
    refused,   \* messages compileMessage refused
    pipe,      \* bytes written and not read
    ended,     \* how the stream ended
    dgrams,    \* datagrams under way
    parser,    \* what ObjectStreamParser keeps of the header it read, if any
    received,  \* messages or objects read
    reader     \* the reader: reading, or how it ended

vars == <<kind, header, written, refused, pipe, ended, dgrams, parser, received, reader>>

Byte == 0..255
ParseErrors == {"EOF", "errLengthMismatch", "errInvalidGroupOrder", "errInvalidForwardFlag",
                "errInvalidFilterType", "errInvalidContentExistsByte", "errInvalidFetchType",
                "errInvalidMessageType", "errInvalidStreamType", "panic", "stuck"}

TypeOK ==
    /\ kind \in {"control", "subgroup", "fetch", "datagram"}
    /\ header \cup {p.header : p \in parser} \subseteq IF kind = "fetch" THEN Requests ELSE Headers
    /\ \A p \in parser : p.hasExtensions \in BOOLEAN
    /\ Len(written) <= MaxItems /\ Len(received) <= MaxItems
    /\ refused \in 0..MaxItems
    /\ \A i \in 1..Len(pipe) : pipe[i] \in Byte
    /\ \A d \in dgrams : \A i \in 1..Len(d) : d[i] \in Byte
    /\ ended \in {"open", "fin", "reset"}
    /\ reader \in {"reading", "done", "reset"} \cup ParseErrors

Init ==
    /\ kind \in {"control", "subgroup", "fetch", "datagram"}
    /\ header = {} /\ parser = {}
    /\ written = <<>> /\ received = <<>>
    /\ refused = 0
    /\ pipe = <<>> /\ dgrams = {}
    /\ ended = "open"
    /\ reader = "reading"

-----------------------------------------------------------------------------
\* Objects

Object(id, payload) == [ObjectID |-> id, ObjectPayload |-> payload, ObjectStatus |-> 0]
FetchObject(g, id, payload) ==
    [GroupID |-> g, SubgroupID |-> g, PublisherPriority |-> g % 256] @@ Object(id, payload)

\* The end of AppendSubgroup and AppendFetch: an empty payload is followed by
\* the object's status.
PayloadWithoutStatus(o) == NoExtensions \o VarInt(Len(o.ObjectPayload)) \o o.ObjectPayload
PayloadBytes(o) ==
    NoExtensions \o VarInt(Len(o.ObjectPayload))
    \o IF o.ObjectPayload = <<>> THEN VarInt(o.ObjectStatus) ELSE o.ObjectPayload

AppendSubgroup(o) == VarInt(o.ObjectID) \o PayloadBytes(o)

AppendFetch(o) ==
    VarInt(o.GroupID) \o VarInt(o.SubgroupID) \o VarInt(o.ObjectID) \o <<o.PublisherPriority>> \o PayloadBytes(o)

SubgroupHeader(h) ==
    VarInt(13) \o VarInt(h.TrackAlias) \o VarInt(h.GroupID) \o VarInt(h.SubgroupID) \o <<h.PublisherPriority>>

FetchHeader(id) == VarInt(5) \o VarInt(id)

\* Extensions if there are any, then the payload or, when it is empty, the
\* status.
TakePayload(object, hasExtensions) ==
    LET result(p, payload, status, rest) ==
            Parsed([ObjectPayload |-> payload, ObjectStatus |-> status] @@ p.v, rest)
        extensions(p) == IF hasExtensions THEN ParseExtensions(p.data) ELSE p
    IN  Then(object, LAMBDA p : Then(extensions(p), LAMBDA ext : Then(ParseVarInt(ext.data), LAMBDA l :
            IF l.v = 0 THEN Then(ParseVarInt(l.data), LAMBDA s : result(p, <<>>, s.v, s.data))
            ELSE IF Len(l.data) < l.v THEN Failed("EOF")
            ELSE result(p, SubSeq(l.data, 1, l.v), 0, Drop(l.data, l.v)))))

\* A layout read off a stream, where a missing byte is the end of the stream.
TakeFields(v, fields, data) ==
    LET next(r, f) == Then(r, LAMBDA p : IF f.kind = "byte" /\ p.data = <<>> THEN Failed("EOF") ELSE Take(p, f))
    IN  FoldLeft(next, Parsed(v, data), fields)

\* readSubgroup with the parser p of its stream, readFetch
ReadSubgroup(p, data) == TakePayload(TakeFields(p.header, <<V("ObjectID")>>, data), p.hasExtensions)
ReadFetch(data) ==
    TakePayload(TakeFields(<<>>, <<V("GroupID"), V("SubgroupID"), V("ObjectID"), B("PublisherPriority")>>, data), TRUE)

\* NewObjectStreamParser: what it reads off a stream that starts with data.
\* Only the types 12 and 13 have a subgroup ID in the header; 0 else.  Only the
\* objects of odd types have extensions.
SubgroupFieldsOf12(type) ==
    <<V("TrackAlias"), V("GroupID")>> \o (IF type = 12 THEN <<V("SubgroupID")>> ELSE <<>>)
    \o <<B("PublisherPriority")>>
SubgroupFields(type) ==
    <<V("TrackAlias"), V("GroupID")>> \o (IF type \in {12, 13} THEN <<V("SubgroupID")>> ELSE <<>>)
    \o <<B("PublisherPriority")>>
ParseHeader(data) ==
    Then(ParseVarInt(data), LAMBDA t :
        CASE t.v = 5 ->
                Then(ParseVarInt(t.data), LAMBDA id : Parsed([header |-> id.v, hasExtensions |-> FALSE], id.data))
          [] t.v \in 8..13 ->
                Then(TakeFields(<<>>, SubgroupFields(t.v), t.data), LAMBDA h :
                    Parsed([header |-> h.v @@ [SubgroupID |-> 0], hasExtensions |-> t.v % 2 = 1], h.data))
          [] OTHER -> Failed("errInvalidStreamType"))

\* AppendDatagram, without extensions, and Parse.  Parse does not skip the
\* extensions of a type that has them, and parseLength does not get past one.
DatagramBytes(alias, o) ==
    VarInt(0) \o VarInt(alias) \o VarInt(o.GroupID) \o VarInt(o.ObjectID) \o <<o.PublisherPriority>>
    \o o.ObjectPayload
ParseDatagram(data) ==
    LET fields == <<V("TrackAlias"), V("GroupID"), V("ObjectID"), B("PublisherPriority")>>
        content(t, p) ==
            IF (t.v \div 2) % 2 = 0 THEN Parsed(p.v @@ [ObjectPayload |-> p.data], <<>>)
            ELSE Then(ParseVarInt(p.data), LAMBDA s : Parsed(p.v @@ [ObjectStatus |-> s.v], s.data))
    IN  Then(ParseVarInt(data), LAMBDA t : Then(TakeFields(<<>>, fields, t.data), LAMBDA p :
            IF t.v % 2 = 0 THEN content(t, p)
            ELSE Then(ParseVarInt(p.data), LAMBDA ext : IF ext.v = 0 THEN content(t, p) ELSE Failed("stuck"))))

-----------------------------------------------------------------------------
\* The writer

Writable(k) == kind = k /\ ended = "open" /\ Len(written) + refused < MaxItems

Write(item, bytes) ==
    /\ written' = Append(written, item)
    /\ pipe' = pipe \o bytes

\* controlStream.write: a message that is too large is not written.
WriteMessage(m) ==
    /\ Writable("control") /\ (written # <<>> => m \in Followers)
    /\ IF TooLarge(m)
       THEN refused' = refused + 1 /\ UNCHANGED <<written, pipe>>
       ELSE Write(m, CompileMessage(m)) /\ UNCHANGED refused
    /\ UNCHANGED <<kind, header, ended, dgrams, parser, received, reader>>

\* newSubgroup, newFetchStream
OpenStream(k, h, bytes) ==
    /\ kind = k /\ ended = "open" /\ header = {}
    /\ header' = {h}
    /\ pipe' = bytes
    /\ UNCHANGED <<kind, written, refused, ended, dgrams, parser, received, reader>>
OpenSubgroup(h) == OpenStream("subgroup", h, SubgroupHeader(h))
OpenFetchStream(id) == OpenStream("fetch", id, FetchHeader(id))

\* Subgroup.WriteObject, FetchStream.WriteObject
WriteSubgroupObject(o) ==
    /\ Writable("subgroup") /\ header # {}
    /\ Write(o, AppendSubgroup(o))
    /\ UNCHANGED <<kind, header, refused, ended, dgrams, parser, received, reader>>
WriteFetchObject(o) ==
    /\ Writable("fetch") /\ header # {}
    /\ Write(o, AppendFetch(o))
    /\ UNCHANGED <<kind, header, refused, ended, dgrams, parser, received, reader>>

\* Subgroup.Close, FetchStream.Close
CloseStream ==
    /\ kind \in {"subgroup", "fetch"} /\ ended = "open" /\ header # {}
    /\ ended' = "fin"
    /\ UNCHANGED <<kind, header, written, refused, pipe, dgrams, parser, received, reader>>

\* localTrack.sendDatagram; the alias is the track's.
SendDatagram(h, o) ==
    /\ Writable("datagram")
    /\ written' = Append(written, [TrackAlias |-> h.TrackAlias, GroupID |-> o.GroupID, ObjectID |-> o.ObjectID,
                                   PublisherPriority |-> 0, ObjectPayload |-> o.ObjectPayload])
    /\ dgrams' = dgrams \cup {DatagramBytes(h.TrackAlias, [o EXCEPT !.PublisherPriority = 0])}
    /\ UNCHANGED <<kind, header, refused, pipe, ended, parser, received, reader>>

\* The stream is reset or the connection fails: only some first bytes arrive.
Reset(n) ==
    /\ ended = "open" /\ n <= Len(pipe)
    /\ ended' = "reset"
    /\ pipe' = SubSeq(pipe, 1, n)
    /\ UNCHANGED <<kind, header, written, refused, dgrams, parser, received, reader>>

-----------------------------------------------------------------------------
\* The reader

Reading(k) == kind = k /\ reader = "reading"

Deliver(item, rest) ==
    /\ received' = Append(received, item)
    /\ pipe' = rest
    /\ UNCHANGED reader

\* controlStream.read and receive: the first error ends the control reader.
ReadMessage ==
    /\ Reading("control")
    /\ Framed(pipe)
    /\ LET p == ParseControlMessage(pipe)
       IN  IF p.err = "none" THEN Deliver(p.v, p.data)
           ELSE reader' = p.err /\ pipe' = p.data /\ UNCHANGED received
    /\ UNCHANGED <<kind, header, written, refused, ended, dgrams, parser>>

\* NewObjectStreamParser
ReadHeader ==
    /\ Reading("subgroup") \/ Reading("fetch")
    /\ parser = {}
    /\ LET p == ParseHeader(pipe)
       IN  /\ p.err # "EOF"
           /\ IF p.err = "none" THEN parser' = {p.v} /\ pipe' = p.data /\ UNCHANGED reader
              ELSE reader' = p.err /\ UNCHANGED <<parser, pipe>>
    /\ UNCHANGED <<kind, header, written, refused, ended, dgrams, received>>

\* ObjectStreamParser.Parse, in the loop of RemoteTrack.readStream
NextObject == IF kind = "subgroup" THEN ReadSubgroup(CHOOSE p \in parser : TRUE, pipe) ELSE ReadFetch(pipe)
ParseObject ==
    /\ Reading("subgroup") \/ Reading("fetch")
    /\ parser # {}
    /\ NextObject.err # "EOF"
    /\ Deliver(NextObject.v, NextObject.data)
    /\ UNCHANGED <<kind, header, written, refused, ended, dgrams, parser>>

\* The bytes end before the next message, header or object does.
Exhausted ==
    IF kind = "control" THEN ~Framed(pipe)
    ELSE IF parser = {} THEN ParseHeader(pipe).err = "EOF" ELSE NextObject.err = "EOF"
ReadEnd ==
    /\ kind # "datagram" /\ reader = "reading"
    /\ ended # "open" /\ Exhausted
    /\ reader' = IF ended = "reset" THEN "reset" ELSE "done"
    /\ UNCHANGED <<kind, header, written, refused, pipe, ended, dgrams, parser, received>>

\* readDatagrams up to receiveDatagram
ReceiveDatagram(d) ==
    /\ Reading("datagram")
    /\ dgrams' = dgrams \ {d}
    /\ LET p == ParseDatagram(d)
       IN  IF p.err = "none" THEN received' = Append(received, p.v) /\ UNCHANGED reader
           ELSE reader' = p.err /\ UNCHANGED received
    /\ UNCHANGED <<kind, header, written, refused, pipe, ended, parser>>

-----------------------------------------------------------------------------
Writes ==
    \/ \E m \in Messages : WriteMessage(m)
    \/ \E h \in Headers : OpenSubgroup(h)
    \/ \E id \in Requests : OpenFetchStream(id)
    \/ \E id \in ObjectIDs, payload \in Payloads :
          \/ WriteSubgroupObject(Object(id, payload))
          \/ \E g \in Requests :
                \/ WriteFetchObject(FetchObject(g, id, payload))
                \/ \E h \in Headers : SendDatagram(h, FetchObject(g, id, payload))
    \/ CloseStream

Reads ==
    \/ ReadMessage \/ ReadHeader \/ ParseObject \/ ReadEnd
    \/ \E d \in dgrams : ReceiveDatagram(d)

Next == Writes \/ Reads \/ \E n \in Cuts : Reset(n)

Spec == Init /\ [][Next]_vars

-----------------------------------------------------------------------------
\* Properties

\* What a message means to its receiver: a filter type that was not set is
\* NextGroupStart.  Of an expiry the meaning is only whether there is one; how
\* long it is, is the subject of ExpiryIsKept, which does not hold.
Meaning(m) ==
    CASE m.type = "SUBSCRIBE" -> [m EXCEPT !.FilterType = FilterTypeSent(@)]
      [] m.type = "SUBSCRIBE_OK" -> [m EXCEPT !.Expires = IF @ = 0 THEN "never" ELSE "some time"]
      [] OTHER -> m

\* What the reader hands on is what was written, field by field and in order:
\* messages on the control stream (up to the first ANNOUNCE_CANCEL, which is
\* sent with the type of ANNOUNCE), and objects with the IDs of their stream's
\* header.  Datagrams arrive in any order, each as it was sent.  One field is
\* excepted: of the Expires of a SUBSCRIBE_OK this says that zero, which means
\* that the subscription does not expire, stays zero and nothing else becomes
\* zero.
ReceivedIsSent ==
    /\ \A p \in parser : p.header \in header
    /\ kind = "control" =>
          \A i \in 1..Len(received) :
              \/ \E j \in 1..i : written[j].type = "ANNOUNCE_CANCEL"
              \/ Meaning(received[i]) = Meaning(written[i])
    /\ kind = "fetch" => IsPrefix(received, written)
    /\ kind = "subgroup" =>
          \A h \in header : IsPrefix(received, [i \in 1..Len(written) |-> written[i] @@ h])
    /\ kind = "datagram" => ToSet(received) \subseteq ToSet(written)

\* RemoteTrack.Expires "returns the duration for which the subscription is
\* valid" (remote_track.go), which is the one the publisher's handler set:
\* WithExpires "sets the subscription expiration duration"
\* (subscribe_response_writer.go).  So the duration the subscriber takes from
\* SUBSCRIBE_OK must be the one that was written into it.
ExpiryIsKept ==
    \A i \in 1..Len(received) :
        written[i].type = "SUBSCRIBE_OK" => received[i].Expires = written[i].Expires

\* No message or object of a peer that uses the same code ends the reader with
\* an error: it stops at the end of the stream, when that was cut, or at an
\* ANNOUNCE_CANCEL that it takes for an ANNOUNCE.
ErrorsComeFromOutside ==
    \/ reader = "reading"
    \/ reader = "reset" /\ ended = "reset"
    \/ reader = "done" /\ ended = "fin" /\ Len(received) = Len(written)
    \/ /\ Len(received) < Len(written)
       /\ kind = "control" /\ \E j \in 1..Len(received) + 1 : written[j].type = "ANNOUNCE_CANCEL"

\* A writer writes whole messages and objects, so a reader never waits for the
\* rest of one: as long as there are bytes on a stream that was not cut, the
\* lengths in them say that a message or an object is complete.
NeverHalfRead ==
    kind # "datagram" /\ reader = "reading" /\ ended # "reset" /\ pipe # <<>> => ~Exhausted
=============================================================================
