----------------------------- MODULE WireMessages -----------------------------
(***************************************************************************)
(* The control messages: for each the bytes its Append writes and the      *)
(* layout its parse reads (internal/wire/*_message.go), the table of       *)
(* message types, and the framing of compileMessage and                    *)
(* ControlMessageParser.Parse.  Fields that an Append leaves out (the      *)
(* location of a filter that has none) are not fields of the record.       *)
(***************************************************************************)
EXTENDS WireCodec

CONSTANT MaxBody  \* longest message body, math.MaxUint16 in the code

ASSUME MaxBodyAssumption == MaxBody \in 0..65535

GroupOrders == 0..2

-----------------------------------------------------------------------------
\* Setup and flow control

ClientSetupAppend(m) == Versions(m.SupportedVersions) \o Params(m.SetupParameters)
ClientSetupLayout == <<Vs("SupportedVersions"), P("SetupParameters")>>

ServerSetupAppend(m) == VarInt(m.SelectedVersion) \o Params(m.SetupParameters)
ServerSetupLayout == <<V("SelectedVersion"), P("SetupParameters")>>

GoAwayAppend(m) == Bytes(m.NewSessionURI)
GoAwayLayout == <<S("NewSessionURI")>>

MaxRequestIDAppend(m) == VarInt(m.RequestID)
MaxRequestIDLayout == <<V("RequestID")>>

RequestsBlockedAppend(m) == VarInt(m.MaximumRequestID)
RequestsBlockedLayout == <<V("MaximumRequestID")>>

-----------------------------------------------------------------------------
\* Subscriptions

\* FilterType.append: the zero value is sent as NextGroupStart.
FilterTypeSent(f) == IF f \in 1..4 THEN f ELSE 1

SubscribeAppend(m) ==
    VarInt(m.RequestID) \o Tuple(m.TrackNamespace) \o Bytes(m.TrackName)
    \o <<m.SubscriberPriority, m.GroupOrder, m.Forward>> \o VarInt(FilterTypeSent(m.FilterType))
    \o (IF m.FilterType \in {3, 4} THEN LocationBytes(m.StartLocation) ELSE <<>>)
    \o (IF m.FilterType = 4 THEN VarInt(m.EndGroup) ELSE <<>>)
    \o Params(m.Parameters)
SubscribeLayout ==
    <<V("RequestID"), T("TrackNamespace"), S("TrackName"),
      AtLeast(3), B("SubscriberPriority"), In(B("GroupOrder"), GroupOrders, "errInvalidGroupOrder"),
      In(B("Forward"), {0, 1}, "errInvalidForwardFlag"),
      In(V("FilterType"), 1..4, "errInvalidFilterType"),
      When("FilterType", {3, 4}, L("StartLocation")), When("FilterType", {4}, V("EndGroup")),
      P("Parameters")>>

\* Expires is a time.Duration: it is written in nanoseconds and read in
\* milliseconds (ParseBody).
SubscribeOkAppend(m) ==
    VarInt(m.RequestID) \o VarInt(m.TrackAlias) \o VarInt(m.Expires) \o <<m.GroupOrder, m.ContentExists>>
    \o (IF m.ContentExists = 1 THEN LocationBytes(m.LargestLocation) ELSE <<>>)
    \o Params(m.Parameters)
SubscribeOkLayout ==
    <<V("RequestID"), V("TrackAlias"), V("Expires"), AtLeast(2),
      In(B("GroupOrder"), GroupOrders, "errInvalidGroupOrder"),
      In(B("ContentExists"), {0, 1}, "errInvalidContentExistsByte"),
      When("ContentExists", {1}, L("LargestLocation")), P("Parameters")>>

SubscribeErrorAppend(m) == VarInt(m.RequestID) \o VarInt(m.ErrorCode) \o Bytes(m.ReasonPhrase)
SubscribeErrorLayout == <<V("RequestID"), V("ErrorCode"), S("ReasonPhrase")>>

SubscribeUpdateAppend(m) ==
    VarInt(m.RequestID) \o LocationBytes(m.StartLocation) \o VarInt(m.EndGroup)
    \o <<m.SubscriberPriority, m.Forward>> \o Params(m.Parameters)
SubscribeUpdateLayout ==
    <<V("RequestID"), L("StartLocation"), V("EndGroup"), AtLeast(2), B("SubscriberPriority"),
      In(B("Forward"), 0..2, "errInvalidForwardFlag"), P("Parameters")>>

UnsubscribeAppend(m) == VarInt(m.RequestID)
UnsubscribeLayout == <<V("RequestID")>>

SubscribeDoneAppend(m) ==
    VarInt(m.RequestID) \o VarInt(m.StatusCode) \o VarInt(m.StreamCount) \o Bytes(m.ReasonPhrase)
SubscribeDoneLayout == <<V("RequestID"), V("StatusCode"), V("StreamCount"), S("ReasonPhrase")>>

-----------------------------------------------------------------------------
\* Fetches and track status

StandaloneFetch == <<T("TrackNamespace"), S("TrackName"), V("StartGroup"), V("StartObject"),
                     V("EndGroup"), V("EndObject")>>
JoiningFetch == <<V("JoiningSubscribeID"), V("JoiningStart")>>
WhenEach(name, set, fields) == [i \in 1..Len(fields) |-> When(name, set, fields[i])]

FetchAppend(m) ==
    VarInt(m.RequestID) \o <<m.SubscriberPriority, m.GroupOrder>> \o VarInt(m.FetchType)
    \o (IF m.FetchType = 1
        THEN Tuple(m.TrackNamespace) \o Bytes(m.TrackName) \o VarInt(m.StartGroup) \o VarInt(m.StartObject)
             \o VarInt(m.EndGroup) \o VarInt(m.EndObject)
        ELSE VarInt(m.JoiningSubscribeID) \o VarInt(m.JoiningStart))
    \o Params(m.Parameters)
FetchLayout ==
    <<V("RequestID"), AtLeast(2), B("SubscriberPriority"),
      In(B("GroupOrder"), GroupOrders, "errInvalidGroupOrder"),
      In(V("FetchType"), 1..3, "errInvalidFetchType")>>
    \o WhenEach("FetchType", {1}, StandaloneFetch) \o WhenEach("FetchType", {2, 3}, JoiningFetch)
    \o <<P("Parameters")>>

FetchOkAppend(m) ==
    VarInt(m.RequestID) \o <<m.GroupOrder, m.EndOfTrack>> \o LocationBytes(m.EndLocation)
    \o Params(m.SubscribeParameters)
FetchOkLayout ==
    <<V("RequestID"), AtLeast(2), In(B("GroupOrder"), GroupOrders, "errInvalidGroupOrder"), B("EndOfTrack"),
      L("EndLocation"), P("SubscribeParameters")>>

FetchErrorAppend(m) == VarInt(m.RequestID) \o VarInt(m.ErrorCode) \o Bytes(m.ReasonPhrase)
FetchErrorLayout == <<V("RequestID"), V("ErrorCode"), S("ReasonPhrase")>>

FetchCancelAppend(m) == VarInt(m.RequestID)
FetchCancelLayout == <<V("RequestID")>>

TrackStatusRequestAppend(m) ==
    VarInt(m.RequestID) \o Tuple(m.TrackNamespace) \o Bytes(m.TrackName) \o Params(m.Parameters)
TrackStatusRequestLayout == <<V("RequestID"), T("TrackNamespace"), S("TrackName"), P("Parameters")>>

TrackStatusAppend(m) ==
    VarInt(m.RequestID) \o VarInt(m.StatusCode) \o LocationBytes(m.LargestLocation) \o Params(m.Parameters)
TrackStatusLayout == <<V("RequestID"), V("StatusCode"), L("LargestLocation"), P("Parameters")>>

-----------------------------------------------------------------------------
\* Announcements

AnnounceAppend(m) == VarInt(m.RequestID) \o Tuple(m.TrackNamespace) \o Params(m.Parameters)
AnnounceLayout == <<V("RequestID"), T("TrackNamespace"), P("Parameters")>>

AnnounceOkAppend(m) == VarInt(m.RequestID)
AnnounceOkLayout == <<V("RequestID")>>

AnnounceErrorAppend(m) == VarInt(m.RequestID) \o VarInt(m.ErrorCode) \o Bytes(m.ReasonPhrase)
AnnounceErrorLayout == <<V("RequestID"), V("ErrorCode"), S("ReasonPhrase")>>

AnnounceCancelAppend(m) == Tuple(m.TrackNamespace) \o VarInt(m.ErrorCode) \o Bytes(m.ReasonPhrase)
AnnounceCancelLayout == <<T("TrackNamespace"), V("ErrorCode"), S("ReasonPhrase")>>

UnannounceAppend(m) == Tuple(m.TrackNamespace)
UnannounceLayout == <<T("TrackNamespace")>>

SubscribeAnnouncesAppend(m) == VarInt(m.RequestID) \o Tuple(m.TrackNamespacePrefix) \o Params(m.Parameters)
SubscribeAnnouncesLayout == <<V("RequestID"), T("TrackNamespacePrefix"), P("Parameters")>>

SubscribeAnnouncesOkAppend(m) == VarInt(m.RequestID)
SubscribeAnnouncesOkLayout == <<V("RequestID")>>

SubscribeAnnouncesErrorAppend(m) == VarInt(m.RequestID) \o VarInt(m.ErrorCode) \o Bytes(m.ReasonPhrase)
SubscribeAnnouncesErrorLayout == <<V("RequestID"), V("ErrorCode"), S("ReasonPhrase")>>

UnsubscribeAnnouncesAppend(m) == Tuple(m.TrackNamespacePrefix)
UnsubscribeAnnouncesLayout == <<T("TrackNamespacePrefix")>>

-----------------------------------------------------------------------------
\* Message types.  AnnounceCancelMessage.Type returns messageTypeAnnounce.

MessageTypes == [
    CLIENT_SETUP |-> 32, SERVER_SETUP |-> 33, GOAWAY |-> 16, MAX_REQUEST_ID |-> 21, REQUESTS_BLOCKED |-> 26,
    SUBSCRIBE |-> 3, SUBSCRIBE_OK |-> 4, SUBSCRIBE_ERROR |-> 5, SUBSCRIBE_UPDATE |-> 2, UNSUBSCRIBE |-> 10,
    SUBSCRIBE_DONE |-> 11, FETCH |-> 22, FETCH_OK |-> 24, FETCH_ERROR |-> 25, FETCH_CANCEL |-> 23,
    TRACK_STATUS_REQUEST |-> 13, TRACK_STATUS |-> 14, ANNOUNCE |-> 6, ANNOUNCE_OK |-> 7, ANNOUNCE_ERROR |-> 8,
    UNANNOUNCE |-> 9, ANNOUNCE_CANCEL |-> 12, SUBSCRIBE_ANNOUNCES |-> 17, SUBSCRIBE_ANNOUNCES_OK |-> 18,
    SUBSCRIBE_ANNOUNCES_ERROR |-> 19, UNSUBSCRIBE_ANNOUNCES |-> 20]

TypeSwapsErrors(m) == MessageTypes[IF m.type = "SUBSCRIBE_ERROR" THEN "FETCH_ERROR" ELSE m.type]
Type(m) == MessageTypes[IF m.type = "ANNOUNCE_CANCEL" THEN "ANNOUNCE" ELSE m.type]

Body(m) ==
    CASE m.type = "CLIENT_SETUP" -> ClientSetupAppend(m)
      [] m.type = "SERVER_SETUP" -> ServerSetupAppend(m)
      [] m.type = "GOAWAY" -> GoAwayAppend(m)
      [] m.type = "MAX_REQUEST_ID" -> MaxRequestIDAppend(m)
      [] m.type = "REQUESTS_BLOCKED" -> RequestsBlockedAppend(m)
      [] m.type = "SUBSCRIBE" -> SubscribeAppend(m)
      [] m.type = "SUBSCRIBE_OK" -> SubscribeOkAppend(m)
      [] m.type = "SUBSCRIBE_ERROR" -> SubscribeErrorAppend(m)
      [] m.type = "SUBSCRIBE_UPDATE" -> SubscribeUpdateAppend(m)
      [] m.type = "UNSUBSCRIBE" -> UnsubscribeAppend(m)
      [] m.type = "SUBSCRIBE_DONE" -> SubscribeDoneAppend(m)
      [] m.type = "FETCH" -> FetchAppend(m)
      [] m.type = "FETCH_OK" -> FetchOkAppend(m)
      [] m.type = "FETCH_ERROR" -> FetchErrorAppend(m)
      [] m.type = "FETCH_CANCEL" -> FetchCancelAppend(m)
      [] m.type = "TRACK_STATUS_REQUEST" -> TrackStatusRequestAppend(m)
      [] m.type = "TRACK_STATUS" -> TrackStatusAppend(m)
      [] m.type = "ANNOUNCE" -> AnnounceAppend(m)
      [] m.type = "ANNOUNCE_OK" -> AnnounceOkAppend(m)
      [] m.type = "ANNOUNCE_ERROR" -> AnnounceErrorAppend(m)
      [] m.type = "ANNOUNCE_CANCEL" -> AnnounceCancelAppend(m)
      [] m.type = "UNANNOUNCE" -> UnannounceAppend(m)
      [] m.type = "SUBSCRIBE_ANNOUNCES" -> SubscribeAnnouncesAppend(m)
      [] m.type = "SUBSCRIBE_ANNOUNCES_OK" -> SubscribeAnnouncesOkAppend(m)
      [] m.type = "SUBSCRIBE_ANNOUNCES_ERROR" -> SubscribeAnnouncesErrorAppend(m)
      [] m.type = "UNSUBSCRIBE_ANNOUNCES" -> UnsubscribeAnnouncesAppend(m)

Layouts == [
    CLIENT_SETUP |-> ClientSetupLayout, SERVER_SETUP |-> ServerSetupLayout, GOAWAY |-> GoAwayLayout,
    MAX_REQUEST_ID |-> MaxRequestIDLayout, REQUESTS_BLOCKED |-> RequestsBlockedLayout,
    SUBSCRIBE |-> SubscribeLayout, SUBSCRIBE_OK |-> SubscribeOkLayout, SUBSCRIBE_ERROR |-> SubscribeErrorLayout,
    SUBSCRIBE_UPDATE |-> SubscribeUpdateLayout, UNSUBSCRIBE |-> UnsubscribeLayout,
    SUBSCRIBE_DONE |-> SubscribeDoneLayout, FETCH |-> FetchLayout, FETCH_OK |-> FetchOkLayout,
    FETCH_ERROR |-> FetchErrorLayout, FETCH_CANCEL |-> FetchCancelLayout,
    TRACK_STATUS_REQUEST |-> TrackStatusRequestLayout, TRACK_STATUS |-> TrackStatusLayout,
    ANNOUNCE |-> AnnounceLayout, ANNOUNCE_OK |-> AnnounceOkLayout, ANNOUNCE_ERROR |-> AnnounceErrorLayout,
    ANNOUNCE_CANCEL |-> AnnounceCancelLayout, UNANNOUNCE |-> UnannounceLayout,
    SUBSCRIBE_ANNOUNCES |-> SubscribeAnnouncesLayout, SUBSCRIBE_ANNOUNCES_OK |-> SubscribeAnnouncesOkLayout,
    SUBSCRIBE_ANNOUNCES_ERROR |-> SubscribeAnnouncesErrorLayout,
    UNSUBSCRIBE_ANNOUNCES |-> UnsubscribeAnnouncesLayout]

-----------------------------------------------------------------------------
\* Framing: the type, two bytes of length, the body.

TooLarge(m) == Len(Body(m)) > MaxBody

LengthLowByteOnly(m) == LET n == Len(Body(m)) IN <<0, n % 256>>
LengthBytes(m) == LET n == Len(Body(m)) IN <<n \div 256, n % 256>>

CompileMessage(m) == VarInt(Type(m)) \o LengthBytes(m) \o Body(m)

\* The switch of ControlMessageParser.Parse, then the message's own parse.
ParseBody(code, body) ==
    LET types == {t \in DOMAIN MessageTypes : MessageTypes[t] = code}
        type == CHOOSE t \in types : TRUE
    IN  IF types = {} THEN Failed("errInvalidMessageType")
        ELSE Then(Parse(type, Layouts[type], body), LAMBDA p :
                 IF type = "SUBSCRIBE_OK" THEN [p EXCEPT !.v.Expires = @ * 1000000] ELSE p)

\* A whole message is there to be parsed off the stream.
Framed(data) ==
    LET t == ParseVarInt(data)
    IN  /\ t.err = "none" /\ Len(t.data) >= 2
        /\ Len(t.data) >= 2 + t.data[1] * 256 + t.data[2]

\* ControlMessageParser.Parse
ParseControlMessage(data) ==
    LET t == ParseVarInt(data)
        length == t.data[1] * 256 + t.data[2]
    IN  [ParseBody(t.v, SubSeq(t.data, 3, 2 + length)) EXCEPT !.data = Drop(t.data, 2 + length)]
=============================================================================
