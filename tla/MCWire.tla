------------------------------- MODULE MCWire -------------------------------
(* An instance of Wire for TLC: every control message, with numbers on both *)
(* sides of the varint sizes, empty and long strings, and every filter.     *)
EXTENDS Wire

CONSTANT Numbers  \* request IDs and other numbers

Big == 2^30       \* eight bytes, as the version numbers are
Name == <<97, 98>>
Long == [i \in 1..300 |-> 97]
Namespaces == {<<Name>>, <<<<>>, Name>>}
Loc == [Group |-> 64, Object |-> 2^14]
ParamLists == {<<>>, <<[Type |-> 2, Value |-> 64], [Type |-> 1, Value |-> Name]>>}

SetupMessages ==
    [type : {"CLIENT_SETUP"}, SupportedVersions : {<<Big>>, <<Big + 1, Big>>}, SetupParameters : ParamLists]
    \cup [type : {"SERVER_SETUP"}, SelectedVersion : {Big}, SetupParameters : ParamLists]
    \cup [type : {"GOAWAY"}, NewSessionURI : {<<>>, Name}]
    \cup [type : {"MAX_REQUEST_ID"}, RequestID : Numbers]
    \cup [type : {"REQUESTS_BLOCKED"}, MaximumRequestID : Numbers]

SubscribeMessages ==
    LET common == [type : {"SUBSCRIBE"}, RequestID : {64}, TrackNamespace : Namespaces, TrackName : {Name},
                   SubscriberPriority : {0, 255}, GroupOrder : {2}, Forward : {0, 1}, Parameters : ParamLists]
    IN  {m @@ [FilterType |-> f] : m \in common, f \in 0..2}
        \cup {m @@ [FilterType |-> 3, StartLocation |-> Loc] : m \in common}
        \cup {m @@ [FilterType |-> 4, StartLocation |-> Loc, EndGroup |-> 63] : m \in common}

SubscriptionMessages ==
    LET ok == [type : {"SUBSCRIBE_OK"}, RequestID : {63}, TrackAlias : {64}, Expires : {0, 5}, GroupOrder : {1},
               Parameters : ParamLists]
    IN  {m @@ [ContentExists |-> 0] : m \in ok}
        \cup {m @@ [ContentExists |-> 1, LargestLocation |-> Loc] : m \in ok}
        \cup [type : {"SUBSCRIBE_UPDATE"}, RequestID : {63}, StartLocation : {Loc}, EndGroup : {0},
              SubscriberPriority : {128}, Forward : {0, 1}, Parameters : ParamLists]
        \cup [type : {"SUBSCRIBE_DONE"}, RequestID : {0}, StatusCode : {3}, StreamCount : Numbers,
              ReasonPhrase : {<<>>, Name}]
        \cup [type : {"UNSUBSCRIBE", "FETCH_CANCEL", "ANNOUNCE_OK", "SUBSCRIBE_ANNOUNCES_OK"}, RequestID : Numbers]
        \cup [type : {"SUBSCRIBE_ERROR", "FETCH_ERROR", "ANNOUNCE_ERROR", "SUBSCRIBE_ANNOUNCES_ERROR"},
              RequestID : {64}, ErrorCode : {5}, ReasonPhrase : {<<>>, Long, Long \o Long}]

FetchMessages ==
    [type : {"FETCH"}, RequestID : {2}, SubscriberPriority : {128}, GroupOrder : {0}, FetchType : {1},
     TrackNamespace : Namespaces, TrackName : {<<>>, Name}, StartGroup : {64}, StartObject : {0},
     EndGroup : {2^14}, EndObject : {63}, Parameters : ParamLists]
    \cup [type : {"FETCH"}, RequestID : {2}, SubscriberPriority : {128}, GroupOrder : {0}, FetchType : {2, 3},
          JoiningSubscribeID : {64}, JoiningStart : {0}, Parameters : ParamLists]
    \cup [type : {"FETCH_OK"}, RequestID : {2}, GroupOrder : {1}, EndOfTrack : {0, 1}, EndLocation : {Loc},
          SubscribeParameters : ParamLists]
    \cup [type : {"TRACK_STATUS_REQUEST"}, RequestID : {0}, TrackNamespace : Namespaces, TrackName : {Name},
          Parameters : ParamLists]
    \cup [type : {"TRACK_STATUS"}, RequestID : {0}, StatusCode : {1}, LargestLocation : {Loc}, Parameters : ParamLists]

AnnounceMessages ==
    [type : {"ANNOUNCE"}, RequestID : {0, 64}, TrackNamespace : Namespaces, Parameters : ParamLists]
    \cup [type : {"ANNOUNCE_CANCEL"}, TrackNamespace : Namespaces, ErrorCode : {0}, ReasonPhrase : {<<>>, Name}]
    \cup [type : {"UNANNOUNCE"}, TrackNamespace : Namespaces]
    \cup [type : {"SUBSCRIBE_ANNOUNCES"}, RequestID : {64}, TrackNamespacePrefix : Namespaces, Parameters : ParamLists]
    \cup [type : {"UNSUBSCRIBE_ANNOUNCES"}, TrackNamespacePrefix : Namespaces]

AllMessages == SetupMessages \cup SubscribeMessages \cup SubscriptionMessages \cup FetchMessages \cup AnnounceMessages
OkMessages == {m \in SubscriptionMessages : m.type = "SUBSCRIBE_OK"}
Following == {m \in AllMessages : m.type \in {"MAX_REQUEST_ID", "SUBSCRIBE_ERROR"}}

SomeHeaders == {[TrackAlias |-> 0, GroupID |-> 64, SubgroupID |-> 2^14, PublisherPriority |-> 255],
                [TrackAlias |-> 63, GroupID |-> 0, SubgroupID |-> 1, PublisherPriority |-> 0]}
SomePayloads == {<<>>, <<7>>, [i \in 1..64 |-> 13]}
=============================================================================
