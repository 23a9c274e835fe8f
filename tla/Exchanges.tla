------------------------------ MODULE Exchanges ------------------------------
(***************************************************************************)
(* The request/response exchanges of a session other than subscriptions:   *)
(* ANNOUNCE, SUBSCRIBE_ANNOUNCES, TRACK_STATUS_REQUEST and FETCH, with     *)
(* UNANNOUNCE, ANNOUNCE_CANCEL, UNSUBSCRIBE_ANNOUNCES and FETCH_CANCEL     *)
(* (session.go, announcement_map.go, announcement_subscription_map.go,     *)
(* track_status_request_map.go, the track maps and the response writers).  *)
(*                                                                         *)
(* One peer requests, the other responds; the other direction is the same  *)
(* code.  Request IDs are handed out in order, starting with 0.  A handler *)
(* answers once, or not at all, before it returns.  The status a responder *)
(* reports is a function of the namespace asked for and is modelled by it. *)
(***************************************************************************)
EXTENDS Naturals, Sequences, FiniteSets

CONSTANTS
    Requests,     \* request IDs of the requester, 0 among them
    Namespaces,   \* namespaces; "invalid" has no or too many elements
    Plans,        \* per request its kind and its namespace: what it may ask for
    MaxWithdraws  \* bound: calls of Unannounce, AnnounceCancel, UnsubscribeAnnouncements, Close

AllKinds == {"ANNOUNCE", "SUBSCRIBE_ANNOUNCES", "TRACK_STATUS_REQUEST", "FETCH"}

ASSUME ExchangesAssumption ==
    /\ Requests \subseteq Nat /\ 0 \in Requests /\ IsFiniteSet(Requests)
    /\ Plans \subseteq [Requests -> AllKinds \X Namespaces] /\ MaxWithdraws \in Nat

VARIABLES
    \* requester
    call,       \* per request: its call, with kind, namespace and what it returned
    out,        \* per request: its place in the outgoing maps
    response,   \* per request: the response channel, of capacity 1
    \* responder
    incoming,   \* per request: its place in the incoming maps
    handling,   \* the request whose handler runs on the control reader, if any
    \* both
    reader,     \* per side: the control reader, or the error it returned
    toResp, toReq,  \* the control stream, one FIFO per direction
    withdraws,  \* calls of Unannounce, AnnounceCancel, UnsubscribeAnnouncements, Close
    \* history
    decided,    \* per request: what the responder answered
    deleted,    \* requests whose outgoing entry was withdrawn while pending
    removed,    \* requests whose incoming announcement was removed again
    unannounced \* Unannounce calls: whether they returned an error, and should have

vars == <<call, out, response, incoming, handling, reader, toResp, toReq, withdraws,
          decided, deleted, removed, unannounced>>
requester == <<call, out, response>>
history == <<decided, deleted, removed, unannounced>>

\* Where a request is in its map; open fetches are "announced", too.
Places == {"none", "pending", "announced"}
Call == [at : {"idle", "waiting", "accepted", "refused", "cancelled", "unsent"},
         kind : AllKinds, ns : Namespaces, got : SUBSET Namespaces]
\* An answer, as it waits in a response channel: its outcome and what it is about.
Answer == [ok : BOOLEAN, ns : Namespaces]
Message == [type : AllKinds \cup {"UNANNOUNCE", "UNSUBSCRIBE_ANNOUNCES", "ANNOUNCE_CANCEL", "FETCH_CANCEL", "ANSWER"},
            kind : AllKinds, id : Nat, ns : Namespaces, ok : BOOLEAN]
Errors == {"errUnknownAnnouncement", "errUnknownSubscribeAnnouncesPrefix", "errUnknownTrackStatusRequest",
           "errUnknownRequestID", "errInvalidNamespaceLength", "errLengthMismatch"}

\* A channel of capacity 1, or a goroutine that runs one handler at a time.
AtMostOne(S) == \A x, y \in S : x = y

TypeOK ==
    /\ call \in [Requests -> Call]
    /\ out \in [Requests -> Places]
    /\ response \in [Requests -> SUBSET Answer] /\ \A r \in Requests : AtMostOne(response[r])
    /\ incoming \in [Requests -> Places]
    /\ handling \subseteq Message /\ AtMostOne(handling)
    /\ reader \in [{"requester", "responder"} -> {"reading"} \cup Errors]
    /\ toResp \in Seq(Message) /\ toReq \in Seq(Message)
    /\ withdraws \in 0..MaxWithdraws
    /\ decided \in [Requests -> {"nothing", "accept", "reject"}]
    /\ deleted \subseteq Requests /\ removed \subseteq Requests
    /\ unannounced \subseteq [ns : Namespaces, unknown : BOOLEAN, announced : BOOLEAN]

Init ==
    /\ \E p \in Plans : call = [r \in Requests |-> [at |-> "idle", kind |-> p[r][1], ns |-> p[r][2], got |-> {}]]
    /\ out = [r \in Requests |-> "none"]
    /\ response = [r \in Requests |-> {}]
    /\ incoming = [r \in Requests |-> "none"]
    /\ handling = {}
    /\ reader = [s \in {"requester", "responder"} |-> "reading"]
    /\ toResp = <<>> /\ toReq = <<>>
    /\ withdraws = 0
    /\ decided = [r \in Requests |-> "nothing"]
    /\ deleted = {} /\ removed = {} /\ unannounced = {}

\* announcementMap.delete and announcementSubscriptionMap.delete: one of the
\* requests of this kind and namespace, a pending one first; none if {}.
Deletes(place, kind, ns) ==
    LET with(p) == {r \in Requests : place[r] = p /\ call[r].kind = kind /\ call[r].ns = ns}
    IN  IF with("pending") # {} THEN with("pending") ELSE with("announced")

Msg(type, kind, id, ns, ok) == [type |-> type, kind |-> kind, id |-> id, ns |-> ns, ok |-> ok]

-----------------------------------------------------------------------------
\* The requester's calls

\* A call adds its request to the map of its kind and writes message m.  When
\* the write fails, the entry is left as in place.
Request(r, kind, m, place) ==
    /\ call[r].at = "idle" /\ call[r].kind = kind
    /\ \A q \in Requests : q < r => call[q].at # "idle"
    /\ \/ /\ toResp' = Append(toResp, m)
          /\ call' = [call EXCEPT ![r].at = "waiting"]
          /\ out' = [out EXCEPT ![r] = "pending"]
       \/ /\ call' = [call EXCEPT ![r].at = "unsent"]
          /\ out' = [out EXCEPT ![r] = place]
          /\ UNCHANGED toResp
    /\ UNCHANGED <<response, incoming, handling, reader, toReq, withdraws, history>>

Announce(r) == Request(r, "ANNOUNCE", Msg("ANNOUNCE", "ANNOUNCE", r, call[r].ns, TRUE), "none")

SubscribeAnnouncements(r) ==
    Request(r, "SUBSCRIBE_ANNOUNCES", Msg("SUBSCRIBE_ANNOUNCES", "SUBSCRIBE_ANNOUNCES", r, call[r].ns, TRUE), "none")

\* The RequestID field is left unset, and trackStatusRequestMap.delete removes
\* nothing.
RequestTrackStatus(r) ==
    Request(r, "TRACK_STATUS_REQUEST", Msg("TRACK_STATUS_REQUEST", "TRACK_STATUS_REQUEST", 0, call[r].ns, TRUE), "pending")

Fetch(r) == Request(r, "FETCH", Msg("FETCH", "FETCH", r, call[r].ns, TRUE), "none")

\* fetchCancel, which is RemoteTrack.Close of a fetch.
FetchCancel(r) == toResp' = Append(toResp, Msg("FETCH_CANCEL", "FETCH", r, call[r].ns, TRUE))

\* What Fetch does when it fails, whatever the reason: remoteTracks.reject,
\* which removes a pending track, and FETCH_CANCEL.
FetchFails(r) ==
    /\ out' = [out EXCEPT ![r] = IF @ = "pending" THEN "none" ELSE @]
    /\ FetchCancel(r)

\* The select of the call: the answer ...
TakeResponse(r) ==
    /\ call[r].at = "waiting"
    /\ \E a \in response[r] :
          /\ call' = [call EXCEPT ![r].at = IF a.ok THEN "accepted" ELSE "refused", ![r].got = {a.ns}]
          /\ IF call[r].kind = "FETCH" /\ ~a.ok THEN FetchFails(r) ELSE UNCHANGED <<out, toResp>>
    /\ response' = [response EXCEPT ![r] = {}]
    /\ UNCHANGED <<incoming, handling, reader, toReq, withdraws, history>>

\* ... or the end of the caller's context, after which the other calls leave
\* their map alone.
CallCtxDoneRemoves(r) ==
    /\ call[r].at = "waiting"
    /\ call' = [call EXCEPT ![r].at = "cancelled"]
    /\ out' = [out EXCEPT ![r] = "none"]
    /\ UNCHANGED <<response, incoming, handling, reader, toResp, toReq, withdraws, history>>
CallCtxDone(r) ==
    /\ call[r].at = "waiting"
    /\ call' = [call EXCEPT ![r].at = "cancelled"]
    /\ IF call[r].kind = "FETCH" THEN FetchFails(r) ELSE UNCHANGED <<out, toResp>>
    /\ UNCHANGED <<response, incoming, handling, reader, toReq, withdraws, history>>

Withdraw == withdraws < MaxWithdraws /\ withdraws' = withdraws + 1

\* Unannounce returns errUnknownAnnouncementNamespace, and sends nothing, when
\* it deleted an announcement; it sends UNANNOUNCE when it found none.
Unannounce(ns) ==
    LET found == Deletes(out, "ANNOUNCE", ns)
        announced == \E r \in Requests : call[r].kind = "ANNOUNCE" /\ call[r].ns = ns /\ out[r] = "announced"
    IN  /\ Withdraw
        /\ IF found # {}
           THEN /\ \E r \in found :
                      /\ out' = [out EXCEPT ![r] = "none"]
                      /\ deleted' = IF out[r] = "pending" THEN deleted \cup {r} ELSE deleted
                /\ UNCHANGED toResp
           ELSE /\ toResp' = Append(toResp, Msg("UNANNOUNCE", "ANNOUNCE", 0, ns, TRUE))
                /\ UNCHANGED <<out, deleted>>
        /\ unannounced' = unannounced \cup {[ns |-> ns, unknown |-> found # {}, announced |-> announced]}
        /\ UNCHANGED <<call, response, incoming, handling, reader, toReq, decided, removed>>

UnsubscribeAnnouncements(ns) ==
    LET found == Deletes(out, "SUBSCRIBE_ANNOUNCES", ns)
    IN  /\ Withdraw
        /\ IF found # {}
           THEN \E r \in found : out' = [out EXCEPT ![r] = "none"] /\ deleted' = deleted \cup {r}
           ELSE UNCHANGED <<out, deleted>>
        /\ toResp' = Append(toResp, Msg("UNSUBSCRIBE_ANNOUNCES", "SUBSCRIBE_ANNOUNCES", 0, ns, TRUE))
        /\ UNCHANGED <<call, response, incoming, handling, reader, toReq, decided, removed, unannounced>>

\* RemoteTrack.Close on the track Fetch returned.
CloseFetch(r) ==
    /\ Withdraw
    /\ call[r].kind = "FETCH" /\ call[r].at = "accepted"
    /\ FetchCancel(r)
    /\ UNCHANGED <<requester, incoming, handling, reader, toReq, history>>

-----------------------------------------------------------------------------
\* The responder

\* What a message other than SUBSCRIBE_ANNOUNCES and UNSUBSCRIBE_ANNOUNCES is
\* refused for first.
BadNamespace(m) == m.ns = "invalid" /\ m.type \in {"ANNOUNCE", "UNANNOUNCE", "TRACK_STATUS_REQUEST", "FETCH"}

RespTakes ==
    /\ reader["responder"] = "reading" /\ handling = {}
    /\ toResp # <<>>
    /\ toResp' = Tail(toResp)

RespReads(types) == RespTakes /\ Head(toResp).type \in types /\ ~BadNamespace(Head(toResp))

OnBadNamespace ==
    /\ RespTakes /\ BadNamespace(Head(toResp))
    /\ reader' = [reader EXCEPT !["responder"] = "errInvalidNamespaceLength"]
    /\ UNCHANGED <<requester, incoming, handling, toReq, withdraws, history>>

\* The handlers of the requests up to the call of the application, which runs
\* on the control reader; only a status request is not kept in a map.
Calls(m) ==
    /\ handling' = {m}
    /\ UNCHANGED <<requester, reader, toReq, withdraws, history>>

OnAnnounce ==
    /\ RespReads({"ANNOUNCE"})
    /\ incoming' = [incoming EXCEPT ![Head(toResp).id] = "pending"]
    /\ Calls(Head(toResp))

OnSubscribeAnnounces ==
    /\ RespReads({"SUBSCRIBE_ANNOUNCES"})
    /\ incoming' = [incoming EXCEPT ![Head(toResp).id] = "pending"]
    /\ Calls(Head(toResp))

\* onFetch; addLocalTrack finds neither the limit exceeded (RequestFlow) nor a
\* duplicate.
OnFetch ==
    /\ RespReads({"FETCH"})
    /\ incoming' = [incoming EXCEPT ![Head(toResp).id] = "pending"]
    /\ Calls(Head(toResp))

OnTrackStatusRequest ==
    /\ RespReads({"TRACK_STATUS_REQUEST"})
    /\ UNCHANGED incoming
    /\ Calls(Head(toResp))

\* The answer to the request with message m.
SendAnswer(m, ok) ==
    /\ toReq' = Append(toReq, Msg("ANSWER", m.kind, m.id, m.ns, ok))
    /\ decided' = [decided EXCEPT ![m.id] = IF ok THEN "accept" ELSE "reject"]

\* An announcement that has been cancelled meanwhile is answered by nobody:
\* confirmAndGet fails.
AcceptAnnouncement(m) ==
    IF incoming[m.id] # "pending"
    THEN UNCHANGED <<incoming, toReq, decided>>
    ELSE /\ SendAnswer(m, TRUE)
         /\ incoming' = [incoming EXCEPT ![m.id] = "announced"]

\* The announcement stays pending.
RejectAnnouncementSilently(m) == UNCHANGED <<incoming, toReq, decided>>
RejectAnnouncement(m) == SendAnswer(m, FALSE) /\ UNCHANGED incoming

AcceptAnnouncementSubscription(m) == SendAnswer(m, TRUE) /\ UNCHANGED incoming
RejectAnnouncementSubscription(m) == SendAnswer(m, FALSE) /\ UNCHANGED incoming

AcceptFetch(m) ==
    /\ incoming[m.id] = "pending"
    /\ SendAnswer(m, TRUE)
    /\ incoming' = [incoming EXCEPT ![m.id] = "announced"]

RejectFetch(m) ==
    /\ incoming[m.id] = "pending"
    /\ SendAnswer(m, FALSE)
    /\ incoming' = [incoming EXCEPT ![m.id] = "none"]

\* The answer to a status request, rejected or not, with RequestID 0.
SendTrackStatus(m) ==
    /\ toReq' = Append(toReq, Msg("ANSWER", m.kind, 0, m.ns, TRUE))
    /\ UNCHANGED <<incoming, decided>>

\* The handler, which answers once; a request it does not answer is rejected.
Handle(m) ==
    /\ m \in handling
    /\ \/ m.kind = "ANNOUNCE" /\ (AcceptAnnouncement(m) \/ RejectAnnouncement(m))
       \/ m.kind = "SUBSCRIBE_ANNOUNCES" /\ (AcceptAnnouncementSubscription(m) \/ RejectAnnouncementSubscription(m))
       \/ m.kind = "FETCH" /\ (AcceptFetch(m) \/ RejectFetch(m))
       \/ m.kind = "TRACK_STATUS_REQUEST" /\ SendTrackStatus(m)
    /\ handling' = {}
    /\ UNCHANGED <<requester, reader, toResp, withdraws, deleted, removed, unannounced>>

OnUnannounce ==
    LET found == Deletes(incoming, "ANNOUNCE", Head(toResp).ns)
    IN  /\ RespReads({"UNANNOUNCE"})
        /\ IF found = {}
           THEN /\ reader' = [reader EXCEPT !["responder"] = "errUnknownAnnouncement"]
                /\ UNCHANGED <<incoming, removed>>
           ELSE /\ \E r \in found : incoming' = [incoming EXCEPT ![r] = "none"] /\ removed' = removed \cup {r}
                /\ UNCHANGED reader
        /\ UNCHANGED <<requester, handling, toReq, withdraws, decided, deleted, unannounced>>

\* onFetchCancel: localTracks.delete, and the track's context ends.
OnFetchCancel ==
    LET r == Head(toResp).id
    IN  /\ RespReads({"FETCH_CANCEL"})
        /\ IF incoming[r] = "none"
           THEN reader' = [reader EXCEPT !["responder"] = "errUnknownRequestID"] /\ UNCHANGED incoming
           ELSE incoming' = [incoming EXCEPT ![r] = "none"] /\ UNCHANGED reader
        /\ UNCHANGED <<requester, handling, toReq, withdraws, history>>

\* Only the handler is told.
OnUnsubscribeAnnounces ==
    /\ RespReads({"UNSUBSCRIBE_ANNOUNCES"})
    /\ UNCHANGED <<requester, incoming, handling, reader, toReq, withdraws, history>>

AnnounceCancel(ns) ==
    /\ Withdraw
    /\ \E r \in Deletes(incoming, "ANNOUNCE", ns) :
          /\ incoming' = [incoming EXCEPT ![r] = "none"]
          /\ removed' = removed \cup {r}
    /\ toReq' = Append(toReq, Msg("ANNOUNCE_CANCEL", "ANNOUNCE", 0, ns, TRUE))
    /\ UNCHANGED <<requester, handling, reader, toResp, decided, deleted, unannounced>>

-----------------------------------------------------------------------------
\* The requester's control reader

ReqReads(type) ==
    /\ reader["requester"] = "reading"
    /\ toReq # <<>> /\ Head(toReq).type = type
    /\ toReq' = Tail(toReq)

\* The entry an answer finds: confirmAndGet and reject look among the pending
\* announcements, the other maps hold pending requests only.
FindsPending(m) == m.id \in Requests /\ out[m.id] = "pending" /\ call[m.id].kind = m.kind

\* The answer ok to a request of this kind: its entry goes to place, and the
\* response to the waiting call, or is dropped if the channel is full.  Without
\* an entry the control reader ends.
Answered(kind, ok, place, err) ==
    LET m == Head(toReq)
    IN  /\ ReqReads("ANSWER") /\ m.kind = kind /\ m.ok = ok
        /\ IF FindsPending(m)
           THEN /\ out' = [out EXCEPT ![m.id] = place]
                /\ response' = [response EXCEPT ![m.id] = IF @ = {} THEN {[ok |-> ok, ns |-> m.ns]} ELSE @]
                /\ UNCHANGED reader
           ELSE /\ reader' = [reader EXCEPT !["requester"] = err]
                /\ UNCHANGED <<out, response>>
        /\ UNCHANGED <<call, incoming, handling, withdraws, history>>

OnAnnounceOk == Answered("ANNOUNCE", TRUE, "announced", "errUnknownAnnouncement") /\ UNCHANGED toResp

OnAnnounceErrorKeeps == Answered("ANNOUNCE", FALSE, "announced", "errUnknownAnnouncement") /\ UNCHANGED toResp
OnAnnounceErrorAsNil ==
    LET m == Head(toReq)
    IN  /\ ReqReads("ANSWER") /\ m.kind = "ANNOUNCE" /\ ~m.ok /\ FindsPending(m)
        /\ out' = [out EXCEPT ![m.id] = "none"]
        /\ response' = [response EXCEPT ![m.id] = {[ok |-> TRUE, ns |-> m.ns]}]
        /\ UNCHANGED <<call, reader, incoming, handling, toResp, withdraws, history>>
OnAnnounceError == Answered("ANNOUNCE", FALSE, "none", "errUnknownAnnouncement") /\ UNCHANGED toResp

OnSubscribeAnnouncesOk ==
    Answered("SUBSCRIBE_ANNOUNCES", TRUE, "none", "errUnknownSubscribeAnnouncesPrefix") /\ UNCHANGED toResp
OnSubscribeAnnouncesError ==
    Answered("SUBSCRIBE_ANNOUNCES", FALSE, "none", "errUnknownSubscribeAnnouncesPrefix") /\ UNCHANGED toResp

\* A status request stays in its map for ever.
OnTrackStatusOverwrites ==
    LET m == Head(toReq)
    IN  /\ ReqReads("ANSWER") /\ m.kind = "TRACK_STATUS_REQUEST" /\ FindsPending(m)
        /\ response' = [response EXCEPT ![m.id] = @ \cup {[ok |-> m.ok, ns |-> m.ns]}]
        /\ UNCHANGED <<call, out, reader, incoming, handling, toResp, withdraws, history>>
OnTrackStatusOnce ==
    Answered("TRACK_STATUS_REQUEST", TRUE, "none", "errUnknownTrackStatusRequest") /\ UNCHANGED toResp
OnTrackStatus ==
    Answered("TRACK_STATUS_REQUEST", TRUE, "pending", "errUnknownTrackStatusRequest") /\ UNCHANGED toResp

\* FETCH_OK that nobody waits for cancels the fetch.
OnFetchOk ==
    /\ Answered("FETCH", TRUE, "announced", "errUnknownRequestID")
    /\ IF FindsPending(Head(toReq)) /\ response[Head(toReq).id] # {}
       THEN FetchCancel(Head(toReq).id)
       ELSE UNCHANGED toResp

OnFetchError == Answered("FETCH", FALSE, "none", "errUnknownRequestID") /\ UNCHANGED toResp

\* ANNOUNCE_CANCEL goes out with the type of ANNOUNCE and is parsed as one; a
\* namespace of ordinary strings then claims more bytes than there are (Wire).
OnAnnounceCancel ==
    /\ ReqReads("ANNOUNCE_CANCEL")
    /\ reader' = [reader EXCEPT !["requester"] = "errLengthMismatch"]
    /\ UNCHANGED <<requester, incoming, handling, toResp, withdraws, history>>

-----------------------------------------------------------------------------
RespReader ==
    \/ OnAnnounce \/ OnSubscribeAnnounces \/ OnTrackStatusRequest \/ OnFetch
    \/ OnUnannounce \/ OnUnsubscribeAnnounces \/ OnFetchCancel \/ OnBadNamespace
ReqReader ==
    \/ OnAnnounceOk \/ OnAnnounceError \/ OnAnnounceCancel
    \/ OnSubscribeAnnouncesOk \/ OnSubscribeAnnouncesError
    \/ OnTrackStatus \/ OnFetchOk \/ OnFetchError

\* Bound: the namespaces withdrawn are those some announcement, or subscription
\* to announcements, names.
Named == {call[r].ns : r \in {q \in Requests : call[q].kind \in {"ANNOUNCE", "SUBSCRIBE_ANNOUNCES"}}}

Next ==
    \/ RespReader \/ ReqReader
    \/ \E m \in handling : Handle(m)
    \/ \E r \in Requests :
          \/ Announce(r) \/ SubscribeAnnouncements(r) \/ RequestTrackStatus(r) \/ Fetch(r)
          \/ TakeResponse(r) \/ CallCtxDone(r) \/ CloseFetch(r)
    \/ \E ns \in Named : Unannounce(ns) \/ UnsubscribeAnnouncements(ns) \/ AnnounceCancel(ns)

Spec == Init /\ [][Next]_vars

\* Goroutines that can run do run; handlers return.
Fairness ==
    /\ WF_vars(RespReader) /\ WF_vars(ReqReader)
    /\ WF_vars(\E m \in handling : Handle(m))
    /\ \A r \in Requests : WF_vars(TakeResponse(r))
FairSpec == Spec /\ Fairness

-----------------------------------------------------------------------------
\* Properties

Reading == \A s \in {"requester", "responder"} : reader[s] = "reading"

\* Announce, SubscribeAnnouncements and Fetch return what the responder's
\* handler decided for that very request.
ReturnsTheDecision ==
    \A r \in Requests : call[r].kind # "TRACK_STATUS_REQUEST" =>
        /\ call[r].at = "accepted" => decided[r] = "accept" /\ call[r].got = {call[r].ns}
        /\ call[r].at = "refused" => decided[r] = "reject"

\* An announcement or a fetch the requester holds was accepted by the
\* responder, who holds it too unless that announcement was removed by UNANNOUNCE
\* or AnnounceCancel, or the fetch cancelled.  A fetch may stay with the
\* requester after its call was cancelled: FETCH_OK came before
\* remoteTracks.reject, which removes pending tracks only.
AnnouncedWasAccepted ==
    \A r \in Requests : out[r] = "announced" =>
        /\ decided[r] = "accept"
        /\ \/ incoming[r] = "announced" \/ r \in removed
           \/ call[r].kind = "FETCH" /\ (call[r].at = "cancelled" \/ withdraws > 0)

OfKind(kind) == {r \in Requests : call[r].kind = kind}

\* A control reader meets a request it does not know for these reasons only.  At
\* the requester: it withdrew the request while it was pending, or cancelled a
\* fetch.  At the responder: it rejected a fetch, which the requester then
\* cancels all the same, or a track was closed twice; or Unannounce, which knew
\* no announcement of the namespace itself, was called for one of which no
\* announcement had been accepted, or none that had not been removed again.
\* (For track status requests see StatusWasAskedFor.)
UnknownOnlyAfterWithdrawal ==
    /\ reader["requester"] \in {"errUnknownAnnouncement", "errUnknownSubscribeAnnouncesPrefix"} => deleted # {}
    /\ reader["requester"] = "errUnknownRequestID" => \E r \in OfKind("FETCH") : call[r].at = "cancelled"
    /\ reader["responder"] = "errUnknownRequestID" =>
          withdraws > 1 \/ \E r \in OfKind("FETCH") : decided[r] = "reject"
    /\ reader["responder"] = "errUnknownAnnouncement" =>
          \E u \in unannounced : ~u.unknown /\ \A r \in OfKind("ANNOUNCE") :
             call[r].ns = u.ns /\ decided[r] = "accept" => r \in removed

\* The namespaces of the status requests that went out.
Asked == {call[r].ns : r \in {q \in OfKind("TRACK_STATUS_REQUEST") : call[q].at \notin {"idle", "unsent"}}}

\* What RequestTrackStatus returns is the status of a track that some call asked
\* for, so that of its own track if no other call is made, and TRACK_STATUS ends
\* the control reader only if request 0 is not a status request: all status
\* requests and their answers carry request ID 0, whose entry stays.
StatusWasAskedFor ==
    /\ \A r \in OfKind("TRACK_STATUS_REQUEST") : call[r].at = "accepted" => \E ns \in Asked : call[r].got = {ns}
    /\ reader["requester"] = "errUnknownTrackStatusRequest" => 0 \notin OfKind("TRACK_STATUS_REQUEST")

\* Announce, SubscribeAnnouncements and Fetch return, unless a control reader
\* died or the responder cancelled the announcement while its handler was
\* running.
ExchangesReturn ==
    \A r \in Requests : call[r].kind # "TRACK_STATUS_REQUEST" =>
        (call[r].at = "waiting" ~> call[r].at # "waiting" \/ ~Reading \/ (r \in removed /\ decided[r] = "nothing"))

\* "unknown announcement namespace" (errUnknownAnnouncementNamespace): Unannounce
\* returns this error only for a namespace the peer has not accepted.
UnknownMeansNotAnnounced == \A u \in unannounced : u.unknown => ~u.announced
=============================================================================
