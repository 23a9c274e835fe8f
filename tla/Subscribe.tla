------------------------------ MODULE Subscribe ------------------------------
(***************************************************************************)
(* The life of subscriptions between one subscriber and one publisher      *)
(* whose handshake is over (session.go: Subscribe, UpdateSubscription,     *)
(* onSubscribe..., the response writer of subscribe_response_writer.go,    *)
(* the two track maps, and the contexts of remote_track.go and             *)
(* local_track.go).                                                        *)
(*                                                                         *)
(* A request is identified by its request ID; every ID is used for one     *)
(* Subscribe call.  That IDs are unique and within the peer's limit is the *)
(* subject of RequestFlow, so errMaxRequestIDViolated does not occur here. *)
(* The application is free to call what it wants when it wants, from the   *)
(* handler or from another goroutine, except that it answers a request     *)
(* once and closes only tracks it accepted.  Message contents other than   *)
(* request ID and track alias are reduced to whether the namespace is one  *)
(* onSubscribe accepts.                                                    *)
(***************************************************************************)
EXTENDS Naturals, Sequences, FiniteSets

CONSTANTS
    Requests,    \* request IDs the subscriber uses
    Namespaces   \* subset of {"valid", "invalid"}: namespaces it asks for

ASSUME RequestsAssumption ==
    /\ IsFiniteSet(Requests)
    /\ Namespaces \subseteq {"valid", "invalid"}

VARIABLES
    \* subscriber
    call,         \* per request: where its Subscribe call is
    remote,       \* per request: its place in remoteTracks
    aliasTo,      \* remoteTracks.trackAliasToRequestID
    response,     \* per request: responseChan, of capacity 1
    remoteDone,   \* per request: the track's doneCtx is cancelled
    unsubscribed, \* requests whose RemoteTrack.Close has been called
    updated,      \* requests whose UpdateSubscription has been called
    \* publisher
    nextAlias,    \* trackAliases
    local,        \* per request: its place in localTracks, or how it left
    localAlias,   \* per request: localTrack.trackAlias
    localCtx,     \* per request: localTrack.ctx
    closing,      \* per request: progress of CloseWithError
    handling,     \* the request whose handler runs on the control reader, if any
    answering,    \* requests whose Accept or Reject has been called (handled)
    unhandled,    \* requests whose handler returned before that
    \* both
    reader,       \* per side: the control reader, or the error it returned
    toPub, toSub  \* the control stream, one FIFO per direction

subVars == <<call, remote, aliasTo, response, remoteDone, unsubscribed, updated>>
pubVars == <<nextAlias, local, localAlias, localCtx, closing, handling, answering, unhandled>>
vars == <<subVars, pubVars, reader, toPub, toSub>>

\* idle -> registered -> waiting -> established, or via cancelling or erring to
\* cancelled or rejected; unsent: the SUBSCRIBE could not be written.
CallStates == {"idle", "registered", "waiting", "established", "cancelling", "cancelled",
               "erring", "rejected", "unsent"}
Errors == {"errUnknownRequestID", "errDuplicateTrackAlias", "errInvalidNamespaceLength"}
Answers == {"SUBSCRIBE_OK", "SUBSCRIBE_ERROR"}

PubMsg == [type : {"SUBSCRIBE", "UNSUBSCRIBE", "SUBSCRIBE_UPDATE"}, id : Requests, ns : {"valid", "invalid"}]
SubMsg == [type : Answers \cup {"SUBSCRIBE_DONE"}, id : Requests, alias : Nat]

TypeOK ==
    /\ call \in [Requests -> CallStates]
    /\ remote \in [Requests -> {"none", "pending", "open"}]
    /\ DOMAIN aliasTo \subseteq Nat /\ \A a \in DOMAIN aliasTo : aliasTo[a] \in Requests
    /\ response \in [Requests -> {"none", "nil", "error"}]
    /\ remoteDone \in [Requests -> BOOLEAN]
    /\ unsubscribed \subseteq Requests /\ updated \subseteq Requests
    /\ nextAlias \in Nat
    /\ local \in [Requests -> {"none", "pending", "open", "rejected", "closed"}]
    /\ localAlias \in [Requests -> Nat]
    /\ localCtx \in [Requests -> {"none", "live", "unsubscribed", "done"}]
    /\ closing \in [Requests -> {"no", "cancelled", "yes"}]
    /\ handling \subseteq Requests /\ answering \subseteq Requests /\ unhandled \subseteq Requests
    /\ reader \in [{"subscriber", "publisher"} -> {"reading"} \cup Errors]
    /\ toPub \in Seq(PubMsg)
    /\ toSub \in Seq(SubMsg)

Init ==
    /\ call = [r \in Requests |-> "idle"]
    /\ remote = [r \in Requests |-> "none"]
    /\ aliasTo = <<>>
    /\ response = [r \in Requests |-> "none"]
    /\ remoteDone = [r \in Requests |-> FALSE]
    /\ unsubscribed = {} /\ updated = {}
    /\ nextAlias = 0
    /\ local = [r \in Requests |-> "none"]
    /\ localAlias = [r \in Requests |-> 0]
    /\ localCtx = [r \in Requests |-> "none"]
    /\ closing = [r \in Requests |-> "no"]
    /\ handling = {} /\ answering = {} /\ unhandled = {}
    /\ reader = [s \in {"subscriber", "publisher"} |-> "reading"]
    /\ toPub = <<>> /\ toSub = <<>>

ToPub(type, r, ns) == toPub' = Append(toPub, [type |-> type, id |-> r, ns |-> ns])
ToSub(type, r, alias) == toSub' = Append(toSub, [type |-> type, id |-> r, alias |-> alias])

-----------------------------------------------------------------------------
\* The subscriber's calls

AddPendingWithAlias(r) == remote[r] = "none" /\ remote' = [remote EXCEPT ![r] = "pending"]

\* Subscribe: take an ID and add a new track.
SubscribeCall(r) ==
    /\ call[r] = "idle"
    /\ call' = [call EXCEPT ![r] = "registered"]
    /\ AddPendingWithAlias(r)
    /\ UNCHANGED <<aliasTo, response, remoteDone, unsubscribed, updated, pubVars, reader, toPub, toSub>>

\* The write of SUBSCRIBE; it may fail, and then the track stays pending.
SubscribeWrite(r, ns) ==
    /\ call[r] = "registered"
    /\ \/ ToPub("SUBSCRIBE", r, ns) /\ call' = [call EXCEPT ![r] = "waiting"]
       \/ UNCHANGED toPub /\ call' = [call EXCEPT ![r] = "unsent"]
    /\ UNCHANGED <<remote, aliasTo, response, remoteDone, unsubscribed, updated, pubVars, reader, toSub>>

\* The select of Subscribe: its two cases race when both are ready.
SubscribeResponse(r) ==
    /\ call[r] = "waiting" /\ response[r] # "none"
    /\ call' = [call EXCEPT ![r] = IF response[r] = "nil" THEN "established" ELSE "erring"]
    /\ response' = [response EXCEPT ![r] = "none"]
    /\ UNCHANGED <<remote, aliasTo, remoteDone, unsubscribed, updated, pubVars, reader, toPub, toSub>>

SubscribeCtxDone(r) ==
    /\ call[r] = "waiting"
    /\ call' = [call EXCEPT ![r] = "cancelling"]
    /\ UNCHANGED <<remote, aliasTo, response, remoteDone, unsubscribed, updated, pubVars, reader, toPub, toSub>>

\* remoteTracks.reject after a cancelled or failed call: removes a pending
\* track, leaves an open one where it is.
SubscribeRejectKeeps(r) ==
    /\ call[r] \in {"cancelling", "erring"}
    /\ call' = [call EXCEPT ![r] = IF @ = "erring" THEN "rejected" ELSE "cancelled"]
    /\ UNCHANGED <<remote, aliasTo, response, remoteDone, unsubscribed, updated, pubVars, reader, toPub, toSub>>
SubscribeReject(r) ==
    /\ call[r] \in {"cancelling", "erring"}
    /\ call' = [call EXCEPT ![r] = IF @ = "erring" THEN "rejected" ELSE "cancelled"]
    /\ remote' = [remote EXCEPT ![r] = IF @ = "pending" THEN "none" ELSE @]
    /\ UNCHANGED <<aliasTo, response, remoteDone, unsubscribed, updated, pubVars, reader, toPub, toSub>>

\* RemoteTrack.Close; bound: once per track.
Unsubscribe(r) ==
    /\ call[r] = "established" /\ r \notin unsubscribed
    /\ unsubscribed' = unsubscribed \cup {r}
    /\ ToPub("UNSUBSCRIBE", r, "valid")
    /\ UNCHANGED <<call, remote, aliasTo, response, remoteDone, updated, pubVars, reader, toSub>>

\* UpdateSubscription; bound: once per track.
UpdateSubscription(r) ==
    /\ call[r] = "established" /\ r \notin updated
    /\ remote[r] # "none"
    /\ updated' = updated \cup {r}
    /\ ToPub("SUBSCRIBE_UPDATE", r, "valid")
    /\ UNCHANGED <<call, remote, aliasTo, response, remoteDone, unsubscribed, pubVars, reader, toSub>>

-----------------------------------------------------------------------------
\* The subscriber's control reader

SubReads(type) ==
    /\ reader["subscriber"] = "reading"
    /\ toSub # <<>> /\ Head(toSub).type = type
    /\ toSub' = Tail(toSub)

Dies(side, err) == reader' = [reader EXCEPT ![side] = err]

SetAlias(r, alias) == aliasTo' = [a \in DOMAIN aliasTo \cup {alias} |-> IF a = alias THEN r ELSE aliasTo[a]]

\* confirm, setAlias, then the answer for the waiting call.  An alias that is
\* taken leaves the track open and the call without its answer; a full
\* responseChan unsubscribes.
OnSubscribeOk ==
    LET r == Head(toSub).id
        alias == Head(toSub).alias
    IN  /\ SubReads("SUBSCRIBE_OK")
        /\ IF remote[r] # "pending"
           THEN /\ Dies("subscriber", "errUnknownRequestID")
                /\ UNCHANGED <<remote, aliasTo, response, toPub>>
           ELSE /\ remote' = [remote EXCEPT ![r] = "open"]
                /\ IF alias \in DOMAIN aliasTo
                   THEN /\ Dies("subscriber", "errDuplicateTrackAlias")
                        /\ UNCHANGED <<aliasTo, response, toPub>>
                   ELSE /\ SetAlias(r, alias)
                        /\ IF response[r] = "none"
                           THEN response' = [response EXCEPT ![r] = "nil"] /\ UNCHANGED toPub
                           ELSE ToPub("UNSUBSCRIBE", r, "valid") /\ UNCHANGED response
                        /\ UNCHANGED reader
        /\ UNCHANGED <<call, remoteDone, unsubscribed, updated, pubVars>>

\* A rejection answered as if it were an acceptance.
OnSubscribeErrorAsNil ==
    LET r == Head(toSub).id
    IN  /\ SubReads("SUBSCRIBE_ERROR")
        /\ remote' = [remote EXCEPT ![r] = "none"]
        /\ response' = [response EXCEPT ![r] = "nil"]
        /\ UNCHANGED <<call, aliasTo, remoteDone, unsubscribed, updated, pubVars, reader, toPub>>
OnSubscribeError ==
    LET r == Head(toSub).id
    IN  /\ SubReads("SUBSCRIBE_ERROR")
        /\ IF remote[r] # "pending"
           THEN Dies("subscriber", "errUnknownRequestID") /\ UNCHANGED <<remote, response>>
           ELSE /\ remote' = [remote EXCEPT ![r] = "none"]
                /\ response' = [response EXCEPT ![r] = IF @ = "none" THEN "error" ELSE @]
                /\ UNCHANGED reader
        /\ UNCHANGED <<call, aliasTo, remoteDone, unsubscribed, updated, pubVars, toPub>>

OnSubscribeDone ==
    LET r == Head(toSub).id
    IN  /\ SubReads("SUBSCRIBE_DONE")
        /\ IF remote[r] = "none"
           THEN Dies("subscriber", "errUnknownRequestID") /\ UNCHANGED remoteDone
           ELSE remoteDone' = [remoteDone EXCEPT ![r] = TRUE] /\ UNCHANGED reader
        /\ UNCHANGED <<call, remote, aliasTo, response, unsubscribed, updated, pubVars, toPub>>

-----------------------------------------------------------------------------
\* The publisher's control reader, which also runs the SubscribeHandler

PubReads(type) ==
    /\ reader["publisher"] = "reading" /\ handling = {}
    /\ toPub # <<>> /\ Head(toPub).type = type
    /\ toPub' = Tail(toPub)

\* localTracks.findByID
Known(r) == local[r] \in {"pending", "open"}

\* sequence.next: the value before the interval was added.
SequenceNextLow(last) == last - 1
SequenceNextStuck(last) == 0
SequenceNext(last) == last

\* onSubscribe up to the call of the handler: a new localTrack with the next
\* alias is added to localTracks.  A known ID is refused with
\* errDuplicateRequestID.
OnSubscribe ==
    LET r == Head(toPub).id
    IN  /\ PubReads("SUBSCRIBE")
        /\ IF Head(toPub).ns = "invalid"
           THEN /\ Dies("publisher", "errInvalidNamespaceLength")
                /\ UNCHANGED <<nextAlias, local, localAlias, localCtx, handling, toSub>>
           ELSE /\ nextAlias' = nextAlias + 1
                /\ IF Known(r)
                   THEN /\ ToSub("SUBSCRIBE_ERROR", r, 0)
                        /\ UNCHANGED <<local, localAlias, localCtx, handling>>
                   ELSE /\ local' = [local EXCEPT ![r] = "pending"]
                        /\ localAlias' = [localAlias EXCEPT ![r] = SequenceNext(nextAlias)]
                        /\ localCtx' = [localCtx EXCEPT ![r] = "live"]
                        /\ handling' = {r}
                        /\ UNCHANGED toSub
                /\ UNCHANGED reader
        /\ UNCHANGED <<subVars, closing, answering, unhandled>>

\* SubscribeResponseWriter.Accept and Reject, called by the handler or by a
\* goroutine that outlives it, first set handled ...
Answer(r) ==
    /\ local[r] # "none" /\ r \notin answering
    /\ answering' = answering \cup {r}
    /\ UNCHANGED <<subVars, nextAlias, local, localAlias, localCtx, closing, handling, unhandled, reader, toPub, toSub>>

\* ... then Accept calls localTracks.confirm, which fails once the subscription
\* is rejected, and writes SUBSCRIBE_OK, whose TrackAlias field is never set.
AcceptDropsTrack(r) ==
    /\ r \in answering /\ local[r] = "pending"
    /\ local' = [local EXCEPT ![r] = "rejected"]
    /\ ToSub("SUBSCRIBE_OK", r, 0)
    /\ UNCHANGED <<subVars, nextAlias, localAlias, localCtx, closing, handling, answering, unhandled, reader, toPub>>
AcceptSilently(r) ==
    /\ r \in answering /\ local[r] = "pending"
    /\ local' = [local EXCEPT ![r] = "open"]
    /\ UNCHANGED <<subVars, nextAlias, localAlias, localCtx, closing, handling, answering, unhandled, reader, toPub, toSub>>
Accept(r) ==
    /\ r \in answering /\ local[r] = "pending"
    /\ local' = [local EXCEPT ![r] = "open"]
    /\ ToSub("SUBSCRIBE_OK", r, 0)
    /\ UNCHANGED <<subVars, nextAlias, localAlias, localCtx, closing, handling, answering, unhandled, reader, toPub>>

RejectSubscription(r) ==
    /\ local[r] = "pending"
    /\ local' = [local EXCEPT ![r] = "rejected"]
    /\ ToSub("SUBSCRIBE_ERROR", r, 0)

Reject(r) ==
    /\ r \in answering
    /\ RejectSubscription(r)
    /\ UNCHANGED <<subVars, nextAlias, localAlias, localCtx, closing, handling, answering, unhandled, reader, toPub>>

\* The handler returns, and onSubscribe looks at handled.
HandlerReturn(r) ==
    /\ r \in handling \ unhandled
    /\ IF r \in answering
       THEN handling' = {} /\ UNCHANGED unhandled
       ELSE unhandled' = unhandled \cup {r} /\ UNCHANGED handling
    /\ UNCHANGED <<subVars, nextAlias, local, localAlias, localCtx, closing, answering, reader, toPub, toSub>>

\* The unhandled subscription is rejected.  If it was answered after all, the
\* error ends the control reader.
RejectUnhandledSilently(r) ==
    /\ r \in handling \cap unhandled
    /\ handling' = {}
    /\ UNCHANGED <<subVars, nextAlias, local, localAlias, localCtx, closing, answering, unhandled, reader, toPub, toSub>>
RejectUnhandledTwice(r) ==
    /\ r \in handling \cap unhandled
    /\ handling' = {}
    /\ local' = [local EXCEPT ![r] = IF @ = "pending" THEN "rejected" ELSE @]
    /\ ToSub("SUBSCRIBE_ERROR", r, 0)
    /\ UNCHANGED <<subVars, nextAlias, localAlias, localCtx, closing, answering, unhandled, reader, toPub>>
RejectUnhandled(r) ==
    /\ r \in handling \cap unhandled
    /\ handling' = {}
    /\ IF local[r] = "pending"
       THEN RejectSubscription(r) /\ UNCHANGED reader
       ELSE Dies("publisher", "errUnknownRequestID") /\ UNCHANGED <<local, toSub>>
    /\ UNCHANGED <<subVars, nextAlias, localAlias, localCtx, closing, answering, unhandled, toPub>>

\* localTrack.unsubscribe cancels the context; the first cause stays.
OnUnsubscribeKeepsCtx ==
    /\ PubReads("UNSUBSCRIBE")
    /\ UNCHANGED <<subVars, pubVars, reader, toSub>>
OnUnsubscribe ==
    LET r == Head(toPub).id
    IN  /\ PubReads("UNSUBSCRIBE")
        /\ IF ~Known(r)
           THEN Dies("publisher", "errUnknownRequestID") /\ UNCHANGED localCtx
           ELSE /\ localCtx' = [localCtx EXCEPT ![r] = IF @ = "live" THEN "unsubscribed" ELSE @]
                /\ UNCHANGED reader
        /\ UNCHANGED <<subVars, nextAlias, local, localAlias, closing, handling, answering, unhandled, toSub>>

OnSubscribeUpdate ==
    LET r == Head(toPub).id
    IN  /\ PubReads("SUBSCRIBE_UPDATE")
        /\ IF Known(r) THEN UNCHANGED reader ELSE Dies("publisher", "errUnknownRequestID")
        /\ UNCHANGED <<subVars, pubVars, toSub>>

\* CloseWithError: localTrack.close cancels the context ...
CloseCancel(r) ==
    /\ local[r] = "open" /\ closing[r] = "no"
    /\ closing' = [closing EXCEPT ![r] = "cancelled"]
    /\ localCtx' = [localCtx EXCEPT ![r] = IF @ = "live" THEN "done" ELSE @]
    /\ UNCHANGED <<subVars, nextAlias, local, localAlias, handling, answering, unhandled, reader, toPub, toSub>>

\* ... then subscriptionDone deletes the track and writes SUBSCRIBE_DONE.
SubscriptionDoneUnsent(r) ==
    /\ closing[r] = "cancelled"
    /\ closing' = [closing EXCEPT ![r] = "yes"]
    /\ local' = [local EXCEPT ![r] = "closed"]
    /\ UNCHANGED <<subVars, nextAlias, localAlias, localCtx, handling, answering, unhandled, reader, toPub, toSub>>
SubscriptionDone(r) ==
    /\ closing[r] = "cancelled"
    /\ closing' = [closing EXCEPT ![r] = "yes"]
    /\ IF Known(r)
       THEN local' = [local EXCEPT ![r] = "closed"] /\ ToSub("SUBSCRIBE_DONE", r, 0)
       ELSE UNCHANGED <<local, toSub>>
    /\ UNCHANGED <<subVars, nextAlias, localAlias, localCtx, handling, answering, unhandled, reader, toPub>>

-----------------------------------------------------------------------------
SubReader == OnSubscribeOk \/ OnSubscribeError \/ OnSubscribeDone
PubReader == OnSubscribe \/ OnUnsubscribe \/ OnSubscribeUpdate

\* Steps of a call or a handler that is under way.
Proceeds(r) ==
    \/ \E ns \in Namespaces : SubscribeWrite(r, ns)
    \/ SubscribeResponse(r) \/ SubscribeReject(r)
    \/ HandlerReturn(r) \/ RejectUnhandled(r) \/ Accept(r) \/ Reject(r) \/ SubscriptionDone(r)

\* Steps the applications may or may not take.
Chooses(r) ==
    \/ SubscribeCall(r) \/ SubscribeCtxDone(r) \/ Unsubscribe(r) \/ UpdateSubscription(r)
    \/ Answer(r) \/ CloseCancel(r)

Next == SubReader \/ PubReader \/ \E r \in Requests : Proceeds(r) \/ Chooses(r)

Spec == Init /\ [][Next]_vars

\* Goroutines that can run do run; handlers return.
Fairness == WF_vars(SubReader) /\ WF_vars(PubReader) /\ \A r \in Requests : WF_vars(Proceeds(r))
FairSpec == Spec /\ Fairness

-----------------------------------------------------------------------------
\* Properties

\* Handlers answer, and before they return: no goroutine that outlives its
\* handler accepts or rejects the subscription.
Synchronous == unhandled = {} /\ \A r \in answering : local[r] = "pending" => r \in handling

\* A request gets at most one answer, wherever it is: on the control stream, in
\* the responseChan of its call or already returned.  So the send to
\* responseChan in onSubscribeOk and onSubscribeError never finds it full.
AtMostOneAnswer ==
    \A r \in Requests :
        LET underWay == {i \in 1..Len(toSub) : toSub[i].type \in Answers /\ toSub[i].id = r}
        IN  /\ \A i, j \in underWay : i = j
            /\ response[r] # "none" => underWay = {}
            /\ call[r] \in {"idle", "registered", "unsent", "established", "erring", "rejected"}
               => underWay = {} /\ response[r] = "none"

\* Subscribe returns a track only for a subscription the publisher accepted and
\* with the track open, and returns the peer's error only for one it rejected:
\* the two ends never disagree on the outcome of a call.
Agreement ==
    \A r \in Requests :
        /\ call[r] = "established" => remote[r] = "open" /\ local[r] \in {"open", "closed"}
        /\ call[r] \in {"erring", "rejected"} => remote[r] = "none" /\ local[r] = "rejected"

\* A control reader returns errUnknownRequestID for one of these reasons only:
\* at the subscriber, an answer or the end of a track came for a call that was
\* cancelled; at the publisher, UNSUBSCRIBE or SUBSCRIBE_UPDATE came for a
\* track it had closed, or a subscription was answered by another goroutine
\* while its handler returned.
UnknownOnlyAfterClose ==
    /\ reader["subscriber"] = "errUnknownRequestID" => \E r \in Requests : call[r] = "cancelled"
    /\ reader["publisher"] = "errUnknownRequestID" =>
          \/ \E r \in Requests : local[r] = "closed" /\ r \in unsubscribed \cup updated
          \/ unhandled \cap answering # {}

\* SUBSCRIBE_DONE never overtakes SUBSCRIBE_OK, and no track ends at the
\* subscriber before its publisher has closed it.
DoneAfterOk ==
    \A r \in Requests :
        remoteDone[r] => remote[r] = "open" /\ local[r] = "closed"

\* No track is left in remoteTracks without an owner but in two cases: SUBSCRIBE
\* could not be written, which leaves a pending track, and the call was
\* cancelled when its SUBSCRIBE_OK had been processed, which leaves an open one.
EntriesHaveOwners ==
    \A r \in Requests :
        /\ remote[r] = "pending" => call[r] \in {"registered", "waiting", "cancelling", "unsent"}
        /\ remote[r] = "open" /\ call[r] # "established" =>
              /\ call[r] \in {"waiting", "cancelling", "cancelled"}
              /\ response[r] = "nil" \/ reader["subscriber"] = "errDuplicateTrackAlias"

\* What a Subscribe call has learned, and the publisher has decided, as the
\* state of the contract.
Asked(r) ==
    CASE call[r] = "idle" -> "idle"
      [] call[r] \in {"registered", "waiting"} -> "asking"
      [] call[r] = "established" -> "established"
      [] call[r] \in {"erring", "rejected"} -> "refused"
      [] call[r] \in {"cancelling", "cancelled", "unsent"} -> "abandoned"

Decided(r) ==
    CASE local[r] \in {"none", "pending"} -> "open"
      [] local[r] = "open" -> "accepted"
      [] local[r] = "rejected" -> "refused"
      [] local[r] = "closed" -> "ended"

Contract == INSTANCE SubscriptionContract WITH
    asked <- [r \in Requests |-> Asked(r)],
    decided <- [r \in Requests |-> Decided(r)],
    ended <- remoteDone

\* Subscriptions over maps, channels and control streams implement the
\* contract: every call learns the publisher's decision, and only once.
ImplementsContract == Contract!Spec

\* setAlias never finds the alias taken: errDuplicateTrackAliasBug is an
\* "internal error" (remote_track_map.go).
NoDuplicateTrackAlias == reader["subscriber"] # "errDuplicateTrackAlias"

\* The answer to a call that was given up is dropped ("dropping unhandled
\* SubscribeOk response"), it does not end the control reader.
UnhandledAnswerIsDropped ==
    \A r \in Requests : call[r] = "cancelled" => reader["subscriber"] # "errUnknownRequestID"

\* Both control readers are alive.
Reading == reader = [s \in {"subscriber", "publisher"} |-> "reading"]

\* A Subscribe call that is waiting returns, unless a control reader has died
\* (session.go: Subscribe does not watch the session's context).
CallsReturn ==
    \A r \in Requests : call[r] = "waiting" ~> call[r] # "waiting" \/ ~Reading

\* RemoteTrack.Close reaches the publisher's track, unless a reader died.
UnsubscribeTakesEffect ==
    \A r \in Requests : r \in unsubscribed ~> localCtx[r] # "live" \/ ~Reading

\* The end of a track reaches the subscriber, unless a reader died.
DoneIsSeen ==
    \A r \in Requests : closing[r] = "cancelled" ~> remoteDone[r] \/ ~Reading
=============================================================================
