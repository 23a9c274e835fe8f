--------------------------- MODULE ExchangesProofs --------------------------
(***************************************************************************)
(* Safety of Exchanges, for any finite set of requests: the messages on    *)
(* the control streams, what ended the control readers, the inductive      *)
(* invariant as a whole, and what follows from it for the exchanges and    *)
(* for the data plane of fetches.                                          *)
(***************************************************************************)
EXTENDS Fetch, ExchangesInvariant

\* The messages on the control streams

\* A call keeps its kind and namespace, and once it has returned it stays so.
LEMMA CallsStay ==
    ASSUME TypeOK, [Next]_vars, NEW r \in Requests
    PROVE  /\ call'[r].kind = call[r].kind /\ call'[r].ns = call[r].ns
           /\ call[r].at \notin {"idle", "waiting"} => call'[r].at = call[r].at
           /\ call[r].at \notin {"idle", "unsent"} => call'[r].at \notin {"idle", "unsent"}
<1>1. \/ UNCHANGED call
      \/ \E s \in Requests :
            \/ call[s].at = "idle" /\ \E x \in {"waiting", "unsent"} : call' = [call EXCEPT ![s].at = x]
            \/ call[s].at = "waiting" /\ call' = [call EXCEPT ![s].at = "cancelled"]
            \/ TakeResponse(s)
  <2>1. CASE \E s \in Requests : Announce(s) \/ SubscribeAnnouncements(s) \/ RequestTrackStatus(s) \/ Fetch(s)
    BY Zenon, <2>1 DEF Announce, SubscribeAnnouncements, RequestTrackStatus, Fetch, Request
  <2>2. CASE \E s \in Requests : CallCtxDone(s) \/ CloseFetch(s)
    BY <2>2 DEF CallCtxDone, CloseFetch, requester
  <2>3. CASE RespReader
    BY <2>3 DEF RespReader, OnAnnounce, OnSubscribeAnnounces, OnTrackStatusRequest, OnFetch, OnUnannounce,
                OnUnsubscribeAnnounces, OnFetchCancel, OnBadNamespace, Calls, requester
  <2>4. CASE ReqReader
    <3>1. OnAnnounceCancel => UNCHANGED call
      BY DEF OnAnnounceCancel, requester
    <3>2. \A kind, ok, place, err : Answered(kind, ok, place, err) => UNCHANGED call
      BY DEF Answered
    <3>. QED  BY Zenon, <2>4, <3>1, <3>2, AnswerForms
  <2>5. CASE \E m \in handling : Handle(m)
    BY <2>5 DEF Handle, requester
  <2>6. CASE \E ns \in Named : Unannounce(ns) \/ UnsubscribeAnnouncements(ns) \/ AnnounceCancel(ns)
    BY Zenon, <2>6 DEF Unannounce, UnsubscribeAnnouncements, AnnounceCancel, requester
  <2>. QED  BY Zenon, <2>1, <2>2, <2>3, <2>4, <2>5, <2>6 DEF Next, vars
<1>2. call \in [Requests -> Call] /\ {"waiting", "unsent", "cancelled"} \subseteq CallStates
  BY DEF TypeOK, CallStates
<1>3. ASSUME NEW s \in Requests, TakeResponse(s)
      PROVE  /\ call[s].at = "waiting" /\ call'[s].at \in {"accepted", "refused"}
             /\ call'[s].kind = call[s].kind /\ call'[s].ns = call[s].ns
             /\ r # s => call'[r] = call[r]
  <2>1. PICK a \in response[s] :
           call' = [call EXCEPT ![s].at = IF a.ok THEN "accepted" ELSE "refused", ![s].got = {a.ns}]
    BY Zenon, <1>3 DEF TakeResponse
  <2>2. a \in Answer /\ call[s].at = "waiting"
    BY <1>3 DEF TypeOK, TakeResponse
  <2>3. /\ call'[s].at = (IF a.ok THEN "accepted" ELSE "refused") /\ call'[s].kind = call[s].kind
        /\ call'[s].ns = call[s].ns /\ (r # s => call'[r] = call[r])
    BY Zenon, <1>2, <2>1, <2>2, CallTakes
  <2>. QED  BY <2>2, <2>3
<1>4. ASSUME NEW s \in Requests, NEW x \in CallStates, call' = [call EXCEPT ![s].at = x]
      PROVE  /\ call'[s].at = x /\ call'[s].kind = call[s].kind /\ call'[s].ns = call[s].ns
             /\ r # s => call'[r] = call[r]
  BY <1>2, <1>4, CallMoves
<1>. QED  BY <1>1, <1>2, <1>3, <1>4

LEMMA FormsStay ==
    ASSUME TypeOK, [Next]_vars
    PROVE  Sendable' = Sendable /\ Answerable' = Answerable
<1>1. \A r \in Requests : call'[r].kind = call[r].kind /\ call'[r].ns = call[r].ns
  BY CallsStay
<1>2. Sendable' = Sendable
  BY <1>1 DEF Sendable
<1>3. Answerable' = Answerable
  BY <1>1 DEF Answerable
<1>. QED  BY <1>2, <1>3

LEMMA RequestSendable ==
    ASSUME TypeOK, NEW s \in Requests, NEW k \in AllKinds, NEW i \in Nat, call[s].kind = k, k \in Kept => i = s
    PROVE  Msg(k, k, i, call[s].ns, TRUE) \in Sendable /\ Msg(k, k, i, call[s].ns, TRUE) \notin Unannounces
<1> DEFINE m == Msg(k, k, i, call[s].ns, TRUE)
<1>1. call[s].ns \in Namespaces
  BY DEF TypeOK, Call
<1>2. m \in Message
  BY Zenon, <1>1, MsgType
<1>3. m.type = k /\ m.kind = k /\ m.id = i /\ m.ns = call[s].ns
  BY DEF Msg
<1> HIDE DEF m
<1>4. k # "FETCH_CANCEL" /\ k # "UNANNOUNCE"
  BY DEF AllKinds
<1>. QED  BY Zenon, <1>2, <1>3, <1>4 DEF m, Sendable, Unannounces

LEMMA OtherSendable ==
    ASSUME TypeOK, NEW t \in {"FETCH_CANCEL", "UNANNOUNCE", "UNSUBSCRIBE_ANNOUNCES"}, NEW k \in AllKinds, NEW i \in Requests,
           NEW ns \in Namespaces
    PROVE  Msg(t, k, i, ns, TRUE) \in Sendable /\ (Msg(t, k, i, ns, TRUE) \in Unannounces => t = "UNANNOUNCE")
<1> DEFINE m == Msg(t, k, i, ns, TRUE)
<1>1. m \in Message
  BY Zenon, ExchangesAssumption, MsgType
<1>2. m.type = t /\ m.id = i /\ t \notin AllKinds
  BY DEF Msg, AllKinds
<1> HIDE DEF m
<1>. QED  BY Zenon, <1>1, <1>2 DEF m, Sendable, Unannounces, Kept

\* The history of withdrawals and removals grows, and only a handler decides.
LEMMA HistoryGrows ==
    ASSUME TypeOK, [Next]_vars
    PROVE  /\ deleted \subseteq deleted' /\ removed \subseteq removed' /\ unannounced \subseteq unannounced'
           /\ UNCHANGED decided \/ \E m \in handling : Handle(m)
<1>1. CASE \E s \in Requests : \/ Announce(s) \/ SubscribeAnnouncements(s) \/ RequestTrackStatus(s) \/ Fetch(s)
                               \/ TakeResponse(s) \/ CallCtxDone(s) \/ CloseFetch(s)
  <2>1. UNCHANGED <<decided, deleted, removed, unannounced>>
    BY Zenon, <1>1 DEF Announce, SubscribeAnnouncements, RequestTrackStatus, Fetch, Request, TakeResponse, CallCtxDone,
                CloseFetch, history
  <2>. QED  BY <2>1
<1>2. CASE RespReader
  <2>1. UNCHANGED <<decided, deleted, unannounced>> /\ (UNCHANGED removed \/ \E r : removed' = removed \cup {r})
    BY Zenon, <1>2 DEF RespReader, OnAnnounce, OnSubscribeAnnounces, OnTrackStatusRequest, OnFetch, OnUnannounce,
                OnUnsubscribeAnnounces, OnFetchCancel, OnBadNamespace, Calls, history
  <2>. QED  BY <2>1
<1>3. CASE ReqReader
  <2>1. UNCHANGED <<decided, deleted, removed, unannounced>>
    BY Zenon, <1>3, AnswerForms DEF OnAnnounceCancel, Answered, history
  <2>. QED  BY <2>1
<1>4. CASE \E m \in handling : Handle(m)
  <2>1. UNCHANGED <<deleted, removed, unannounced>>
    BY <1>4 DEF Handle
  <2>. QED  BY <1>4, <2>1
<1>5. ASSUME NEW ns \in Named, Unannounce(ns) \/ UnsubscribeAnnouncements(ns) \/ AnnounceCancel(ns)
      PROVE  UNCHANGED decided /\ deleted \subseteq deleted' /\ removed \subseteq removed' /\ unannounced \subseteq unannounced'
  BY Zenon, <1>5 DEF Unannounce, UnsubscribeAnnouncements, AnnounceCancel
<1>6. CASE UNCHANGED vars
  BY <1>6 DEF vars
<1>. QED  BY Zenon, <1>1, <1>2, <1>3, <1>4, <1>5, <1>6 DEF Next

\* What was asked for and what was unannounced stay so, and so do the causes of
\* the messages.
LEMMA CausesStay ==
    ASSUME TypeOK, [Next]_vars
    PROVE  Asked \subseteq Asked' /\ unannounced \subseteq unannounced' /\ Uncaused' \subseteq Uncaused
<1>1. Asked \subseteq Asked'
  <2>1. ASSUME NEW r \in OfKind("TRACK_STATUS_REQUEST"), call[r].at \notin {"idle", "unsent"}
        PROVE  call[r].ns \in Asked'
    <3>1. r \in Requests /\ call[r].kind = "TRACK_STATUS_REQUEST"
      BY DEF OfKind
    <3>2. call'[r].kind = "TRACK_STATUS_REQUEST" /\ call'[r].ns = call[r].ns /\ call'[r].at \notin {"idle", "unsent"}
      BY <2>1, <3>1, CallsStay
    <3>. QED  BY <3>1, <3>2 DEF Asked, OfKind
  <2>. QED  BY <2>1 DEF Asked
<1>2. unannounced \subseteq unannounced'
  BY HistoryGrows
<1>3. Uncaused' \subseteq Uncaused
  BY Zenon, <1>1, <1>2 DEF Uncaused
<1>. QED  BY <1>1, <1>2, <1>3

LEMMA Caused ==
    ASSUME NEW t, NEW k, NEW i, NEW ns, NEW ok, k = "TRACK_STATUS_REQUEST" => ns \in Asked',
           t = "UNANNOUNCE" => \E u \in unannounced' : ~u.unknown /\ u.ns = ns
    PROVE  Msg(t, k, i, ns, ok) \notin Uncaused'
<1> DEFINE m == Msg(t, k, i, ns, ok)
<1>1. m.type = t /\ m.kind = k /\ m.ns = ns
  BY DEF Msg
<1> HIDE DEF m
<1>. QED  BY Zenon, <1>1 DEF m, Uncaused

\* What the steps do to the control stream to the responder ...
LEMMA RespStep ==
    ASSUME TypeOK, MessageInv, \A r \in Requests : RequestInv(r), [Next]_vars
    PROVE  \/ UNCHANGED toResp
           \/ RespTakes
           \/ \E m \in Sendable :
                 toResp' = Append(toResp, m) /\ (m \in Unannounces => withdraws' > 0) /\ m \notin Uncaused'
<1> DEFINE Goal == \/ UNCHANGED toResp
                   \/ RespTakes
                   \/ \E m \in Sendable :
                         toResp' = Append(toResp, m) /\ (m \in Unannounces => withdraws' > 0) /\ m \notin Uncaused'
<1>1. ASSUME NEW s \in Requests, Announce(s) \/ SubscribeAnnouncements(s) \/ RequestTrackStatus(s) \/ Fetch(s)
      PROVE  Goal
  <2>1. PICK k \in AllKinds, i \in {0, s} :
           /\ k \in Kept => i = s
           /\ call[s].kind = k
           /\ \/ UNCHANGED toResp
              \/ toResp' = Append(toResp, Msg(k, k, i, call[s].ns, TRUE)) /\ call' = [call EXCEPT ![s].at = "waiting"]
    BY Zenon, <1>1 DEF Announce, SubscribeAnnouncements, RequestTrackStatus, Fetch, Request, Kept, AllKinds
  <2>2. i \in Nat
    BY <2>1, ExchangesAssumption
  <2>3. Msg(k, k, i, call[s].ns, TRUE) \in Sendable /\ Msg(k, k, i, call[s].ns, TRUE) \notin Unannounces
    BY Zenon, <2>1, <2>2, RequestSendable
  <2>4. call' = [call EXCEPT ![s].at = "waiting"] => Msg(k, k, i, call[s].ns, TRUE) \notin Uncaused'
    <3> SUFFICES ASSUME call' = [call EXCEPT ![s].at = "waiting"] PROVE Msg(k, k, i, call[s].ns, TRUE) \notin Uncaused'
      OBVIOUS
    <3>1. call'[s].at = "waiting" /\ call'[s].kind = k /\ call'[s].ns = call[s].ns
      BY <2>1, CallMoves DEF TypeOK, CallStates
    <3>2. k = "TRACK_STATUS_REQUEST" => call[s].ns \in Asked'
      BY <3>1 DEF Asked, OfKind
    <3>3. k # "UNANNOUNCE"
      BY DEF AllKinds
    <3>. QED  BY <3>2, <3>3, Caused
  <2>. QED  BY Zenon, <2>1, <2>3, <2>4
<1>2. ASSUME NEW s \in Requests, FetchCancel(s)
      PROVE  Goal
  <2>1. call[s].ns \in Namespaces /\ "FETCH" \in AllKinds
    BY DEF TypeOK, Call, AllKinds
  <2>2. /\ Msg("FETCH_CANCEL", "FETCH", s, call[s].ns, TRUE) \in Sendable
        /\ Msg("FETCH_CANCEL", "FETCH", s, call[s].ns, TRUE) \notin Unannounces
    BY Zenon, <2>1, OtherSendable
  <2>3. Msg("FETCH_CANCEL", "FETCH", s, call[s].ns, TRUE) \notin Uncaused'
    BY Caused
  <2>. QED  BY Zenon, <1>2, <2>2, <2>3 DEF FetchCancel
<1>3. ASSUME NEW s \in Requests, TakeResponse(s) \/ CallCtxDone(s) \/ CloseFetch(s)
      PROVE  Goal
  <2>1. UNCHANGED toResp \/ FetchCancel(s)
    BY Zenon, <1>3 DEF TakeResponse, CallCtxDone, CloseFetch, FetchFails
  <2>. QED  BY <1>2, <2>1
<1>4. CASE RespReader
  BY <1>4 DEF RespReader, OnAnnounce, OnSubscribeAnnounces, OnTrackStatusRequest, OnFetch, OnUnannounce,
              OnUnsubscribeAnnounces, OnFetchCancel, OnBadNamespace, RespReads
<1>5. CASE ReqReader
  <2>1. OnAnnounceCancel => UNCHANGED toResp
    BY DEF OnAnnounceCancel
  <2>2. FindsPending(Head(toReq)) => Head(toReq).id \in Requests
    BY DEF FindsPending
  <2>. QED  BY Zenon, <1>2, <1>5, <2>1, <2>2, AnswerForms
<1>6. CASE \E m \in handling : Handle(m)
  BY <1>6 DEF Handle
<1>7. ASSUME NEW ns \in Namespaces, Unannounce(ns) \/ UnsubscribeAnnouncements(ns) \/ AnnounceCancel(ns)
      PROVE  Goal
  <2>1. withdraws' > 0
    <3>1. Withdraw
      BY Zenon, <1>7 DEF Unannounce, UnsubscribeAnnouncements, AnnounceCancel
    <3>. QED  BY <3>1, WithdrawType
  <2>2. \/ UNCHANGED toResp
        \/ /\ toResp' = Append(toResp, Msg("UNANNOUNCE", "ANNOUNCE", 0, ns, TRUE))
           /\ \E a \in BOOLEAN : unannounced' = unannounced \cup {[ns |-> ns, unknown |-> FALSE, announced |-> a]}
        \/ toResp' = Append(toResp, Msg("UNSUBSCRIBE_ANNOUNCES", "SUBSCRIBE_ANNOUNCES", 0, ns, TRUE))
    BY <1>7 DEF Unannounce, UnsubscribeAnnouncements, AnnounceCancel
  <2>3. /\ Msg("UNANNOUNCE", "ANNOUNCE", 0, ns, TRUE) \in Sendable
        /\ Msg("UNSUBSCRIBE_ANNOUNCES", "SUBSCRIBE_ANNOUNCES", 0, ns, TRUE) \in Sendable
    BY Zenon, ExchangesAssumption, OtherSendable DEF AllKinds
  <2>4. Msg("UNSUBSCRIBE_ANNOUNCES", "SUBSCRIBE_ANNOUNCES", 0, ns, TRUE) \notin Uncaused'
    BY Caused
  <2>5. ASSUME NEW a, unannounced' = unannounced \cup {[ns |-> ns, unknown |-> FALSE, announced |-> a]}
        PROVE  Msg("UNANNOUNCE", "ANNOUNCE", 0, ns, TRUE) \notin Uncaused'
    <3> DEFINE u == [ns |-> ns, unknown |-> FALSE, announced |-> a]
    <3>1. u \in unannounced'
      BY Zenon, <2>5
    <3>2. ~u.unknown /\ u.ns = ns
      OBVIOUS
    <3> HIDE DEF u
    <3>3. \E v \in unannounced' : ~v.unknown /\ v.ns = ns
      BY Zenon, <3>1, <3>2
    <3>. QED  BY <3>3, Caused
  <2>. QED  BY Zenon, <2>1, <2>2, <2>3, <2>4, <2>5
<1>8. Named \subseteq Namespaces
  BY DEF Named, TypeOK, Call
<1>. QED  BY Zenon, <1>1, <1>3, <1>4, <1>5, <1>6, <1>7, <1>8 DEF Next, vars

\* ... to that to the requester ...
LEMMA ReqStep ==
    ASSUME TypeOK, MessageInv, CauseInv, [Next]_vars
    PROVE  \/ UNCHANGED toReq
           \/ \E t : ReqReads(t)
           \/ \E m \in Answerable : toReq' = Append(toReq, m) /\ m \notin Uncaused'
<1> DEFINE Goal == \/ UNCHANGED toReq
                   \/ \E t : ReqReads(t)
                   \/ \E m \in Answerable : toReq' = Append(toReq, m) /\ m \notin Uncaused'
<1>1. CASE \E s \in Requests : \/ Announce(s) \/ SubscribeAnnouncements(s) \/ RequestTrackStatus(s) \/ Fetch(s)
                               \/ TakeResponse(s) \/ CallCtxDone(s) \/ CloseFetch(s)
  BY Zenon, <1>1 DEF Announce, SubscribeAnnouncements, RequestTrackStatus, Fetch, Request, TakeResponse, CallCtxDone, CloseFetch
<1>2. CASE RespReader
  BY <1>2 DEF RespReader, OnAnnounce, OnSubscribeAnnounces, OnTrackStatusRequest, OnFetch, OnUnannounce,
              OnUnsubscribeAnnounces, OnFetchCancel, OnBadNamespace, Calls
<1>3. CASE ReqReader
  BY Zenon, <1>3, AnswerForms DEF OnAnnounceCancel, Answered
<1>4. ASSUME NEW m \in handling, Handle(m)
      PROVE  Goal
  <2>1. m \in Sendable /\ m.type \in AllKinds
    BY DEF MessageInv
  <2>2. /\ m \in Message /\ m.kind = m.type
        /\ m.type \in Kept => m.id \in Requests /\ m.type = call[m.id].kind /\ m.ns = call[m.id].ns
    BY <2>1 DEF Sendable
  <2>3. \/ UNCHANGED toReq
        \/ m.kind \in Kept /\ \E ok \in BOOLEAN : toReq' = Append(toReq, Msg("ANSWER", m.kind, m.id, m.ns, ok))
        \/ m.kind \notin Kept /\ toReq' = Append(toReq, Msg("ANSWER", m.kind, 0, m.ns, TRUE))
    BY Zenon, <1>4 DEF Handle, AcceptAnnouncement, RejectAnnouncement, AcceptAnnouncementSubscription,
                RejectAnnouncementSubscription, AcceptFetch, RejectFetch, SendTrackStatus, SendAnswer, Kept, AllKinds
  <2>4. ASSUME NEW i \in Nat, NEW ok \in BOOLEAN, IF m.kind \in Kept THEN i = m.id ELSE i = 0
        PROVE  Msg("ANSWER", m.kind, i, m.ns, ok) \in Answerable
    <3> DEFINE a == Msg("ANSWER", m.kind, i, m.ns, ok)
    <3>1. m.kind \in AllKinds /\ m.ns \in Namespaces
      BY <2>2 DEF Message
    <3>2. a \in Message
      BY Zenon, <3>1, MsgType
    <3>3. a.kind = m.kind /\ a.id = i /\ a.ns = m.ns
      BY DEF Msg
    <3> HIDE DEF a
    <3>. QED  BY <2>2, <2>4, <3>2, <3>3 DEF a, Answerable
  <2>5. m.id \in Nat
    BY <2>2 DEF Message
  <2>6. \A i, ok : Msg("ANSWER", m.kind, i, m.ns, ok) \notin Uncaused'
    <3>1. m.kind = "TRACK_STATUS_REQUEST" => m.ns \in Asked'
      BY Zenon, <2>2, CausesStay DEF CauseInv, Uncaused
    <3>. QED  BY <3>1, Caused
  <2>. QED  BY Zenon, <2>3, <2>4, <2>5, <2>6
<1>5. ASSUME NEW ns \in Namespaces, Unannounce(ns) \/ UnsubscribeAnnouncements(ns) \/ AnnounceCancel(ns)
      PROVE  Goal
  <2>1. UNCHANGED toReq \/ toReq' = Append(toReq, Msg("ANNOUNCE_CANCEL", "ANNOUNCE", 0, ns, TRUE))
    BY Zenon, <1>5 DEF Unannounce, UnsubscribeAnnouncements, AnnounceCancel
  <2>2. Msg("ANNOUNCE_CANCEL", "ANNOUNCE", 0, ns, TRUE) \in Message
    BY Zenon, MsgType DEF AllKinds
  <2>3. Msg("ANNOUNCE_CANCEL", "ANNOUNCE", 0, ns, TRUE) \in Answerable
    <3>1. Msg("ANNOUNCE_CANCEL", "ANNOUNCE", 0, ns, TRUE).type # "ANSWER"
      BY DEF Msg
    <3>. QED  BY Zenon, <2>2, <3>1 DEF Answerable
  <2>4. Msg("ANNOUNCE_CANCEL", "ANNOUNCE", 0, ns, TRUE) \notin Uncaused'
    BY Caused
  <2>. QED  BY Zenon, <2>1, <2>3, <2>4
<1>6. Named \subseteq Namespaces
  BY DEF Named, TypeOK, Call
<1>. QED  BY Zenon, <1>1, <1>2, <1>3, <1>4, <1>5, <1>6 DEF Next, vars

\* ... and to the running handler.
LEMMA HandlingStep ==
    ASSUME TypeOK, MessageInv, [Next]_vars
    PROVE  \/ UNCHANGED handling
           \/ handling' = {}
           \/ RespTakes /\ handling' = {Head(toResp)} /\ Head(toResp).type \in AllKinds
<1>1. CASE \E s \in Requests : \/ Announce(s) \/ SubscribeAnnouncements(s) \/ RequestTrackStatus(s) \/ Fetch(s)
                               \/ TakeResponse(s) \/ CallCtxDone(s) \/ CloseFetch(s)
  BY Zenon, <1>1 DEF Announce, SubscribeAnnouncements, RequestTrackStatus, Fetch, Request, TakeResponse, CallCtxDone, CloseFetch
<1>2. CASE RespReader
  BY <1>2 DEF RespReader, OnAnnounce, OnSubscribeAnnounces, OnTrackStatusRequest, OnFetch, OnUnannounce,
              OnUnsubscribeAnnounces, OnFetchCancel, OnBadNamespace, Calls, RespReads, AllKinds
<1>3. CASE ReqReader
  BY Zenon, <1>3, AnswerForms DEF OnAnnounceCancel, Answered
<1>4. CASE \E m \in handling : Handle(m)
  BY <1>4 DEF Handle
<1>5. CASE \E ns \in Named : Unannounce(ns) \/ UnsubscribeAnnouncements(ns) \/ AnnounceCancel(ns)
  BY Zenon, <1>5 DEF Unannounce, UnsubscribeAnnouncements, AnnounceCancel
<1>. QED  BY Zenon, <1>1, <1>2, <1>3, <1>4, <1>5 DEF Next, vars

LEMMA WithdrawsGrow ==
    ASSUME TypeOK, [Next]_vars
    PROVE  (withdraws > 0 => withdraws' > 0) /\ (withdraws > 1 => withdraws' > 1)
<1>1. UNCHANGED withdraws \/ Withdraw
  <2>1. CASE \E s \in Requests : \/ Announce(s) \/ SubscribeAnnouncements(s) \/ RequestTrackStatus(s) \/ Fetch(s)
                                 \/ TakeResponse(s) \/ CallCtxDone(s) \/ CloseFetch(s)
    BY Zenon, <2>1 DEF Announce, SubscribeAnnouncements, RequestTrackStatus, Fetch, Request, TakeResponse, CallCtxDone, CloseFetch
  <2>2. CASE RespReader
    BY <2>2 DEF RespReader, OnAnnounce, OnSubscribeAnnounces, OnTrackStatusRequest, OnFetch, OnUnannounce,
                OnUnsubscribeAnnounces, OnFetchCancel, OnBadNamespace, Calls
  <2>3. CASE ReqReader
    BY Zenon, <2>3, AnswerForms DEF OnAnnounceCancel, Answered
  <2>4. CASE \E m \in handling : Handle(m)
    BY <2>4 DEF Handle
  <2>5. CASE \E ns \in Named : Unannounce(ns) \/ UnsubscribeAnnouncements(ns) \/ AnnounceCancel(ns)
    BY Zenon, <2>5 DEF Unannounce, UnsubscribeAnnouncements, AnnounceCancel
  <2>. QED  BY Zenon, <2>1, <2>2, <2>3, <2>4, <2>5 DEF Next, vars
<1>. QED  BY <1>1, WithdrawType

LEMMA MessageInductive ==
    ASSUME TypeOK, MessageInv, CauseInv, \A r \in Requests : RequestInv(r), [Next]_vars
    PROVE  MessageInv'
<1>1. Sendable' = Sendable /\ Answerable' = Answerable
  BY FormsStay
<1>2. toResp \in Seq(Sendable) /\ toReq \in Seq(Answerable) /\ (Has(toResp, Unannounces) => withdraws > 0)
  BY DEF MessageInv
<1>3. toResp' \in Seq(Sendable) /\ (Has(toResp', Unannounces) => withdraws' > 0)
  <2>1. CASE UNCHANGED toResp
    BY Zenon, <1>2, <2>1, WithdrawsGrow
  <2>2. CASE RespTakes
    BY Zenon, <1>2, <2>2, RespHead, WithdrawsGrow
  <2>3. ASSUME NEW m \in Sendable, toResp' = Append(toResp, m), m \in Unannounces => withdraws' > 0
        PROVE  toResp' \in Seq(Sendable) /\ (Has(toResp', Unannounces) => withdraws' > 0)
    <3>1. toResp' \in Seq(Sendable) /\ \A M : Has(toResp', M) <=> Has(toResp, M) \/ m \in M
      BY <1>2, <2>3, Written
    <3>. QED  BY Zenon, <1>2, <2>3, <3>1, WithdrawsGrow
  <2>. QED  BY Zenon, <2>1, <2>2, <2>3, RespStep
<1>4. toReq' \in Seq(Answerable)
  BY Zenon, <1>2, ReqStep, ReqHead, AppendType
<1>5. handling' \subseteq {m \in Sendable : m.type \in AllKinds} /\ \A m, n \in handling' : m = n
  <2>1. CASE UNCHANGED handling
    BY Zenon, <2>1 DEF MessageInv
  <2>2. CASE handling' = {}
    BY <2>2
  <2>3. CASE RespTakes /\ handling' = {Head(toResp)} /\ Head(toResp).type \in AllKinds
    BY <2>3, RespHead
  <2>. QED  BY <2>1, <2>2, <2>3, HandlingStep
<1>. QED  BY Zenon, <1>1, <1>3, <1>4, <1>5 DEF MessageInv, Unannounces

LEMMA CauseInductive ==
    ASSUME TypeOK, MessageInv, CauseInv, \A r \in Requests : RequestInv(r), [Next]_vars
    PROVE  CauseInv'
<1>1. /\ ~Has(toResp, Uncaused') /\ ~Has(toReq, Uncaused') /\ \A m \in handling : m \notin Uncaused'
  BY Zenon, CausesStay DEF CauseInv, Has
<1>2. toResp \in Seq(Message) /\ toReq \in Seq(Message)
  BY DEF TypeOK
<1>3. ASSUME RespTakes PROVE ~Has(toResp', Uncaused') /\ Head(toResp) \notin Uncaused'
  <2>1. toResp # <<>> /\ toResp' = Tail(toResp)
    BY <1>3 DEF RespTakes
  <2>2. \A M : Has(toResp, M) <=> Has(toResp', M) \/ Head(toResp) \in M
    BY <1>2, <2>1, ReadOff
  <2>. QED  BY Zenon, <1>1, <2>2
<1>4. ~Has(toResp', Uncaused')
  <2>1. ASSUME NEW m \in Sendable, toResp' = Append(toResp, m), m \notin Uncaused' PROVE ~Has(toResp', Uncaused')
    <3>1. m \in Message
      BY DEF Sendable
    <3>2. \A M : Has(toResp', M) <=> Has(toResp, M) \/ m \in M
      BY <1>2, <2>1, <3>1, Written
    <3>. QED  BY Zenon, <1>1, <2>1, <3>2
  <2>. QED  BY Zenon, <1>1, <1>3, <2>1, RespStep
<1>5. ~Has(toReq', Uncaused')
  <2>1. ASSUME NEW m \in Answerable, toReq' = Append(toReq, m), m \notin Uncaused' PROVE ~Has(toReq', Uncaused')
    <3>1. m \in Message
      BY DEF Answerable
    <3>2. \A M : Has(toReq', M) <=> Has(toReq, M) \/ m \in M
      BY <1>2, <2>1, <3>1, Written
    <3>. QED  BY Zenon, <1>1, <2>1, <3>2
  <2>2. ASSUME NEW t, ReqReads(t) PROVE ~Has(toReq', Uncaused')
    <3>1. toReq # <<>> /\ toReq' = Tail(toReq)
      BY <2>2 DEF ReqReads
    <3>2. \A M : Has(toReq, M) <=> Has(toReq', M) \/ Head(toReq) \in M
      BY <1>2, <3>1, ReadOff
    <3>. QED  BY Zenon, <1>1, <3>2
  <2>. QED  BY Zenon, <1>1, <2>1, <2>2, ReqStep
<1>6. \A m \in handling' : m \notin Uncaused'
  BY <1>1, <1>3, HandlingStep
<1>. QED  BY Zenon, <1>4, <1>5, <1>6 DEF CauseInv

-----------------------------------------------------------------------------
\* What ended the control readers

\* An answer to a status request is about request 0, and a status asked for.
LEMMA StatusHead ==
    ASSUME TypeOK, MessageInv, CauseInv, ReqReads("ANSWER"), Head(toReq).kind = "TRACK_STATUS_REQUEST"
    PROVE  Head(toReq).id = 0 /\ Head(toReq).ns \in Asked
<1>1. Head(toReq) \in Answerable /\ Head(toReq) \in Message /\ Head(toReq).type = "ANSWER"
  BY ReqHead
<1>2. Head(toReq).id = 0
  BY <1>1 DEF Answerable, Kept
<1>3. Head(toReq) \notin Uncaused
  <2>1. toReq \in Seq(Message) /\ toReq # <<>>
    BY DEF TypeOK, ReqReads
  <2>2. \A M : Has(toReq, M) <=> Has(Tail(toReq), M) \/ Head(toReq) \in M
    BY <2>1, ReadOff
  <2>. QED  BY Zenon, <2>2 DEF CauseInv
<1>. QED  BY Zenon, <1>1, <1>2, <1>3 DEF Uncaused

\* An answer that finds no entry is about a request that was withdrawn while it
\* was pending, about a fetch that was cancelled, or about a status request when
\* request 0 is none.
LostAnswer(err) ==
    \/ err \in {"errUnknownAnnouncement", "errUnknownSubscribeAnnouncesPrefix"} /\ deleted # {}
    \/ err = "errUnknownRequestID" /\ \E r \in OfKind("FETCH") : call[r].at = "cancelled"
    \/ err = "errUnknownTrackStatusRequest" /\ 0 \notin OfKind("TRACK_STATUS_REQUEST")

LEMMA ReqReaderDies ==
    ASSUME TypeOK, MessageInv, CauseInv, StatusInv, \A r \in Requests : RequestInv(r), ReqReader
    PROVE  /\ reader'["responder"] = reader["responder"]
           /\ \/ reader'["requester"] \in {reader["requester"], "errLengthMismatch"}
              \/ LostAnswer(reader'["requester"])
<1>1. reader \in [{"requester", "responder"} -> {"reading"} \cup Errors]
  BY DEF TypeOK
<1>2. CASE OnAnnounceCancel
  BY <1>1, <1>2 DEF OnAnnounceCancel
<1>3. ASSUME NEW kind, NEW ok, NEW place, NEW err, AnswerForm(kind, ok, place, err), Answered(kind, ok, place, err)
      PROVE  /\ reader'["responder"] = reader["responder"]
             /\ reader'["requester"] = reader["requester"] \/ LostAnswer(reader'["requester"])
  <2>1. CASE FindsPending(Head(toReq))
    <3>1. UNCHANGED reader
      BY <1>3, <2>1 DEF Answered
    <3>. QED  BY <3>1
  <2>2. CASE ~FindsPending(Head(toReq))
    <3>1. reader' = [reader EXCEPT !["requester"] = err] /\ ReqReads("ANSWER") /\ Head(toReq).kind = kind
      BY <1>3, <2>2 DEF Answered
    <3>2. reader'["requester"] = err /\ reader'["responder"] = reader["responder"]
      BY <1>1, <3>1
    <3>3. CASE kind \notin Kept
      <4>1. err = "errUnknownTrackStatusRequest" /\ kind = "TRACK_STATUS_REQUEST"
        BY <1>3, <3>3 DEF AnswerForm, Kept, AllKinds
      <4>2. Head(toReq).id = 0 /\ Head(toReq).ns \in Asked
        BY <3>1, <3>3, <4>1, StatusHead
      <4>3. ASSUME 0 \in OfKind("TRACK_STATUS_REQUEST") PROVE FALSE
        <5>1. PICK r \in Requests : call[r].at \notin {"idle", "unsent"}
          BY <4>2 DEF Asked, OfKind
        <5>2. call[0].at # "idle" /\ out[0] = "pending"
          BY <4>3, <5>1 DEF StatusInv
        <5>. QED  BY <2>2, <3>1, <4>1, <4>2, <4>3, <5>2 DEF FindsPending, OfKind
      <4>. QED  BY Zenon, <3>2, <4>1, <4>3 DEF LostAnswer
    <3>4. CASE kind \in Kept
      <4> DEFINE s == Head(toReq).id
      <4>1. s \in Requests /\ kind = call[s].kind /\ Findable(s)
        BY <3>1, <3>4, AnswerFinds
      <4>2. out[s] # "pending"
        BY <2>2, <3>1, <4>1 DEF FindsPending
      <4> HIDE DEF s
      <4>3. CASE kind = "FETCH"
        <5>1. call[s].at = "cancelled" /\ s \in OfKind("FETCH")
          BY Zenon, <4>1, <4>2, <4>3 DEF Findable, OfKind
        <5>2. err = "errUnknownRequestID"
          BY <1>3, <4>3 DEF AnswerForm
        <5>. QED  BY Zenon, <3>2, <5>1, <5>2 DEF LostAnswer
      <4>4. CASE kind # "FETCH"
        <5>1. s \in deleted
          BY <4>1, <4>2, <4>4 DEF Findable
        <5>2. err \in {"errUnknownAnnouncement", "errUnknownSubscribeAnnouncesPrefix"}
          BY <1>3, <3>4, <4>4 DEF AnswerForm, Kept, AllKinds
        <5>. QED  BY <3>2, <5>1, <5>2 DEF LostAnswer
      <4>. QED  BY <4>3, <4>4
    <3>. QED  BY <3>3, <3>4
  <2>. QED  BY <2>1, <2>2
<1>4. OnAnnounceCancel \/ \E kind, ok, place, err : AnswerForm(kind, ok, place, err) /\ Answered(kind, ok, place, err)
  BY Zenon, AnswerForms
<1>. QED  BY <1>2, <1>3, <1>4

\* FETCH_CANCEL finds no entry after a rejection or after two withdrawals, and
\* UNANNOUNCE none if everything accepted for its namespace was removed.
LostMessage(err) ==
    \/ err = "errUnknownRequestID" /\ (withdraws > 1 \/ \E r \in OfKind("FETCH") : decided[r] = "reject")
    \/ /\ err = "errUnknownAnnouncement"
       /\ \E u \in unannounced : ~u.unknown /\ \A r \in OfKind("ANNOUNCE") :
             call[r].ns = u.ns /\ decided[r] = "accept" => r \in removed

LEMMA RespReaderDies ==
    ASSUME TypeOK, MessageInv, CauseInv, RemovedInv, \A r \in Requests : RequestInv(r), RespReader
    PROVE  /\ reader'["requester"] = reader["requester"]
           /\ \/ reader'["responder"] \in {reader["responder"], "errInvalidNamespaceLength"}
              \/ LostMessage(reader'["responder"])
<1>1. reader \in [{"requester", "responder"} -> {"reading"} \cup Errors]
  BY DEF TypeOK
<1>2. CASE OnFetchCancel
  <2> DEFINE s == Head(toResp).id
  <2>1. s \in Requests
    <3>1. RespTakes /\ Head(toResp).type = "FETCH_CANCEL"
      BY <1>2 DEF OnFetchCancel, RespReads
    <3>2. Head(toResp) \in Sendable
      BY <3>1, RespHead
    <3>. QED  BY <3>1, <3>2 DEF Sendable
  <2>2. /\ call[s].kind = "FETCH" /\ decided[s] \in {"accept", "reject"}
        /\ decided[s] = "accept" => incoming[s] = "announced" \/ withdraws > 1
    BY <1>2, <2>1, CancelArrives
  <2>3. UNCHANGED reader \/ (incoming[s] = "none" /\ reader' = [reader EXCEPT !["responder"] = "errUnknownRequestID"])
    BY <1>2 DEF OnFetchCancel
  <2>. QED  BY <1>1, <2>1, <2>2, <2>3 DEF LostMessage, OfKind
<1>3. CASE OnUnannounce
  <2> DEFINE m == Head(toResp)
  <2>1. RespTakes /\ m.type = "UNANNOUNCE"
    BY <1>3 DEF OnUnannounce, RespReads
  <2>2. m \in Message /\ m \notin Uncaused
    <3>1. toResp \in Seq(Message) /\ toResp # <<>>
      BY <2>1 DEF TypeOK, RespTakes
    <3>2. Head(toResp) \in Message /\ \A M : Has(toResp, M) <=> Has(Tail(toResp), M) \/ Head(toResp) \in M
      BY <3>1, ReadOff
    <3>. QED  BY Zenon, <3>2 DEF CauseInv
  <2>3. PICK u \in unannounced : ~u.unknown /\ u.ns = m.ns
    BY Zenon, <2>1, <2>2 DEF Uncaused
  <2>4. \/ UNCHANGED reader
        \/ reader' = [reader EXCEPT !["responder"] = "errUnknownAnnouncement"] /\ Deletes(incoming, "ANNOUNCE", m.ns) = {}
    BY <1>3 DEF OnUnannounce
  <2>5. ASSUME Deletes(incoming, "ANNOUNCE", m.ns) = {}, NEW r \in OfKind("ANNOUNCE"), call[r].ns = u.ns, decided[r] = "accept"
        PROVE  r \in removed
    <3>1. incoming[r] # "announced"
      BY <2>3, <2>5 DEF Deletes, OfKind
    <3>. QED  BY <2>5, <3>1 DEF RemovedInv
  <2>6. Deletes(incoming, "ANNOUNCE", m.ns) = {} => LostMessage("errUnknownAnnouncement")
    BY Zenon, <2>3, <2>5 DEF LostMessage
  <2>. QED  BY <1>1, <2>4, <2>6
<1>4. CASE ~OnFetchCancel /\ ~OnUnannounce
  <2>1. UNCHANGED reader \/ reader' = [reader EXCEPT !["responder"] = "errInvalidNamespaceLength"]
    BY <1>4 DEF RespReader, OnAnnounce, OnSubscribeAnnounces, OnTrackStatusRequest, OnFetch,
                OnUnsubscribeAnnounces, OnBadNamespace, Calls
  <2>. QED  BY <1>1, <2>1
<1>. QED  BY <1>2, <1>3, <1>4

\* Only the readers themselves end.
LEMMA ReaderStep ==
    ASSUME [Next]_vars
    PROVE  UNCHANGED reader \/ RespReader \/ ReqReader
<1>1. CASE \E s \in Requests : \/ Announce(s) \/ SubscribeAnnouncements(s) \/ RequestTrackStatus(s) \/ Fetch(s)
                               \/ TakeResponse(s) \/ CallCtxDone(s) \/ CloseFetch(s)
  BY Zenon, <1>1 DEF Announce, SubscribeAnnouncements, RequestTrackStatus, Fetch, Request, TakeResponse, CallCtxDone, CloseFetch
<1>2. CASE \E ns \in Named : Unannounce(ns) \/ UnsubscribeAnnouncements(ns) \/ AnnounceCancel(ns)
  BY Zenon, <1>2 DEF Unannounce, UnsubscribeAnnouncements, AnnounceCancel
<1>3. CASE \E m \in handling : Handle(m)
  BY <1>3 DEF Handle
<1>. QED  BY Zenon, <1>1, <1>2, <1>3 DEF Next, vars

\* The handler of a request decides once.
LEMMA DecisionsStay ==
    ASSUME TypeOK, MessageInv, \A r \in Requests : RequestInv(r), [Next]_vars
    PROVE  \A r \in Requests : decided[r] # "nothing" => decided'[r] = decided[r]
<1>1. ASSUME NEW m \in handling, Handle(m)
      PROVE  \A r \in Requests : decided[r] # "nothing" => decided'[r] = decided[r]
  <2>1. UNCHANGED decided \/ (m.kind \in Kept /\ \E d : decided' = [decided EXCEPT ![m.id] = d])
    BY Zenon, <1>1 DEF Handle, AcceptAnnouncement, RejectAnnouncement, AcceptAnnouncementSubscription,
                RejectAnnouncementSubscription, AcceptFetch, RejectFetch, SendTrackStatus, SendAnswer, Kept, AllKinds
  <2>2. m \in Message /\ m.kind = m.type /\ (m.type \in Kept => m.id \in Requests)
    <3>1. m \in Sendable /\ m.type \in AllKinds
      BY DEF MessageInv
    <3>. QED  BY <3>1 DEF Sendable
  <2>3. m.kind \in Kept => decided[m.id] = "nothing"
    <3>1. m.kind \in Kept => Underway(m.id)
      BY Zenon, <2>2, MessageKinds DEF Underway, Handled
    <3>. QED  BY Zenon, <2>2, <3>1 DEF RequestInv, StreamInv
  <2>. QED  BY <2>1, <2>3 DEF TypeOK
<1>. QED  BY Zenon, <1>1, HistoryGrows

LEMMA UnknownInductive ==
    ASSUME TypeOK, MessageInv, CauseInv, StatusInv, RemovedInv, \A r \in Requests : RequestInv(r),
           UnknownOnlyAfterWithdrawal, [Next]_vars
    PROVE  UnknownOnlyAfterWithdrawal'
<1>1. /\ \A k : OfKind(k)' = OfKind(k)
      /\ \A r \in Requests : call'[r].ns = call[r].ns /\ (call[r].at = "cancelled" => call'[r].at = "cancelled")
  BY CallsStay DEF OfKind
<1>2. /\ withdraws > 1 => withdraws' > 1
      /\ deleted \subseteq deleted' /\ removed \subseteq removed' /\ unannounced \subseteq unannounced'
      /\ \A r \in Requests : decided[r] = "reject" => decided'[r] = "reject"
  BY WithdrawsGrow, HistoryGrows, DecisionsStay
<1>3. \/ reader'["requester"] \in {reader["requester"], "errLengthMismatch"}
      \/ LostAnswer(reader'["requester"])
  BY ReaderStep, ReqReaderDies, RespReaderDies
<1>4. \/ reader'["responder"] \in {reader["responder"], "errInvalidNamespaceLength"}
      \/ LostMessage(reader'["responder"]) /\ UNCHANGED decided
  <2>1. RespReader => UNCHANGED decided
    BY Zenon DEF RespReader, OnAnnounce, OnSubscribeAnnounces, OnTrackStatusRequest, OnFetch, OnUnannounce,
                 OnUnsubscribeAnnounces, OnFetchCancel, OnBadNamespace, Calls, history
  <2>. QED  BY <2>1, ReaderStep, ReqReaderDies, RespReaderDies
<1>5. reader["responder"] # "reading" => UNCHANGED decided
  BY HistoryGrows DEF RemovedInv
<1>6. /\ reader'["requester"] \in {"errUnknownAnnouncement", "errUnknownSubscribeAnnouncesPrefix"} => deleted' # {}
      /\ reader'["requester"] = "errUnknownRequestID" => \E r \in OfKind("FETCH")' : call'[r].at = "cancelled"
  BY <1>1, <1>2, <1>3 DEF UnknownOnlyAfterWithdrawal, LostAnswer, OfKind
<1>7. reader'["responder"] = "errUnknownRequestID" =>
         withdraws' > 1 \/ \E r \in OfKind("FETCH")' : decided'[r] = "reject"
  BY <1>1, <1>2, <1>4 DEF UnknownOnlyAfterWithdrawal, LostMessage, OfKind
<1>8. ASSUME reader'["responder"] = "errUnknownAnnouncement"
      PROVE  \E u \in unannounced' : ~u.unknown /\ \A r \in OfKind("ANNOUNCE")' :
                call'[r].ns = u.ns /\ decided'[r] = "accept" => r \in removed'
  <2>1. /\ UNCHANGED decided
        /\ \E u \in unannounced : ~u.unknown /\ \A r \in OfKind("ANNOUNCE") :
              call[r].ns = u.ns /\ decided[r] = "accept" => r \in removed
    BY <1>4, <1>5, <1>8 DEF UnknownOnlyAfterWithdrawal, LostMessage
  <2>2. OfKind("ANNOUNCE") \subseteq Requests /\ OfKind("ANNOUNCE")' = OfKind("ANNOUNCE")
    BY <1>1 DEF OfKind
  <2>3. PICK u \in unannounced : ~u.unknown /\ \A r \in OfKind("ANNOUNCE") :
           call[r].ns = u.ns /\ decided[r] = "accept" => r \in removed
    BY <2>1
  <2>4. ASSUME NEW r \in OfKind("ANNOUNCE"), call'[r].ns = u.ns, decided'[r] = "accept" PROVE r \in removed'
    <3>1. call[r].ns = u.ns /\ decided[r] = "accept"
      BY Zenon, <1>1, <2>1, <2>2, <2>4
    <3>. QED  BY Zenon, <1>2, <2>3, <3>1
  <2>5. u \in unannounced'
    BY Zenon, <1>2
  <2>. QED  BY Zenon, <2>2, <2>3, <2>4, <2>5
<1>. QED  BY Zenon, <1>6, <1>7, <1>8 DEF UnknownOnlyAfterWithdrawal

-----------------------------------------------------------------------------
\* Track status requests

StatusOf(r) ==
    /\ \A a \in response[r] : a.ns \in Asked
    /\ call[r].at # "idle" => out[r] = "pending"
    /\ call[r].at = "accepted" => \E ns \in Asked : call[r].got = {ns}

\* What a step does to a status request.
LEMMA StatusStep ==
    ASSUME TypeOK, MessageInv, CauseInv, [Next]_vars, NEW r \in OfKind("TRACK_STATUS_REQUEST"), StatusOf(r)
    PROVE  StatusOf(r)'
<1>1. /\ r \in Requests /\ call[r].kind = "TRACK_STATUS_REQUEST" /\ Asked \subseteq Asked'
      /\ call \in [Requests -> Call] /\ out \in [Requests -> Places] /\ response \in [Requests -> SUBSET Answer]
  BY CausesStay DEF OfKind, TypeOK
<1>2. ASSUME call'[r] = call[r], out'[r] = out[r], response'[r] = response[r] PROVE StatusOf(r)'
  BY Zenon, <1>1, <1>2 DEF StatusOf
<1>3. ASSUME NEW s \in Requests, NEW k, NEW m, NEW place, Request(s, k, m, place), k = "TRACK_STATUS_REQUEST" => place = "pending"
      PROVE  StatusOf(r)'
  <2>1. PICK x \in {"waiting", "unsent"}, y \in {"pending", place} :
           call' = [call EXCEPT ![s].at = x] /\ out' = [out EXCEPT ![s] = y]
    BY Zenon, <1>3 DEF Request
  <2>2. call[s].at = "idle" /\ call[s].kind = k /\ UNCHANGED response /\ x \in CallStates
    BY <1>3, <2>1 DEF Request, CallStates
  <2>3. call'[s].at = x /\ (r # s => call'[r] = call[r])
    BY <1>1, <2>1, <2>2, CallMoves
  <2>4. out'[s] = y /\ (r # s => out'[r] = out[r])
    BY <1>1, <2>1
  <2>. QED  BY <1>1, <1>2, <1>3, <2>1, <2>2, <2>3, <2>4 DEF StatusOf
<1>4. ASSUME NEW s \in Requests, TakeResponse(s) PROVE StatusOf(r)'
  <2>1. PICK a \in response[s] :
           /\ call' = [call EXCEPT ![s].at = IF a.ok THEN "accepted" ELSE "refused", ![s].got = {a.ns}]
           /\ IF call[s].kind = "FETCH" /\ ~a.ok THEN FetchFails(s) ELSE UNCHANGED <<out, toResp>>
    BY Zenon, <1>4 DEF TakeResponse
  <2>2. call[s].at = "waiting" /\ response' = [response EXCEPT ![s] = {}] /\ a \in Answer
    BY <1>1, <1>4 DEF TakeResponse
  <2>3. call'[s].got = {a.ns} /\ (r # s => call'[r] = call[r])
    <3>1. call' = [call EXCEPT ![s].at = IF a.ok THEN "accepted" ELSE "refused", ![s].got = {a.ns}]
      BY <2>1
    <3>. QED  BY Zenon, <1>1, <2>2, <3>1, CallTakes
  <2>4. out'[r] = out[r]
    BY <1>1, <2>1 DEF FetchFails
  <2>5. CASE r = s
    <3>1. a.ns \in Asked' /\ response'[r] = {}
      BY <1>1, <2>2, <2>5 DEF StatusOf
    <3>. QED  BY <2>2, <2>3, <2>4, <2>5, <3>1 DEF StatusOf
  <2>6. CASE r # s
    <3>1. response'[r] = response[r]
      BY <1>1, <2>2, <2>6
    <3>. QED  BY <1>2, <2>3, <2>4, <2>6, <3>1
  <2>. QED  BY <2>5, <2>6
<1>5. ASSUME NEW s \in Requests, CallCtxDone(s) PROVE StatusOf(r)'
  <2>1. /\ call[s].at = "waiting" /\ call' = [call EXCEPT ![s].at = "cancelled"] /\ UNCHANGED response
        /\ "cancelled" \in CallStates
    BY <1>5 DEF CallCtxDone, CallStates
  <2>2. call'[s].at = "cancelled" /\ (r # s => call'[r] = call[r])
    BY <1>1, <2>1, CallMoves
  <2>3. out'[r] = out[r]
    BY <1>1, <1>5 DEF CallCtxDone, FetchFails
  <2>. QED  BY <1>1, <1>2, <2>1, <2>2, <2>3 DEF StatusOf
<1>6. ASSUME NEW ns, Unannounce(ns) \/ UnsubscribeAnnouncements(ns) PROVE StatusOf(r)'
  <2>1. /\ UNCHANGED <<call, response>>
        /\ \/ UNCHANGED out
           \/ \E k \in {"ANNOUNCE", "SUBSCRIBE_ANNOUNCES"} : \E s \in Deletes(out, k, ns) : out' = [out EXCEPT ![s] = "none"]
    BY Zenon, <1>6 DEF Unannounce, UnsubscribeAnnouncements
  <2>2. \A k \in {"ANNOUNCE", "SUBSCRIBE_ANNOUNCES"} : r \notin Deletes(out, k, ns)
    BY <1>1, DeletesType
  <2>3. out'[r] = out[r]
    BY <1>1, <2>1, <2>2
  <2>. QED  BY <1>2, <2>1, <2>3
<1>7. CASE ReqReader
  <2>1. CASE OnAnnounceCancel
    BY <1>2, <2>1 DEF OnAnnounceCancel, requester
  <2>2. ASSUME NEW kind, NEW ok, NEW place, NEW err, AnswerForm(kind, ok, place, err), Answered(kind, ok, place, err)
        PROVE  StatusOf(r)'
    <3> DEFINE m == Head(toReq)
    <3>1. ReqReads("ANSWER") /\ m.kind = kind /\ UNCHANGED call
      BY <2>2 DEF Answered
    <3>2. CASE ~FindsPending(m)
      BY <1>2, <2>2, <3>1, <3>2 DEF Answered
    <3>3. CASE FindsPending(m)
      <4>1. /\ m.id \in Requests /\ call[m.id].kind = kind /\ out' = [out EXCEPT ![m.id] = place]
            /\ response' = [response EXCEPT ![m.id] = IF response[m.id] = {} THEN {[ok |-> ok, ns |-> m.ns]} ELSE response[m.id]]
        BY <2>2, <3>1, <3>3 DEF Answered, FindsPending
      <4>2. CASE r # m.id
        <5>1. out'[r] = out[r] /\ response'[r] = response[r]
          BY <1>1, <4>1, <4>2
        <5>. QED  BY <1>2, <3>1, <5>1
      <4>3. CASE r = m.id
        <5>1. kind = "TRACK_STATUS_REQUEST" /\ place = "pending"
          BY <1>1, <2>2, <4>1, <4>3 DEF AnswerForm
        <5>2. m.ns \in Asked
          BY <3>1, <5>1, StatusHead
        <5>3. out'[r] = "pending"
          BY <1>1, <4>1, <4>3, <5>1
        <5>4. response'[r] = response[r] \/ response'[r] = {[ok |-> ok, ns |-> m.ns]}
          BY <1>1, <4>1, <4>3
        <5> HIDE DEF m
        <5>5. \A a \in response'[r] : a.ns \in Asked
          BY <5>2, <5>4 DEF StatusOf
        <5>. QED  BY Zenon, <1>1, <3>1, <5>3, <5>5 DEF StatusOf
      <4>. QED  BY <4>2, <4>3
    <3>. QED  BY <3>2, <3>3
  <2>. QED  BY Zenon, <1>7, <2>1, <2>2, AnswerForms
<1>8. CASE UNCHANGED <<call, out, response>>
  BY <1>2, <1>8
<1>9. RespReader \/ (\E m \in handling : Handle(m)) \/ (\E s \in Requests : CloseFetch(s)) \/ (\E ns \in Named : AnnounceCancel(ns))
         \/ UNCHANGED vars => UNCHANGED <<call, out, response>>
  BY Zenon DEF RespReader, OnAnnounce, OnSubscribeAnnounces, OnTrackStatusRequest, OnFetch, OnUnannounce, OnUnsubscribeAnnounces,
      OnFetchCancel, OnBadNamespace, Calls, Handle, CloseFetch, AnnounceCancel, requester, vars
<1>10. ASSUME NEW s \in Requests, Announce(s) \/ SubscribeAnnouncements(s) \/ RequestTrackStatus(s) \/ Fetch(s) PROVE StatusOf(r)'
  BY Zenon, <1>3, <1>10, RequestForms
<1>. QED  BY Zenon, <1>4, <1>5, <1>6, <1>7, <1>8, <1>9, <1>10 DEF Next

\* A call starts with Request.
LEMMA StartsByRequest ==
    ASSUME TypeOK, [Next]_vars, NEW r \in Requests, call[r].at = "idle", call'[r].at # "idle"
    PROVE  \E k, m, place : Request(r, k, m, place)
<1>1. call \in [Requests -> Call] /\ {"waiting", "unsent", "cancelled"} \subseteq CallStates
  BY DEF TypeOK, CallStates
<1>2. ASSUME NEW s \in Requests, NEW k, NEW m, NEW place, Request(s, k, m, place) PROVE r = s
  <2>1. \E x \in {"waiting", "unsent"} : call' = [call EXCEPT ![s].at = x]
    BY Zenon, <1>2 DEF Request
  <2>. QED  BY <1>1, <2>1, CallMoves
<1>3. ASSUME NEW s \in Requests, CallCtxDone(s) PROVE FALSE
  <2>1. call[s].at = "waiting" /\ call' = [call EXCEPT ![s].at = "cancelled"]
    BY <1>3 DEF CallCtxDone
  <2>. QED  BY <1>1, <2>1, CallMoves
<1>4. ASSUME NEW s \in Requests, TakeResponse(s) PROVE FALSE
  <2>1. PICK a \in response[s] :
           call' = [call EXCEPT ![s].at = IF a.ok THEN "accepted" ELSE "refused", ![s].got = {a.ns}]
    BY Zenon, <1>4 DEF TakeResponse
  <2>2. a \in Answer /\ call[s].at = "waiting"
    BY <1>4 DEF TypeOK, TakeResponse
  <2>3. r # s => call'[r] = call[r]
    BY Zenon, <1>1, <2>1, <2>2, CallTakes
  <2>. QED  BY <2>2, <2>3
<1>5. RespReader \/ (\E m \in handling : Handle(m)) \/ (\E s \in Requests : CloseFetch(s)) \/ UNCHANGED vars
         \/ (\E ns \in Named : Unannounce(ns) \/ UnsubscribeAnnouncements(ns) \/ AnnounceCancel(ns)) => UNCHANGED call
  BY Zenon DEF RespReader, OnAnnounce, OnSubscribeAnnounces, OnTrackStatusRequest, OnFetch, OnUnannounce, OnUnsubscribeAnnounces,
      OnFetchCancel, OnBadNamespace, Calls, Handle, CloseFetch, Unannounce, UnsubscribeAnnouncements, AnnounceCancel, requester, vars
<1>6. ReqReader => UNCHANGED call
  BY Zenon, AnswerForms DEF OnAnnounceCancel, Answered, requester
<1>7. ~UNCHANGED call
  OBVIOUS
<1>8. \A s \in Requests : Announce(s) \/ SubscribeAnnouncements(s) \/ RequestTrackStatus(s) \/ Fetch(s) =>
         \E k, m, place : Request(s, k, m, place)
  BY Zenon, RequestForms
<1>. QED  BY Zenon, <1>2, <1>3, <1>4, <1>5, <1>6, <1>7, <1>8 DEF Next

\* No request goes out before request 0.
LEMMA ZeroFirst ==
    ASSUME TypeOK, [Next]_vars, \A r \in Requests : call[r].at # "idle" => call[0].at # "idle",
           NEW r \in Requests, call'[r].at # "idle"
    PROVE  call'[0].at # "idle"
<1>1. call[0].at # "idle" => call'[0].at # "idle"
  BY CallsStay, ExchangesAssumption
<1>2. CASE call[r].at # "idle"
  BY <1>1, <1>2
<1>3. CASE call[r].at = "idle"
  <2>1. \E k, m, place : Request(r, k, m, place)
    BY <1>3, StartsByRequest
  <2>2. \A q \in Requests : q < r => call[q].at # "idle"
    BY Zenon, <2>1 DEF Request
  <2>3. r = 0 \/ call[0].at # "idle"
    BY <2>2, ExchangesAssumption
  <2>. QED  BY <1>1, <2>3
<1>. QED  BY <1>2, <1>3

LEMMA StatusInductive ==
    ASSUME TypeOK, MessageInv, CauseInv, StatusInv, RemovedInv, \A r \in Requests : RequestInv(r), [Next]_vars
    PROVE  StatusInv'
<1>1. OfKind("TRACK_STATUS_REQUEST")' = OfKind("TRACK_STATUS_REQUEST")
  BY CallsStay DEF OfKind
<1>2. \A r \in OfKind("TRACK_STATUS_REQUEST") : StatusOf(r)'
  <2>1. \A r \in OfKind("TRACK_STATUS_REQUEST") : StatusOf(r)
    BY Zenon DEF StatusInv, StatusWasAskedFor, StatusOf
  <2>. QED  BY <2>1, StatusStep
<1>3. \A r \in Requests : call'[r].at # "idle" => call'[0].at # "idle"
  BY ZeroFirst DEF StatusInv
<1>4. reader'["requester"] = "errUnknownTrackStatusRequest" => 0 \notin OfKind("TRACK_STATUS_REQUEST")
  <2>1. \/ reader'["requester"] \in {reader["requester"], "errLengthMismatch"}
        \/ LostAnswer(reader'["requester"])
    BY ReaderStep, ReqReaderDies, RespReaderDies
  <2>. QED  BY <2>1 DEF LostAnswer, StatusInv, StatusWasAskedFor
<1>. QED  BY Zenon, <1>1, <1>2, <1>3, <1>4 DEF StatusInv, StatusWasAskedFor, StatusOf

-----------------------------------------------------------------------------
\* Announcements that the responder holds

LEMMA RemovedInductive ==
    ASSUME TypeOK, MessageInv, CauseInv, StatusInv, RemovedInv, \A r \in Requests : RequestInv(r), [Next]_vars
    PROVE  RemovedInv'
<1>1. ASSUME reader'["responder"] # "reading" PROVE handling' = {}
  <2>1. CASE reader["responder"] # "reading"
    BY <2>1, HandlingStep DEF RemovedInv, RespTakes
  <2>2. CASE reader["responder"] = "reading"
    <3>1. RespReader
      BY <1>1, <2>2, ReaderStep, ReqReaderDies
    <3>2. UNCHANGED reader \/ (UNCHANGED handling /\ handling = {})
      BY <3>1 DEF RespReader, OnAnnounce, OnSubscribeAnnounces, OnTrackStatusRequest, OnFetch, OnUnannounce,
                  OnUnsubscribeAnnounces, OnFetchCancel, OnBadNamespace, Calls, RespReads, RespTakes
    <3>. QED  BY <1>1, <2>2, <3>2
  <2>. QED  BY <2>1, <2>2
<1>2. ASSUME NEW r \in OfKind("ANNOUNCE"), decided'[r] = "accept" PROVE incoming'[r] = "announced" \/ r \in removed'
  <2>1. /\ r \in Requests /\ call[r].kind = "ANNOUNCE" /\ removed \subseteq removed'
        /\ incoming \in [Requests -> Places] /\ decided \in [Requests -> {"nothing", "accept", "reject"}]
    BY HistoryGrows DEF OfKind, TypeOK
  <2>2. CASE incoming'[r] = incoming[r] /\ decided'[r] = decided[r]
    BY <1>2, <2>1, <2>2 DEF RemovedInv
  <2>3. ASSUME NEW m \in handling, Handle(m) PROVE incoming'[r] = "announced" \/ r \in removed'
    <3>1. /\ m.kind = m.type /\ m.type \in AllKinds
          /\ m.type \in Kept => m.id \in Requests /\ m.type = call[m.id].kind
      <4>1. m \in Sendable /\ m.type \in AllKinds
        BY DEF MessageInv
      <4>. QED  BY <4>1 DEF Sendable
    <3>2. \/ UNCHANGED <<incoming, decided>>
          \/ /\ m.kind \in Kept /\ decided' = [decided EXCEPT ![m.id] = "reject"]
             /\ UNCHANGED incoming \/ incoming' = [incoming EXCEPT ![m.id] = "none"]
          \/ /\ m.kind \in Kept /\ decided' = [decided EXCEPT ![m.id] = "accept"]
             /\ \/ UNCHANGED incoming /\ m.kind = "SUBSCRIBE_ANNOUNCES"
                \/ incoming' = [incoming EXCEPT ![m.id] = "announced"]
      BY <2>3 DEF Handle, AcceptAnnouncement, RejectAnnouncement, AcceptAnnouncementSubscription,
                  RejectAnnouncementSubscription, AcceptFetch, RejectFetch, SendTrackStatus, SendAnswer, Kept, AllKinds
    <3>. QED  BY <1>2, <2>1, <2>2, <3>1, <3>2
  <2>4. CASE OnAnnounce \/ OnSubscribeAnnounces \/ OnFetch
    <3> DEFINE m == Head(toResp)
    <3>1. RespTakes /\ m.type \in Kept /\ incoming' = [incoming EXCEPT ![m.id] = "pending"] /\ UNCHANGED decided
      BY <2>4 DEF OnAnnounce, OnSubscribeAnnounces, OnFetch, RespReads, Calls, history, Kept, AllKinds
    <3>2. r # m.id
      <4> SUFFICES ASSUME r = m.id PROVE FALSE
        OBVIOUS
      <4>1. m \in Message
        BY <3>1, RespHead
      <4>2. m \in Asking(r)
        BY Zenon, <3>1, <4>1, MessageKinds
      <4>3. Has(toResp, Asking(r))
        BY Zenon, <3>1, <4>2, RespRead
      <4>4. decided[r] = "nothing"
        BY Zenon, <2>1, <4>3 DEF RequestInv, StreamInv, Underway
      <4>. QED  BY <1>2, <3>1, <4>4
    <3>. QED  BY <2>1, <2>2, <3>1, <3>2
  <2>5. CASE OnUnannounce \/ \E ns \in Named : AnnounceCancel(ns)
    <3>1. /\ UNCHANGED decided
          /\ UNCHANGED incoming \/ \E s : incoming' = [incoming EXCEPT ![s] = "none"] /\ s \in removed'
      BY <2>5 DEF OnUnannounce, AnnounceCancel
    <3>. QED  BY <2>1, <2>2, <3>1
  <2>6. CASE OnFetchCancel
    <3> DEFINE s == Head(toResp).id
    <3>1. s \in Requests
      <4>1. RespTakes /\ Head(toResp).type = "FETCH_CANCEL"
        BY <2>6 DEF OnFetchCancel, RespReads
      <4>2. Head(toResp) \in Sendable
        BY <4>1, RespHead
      <4>. QED  BY <4>1, <4>2 DEF Sendable
    <3>2. call[s].kind = "FETCH"
      BY <2>6, <3>1, CancelArrives
    <3>3. UNCHANGED decided /\ (UNCHANGED incoming \/ incoming' = [incoming EXCEPT ![s] = "none"])
      BY <2>6 DEF OnFetchCancel, history
    <3>. QED  BY <2>1, <2>2, <3>2, <3>3
  <2>7. CASE UNCHANGED <<incoming, decided>>
    BY <2>2, <2>7
  <2>8. OnTrackStatusRequest \/ OnUnsubscribeAnnounces \/ OnBadNamespace \/ UNCHANGED vars => UNCHANGED <<incoming, decided>>
    BY Zenon DEF OnTrackStatusRequest, OnUnsubscribeAnnounces, OnBadNamespace, Calls, history, vars
  <2>9. ReqReader => UNCHANGED <<incoming, decided>>
    BY Zenon, AnswerForms DEF OnAnnounceCancel, Answered, history
  <2>10. \A s \in Requests : Announce(s) \/ SubscribeAnnouncements(s) \/ RequestTrackStatus(s) \/ Fetch(s)
            \/ TakeResponse(s) \/ CallCtxDone(s) \/ CloseFetch(s) => UNCHANGED <<incoming, decided>>
    BY Zenon DEF Announce, SubscribeAnnouncements, RequestTrackStatus, Fetch, Request, TakeResponse, CallCtxDone, CloseFetch, history
  <2>11. \A ns \in Named : Unannounce(ns) \/ UnsubscribeAnnouncements(ns) => UNCHANGED <<incoming, decided>>
    BY Zenon DEF Unannounce, UnsubscribeAnnouncements
  <2>. QED  BY Zenon, <2>3, <2>4, <2>5, <2>6, <2>7, <2>8, <2>9, <2>10, <2>11 DEF Next, RespReader
<1>3. OfKind("ANNOUNCE")' = OfKind("ANNOUNCE")
  BY CallsStay DEF OfKind
<1>. QED  BY Zenon, <1>1, <1>2, <1>3 DEF RemovedInv

-----------------------------------------------------------------------------
\* Every step preserves the invariant.

LEMMA RequestInductive ==
    ASSUME TypeOK, MessageInv, \A r \in Requests : RequestInv(r), [Next]_vars, NEW r \in Requests
    PROVE  RequestInv(r)'
<1>1. RequestInv(r)
  OBVIOUS
<1>2. CASE UNCHANGED vars
  <2>1. UNCHANGED <<call, out, response, incoming, handling, reader, toResp, toReq, withdraws, decided, deleted>>
    BY <1>2 DEF vars
  <2>2. SameResp(r) /\ SameReq(r) /\ SameState(r) /\ Forward
    BY Zenon, <2>1, StreamsStay DEF SameState, Forward, Handled
  <2>. QED  BY <1>1, <2>2, Untouched
<1>3. ASSUME NEW s \in Requests, Announce(s) \/ SubscribeAnnouncements(s) \/ Fetch(s)
      PROVE  RequestInv(r)'
  <2>1. {"ANNOUNCE", "SUBSCRIBE_ANNOUNCES", "FETCH"} \subseteq Kept
    BY DEF Kept, AllKinds
  <2>2. PICK k \in Kept : Request(s, k, Msg(k, k, s, call[s].ns, TRUE), "none")
    BY Zenon, <1>3, <2>1, RequestForms
  <2>. QED  BY Zenon, <1>1, <2>2, InvRequest
<1>4. CASE RespReader
  <2>1. CASE OnAnnounce \/ OnSubscribeAnnounces \/ OnFetch
    BY <1>1, <2>1, InvCalls
  <2>2. CASE OnTrackStatusRequest \/ OnUnsubscribeAnnounces \/ OnUnannounce
    BY <1>1, <2>2, InvOtherReads
  <2>3. CASE OnBadNamespace
    BY <1>1, <2>3, InvBadNamespace
  <2>4. CASE OnFetchCancel
    <3>1. RespTakes /\ Head(toResp).type = "FETCH_CANCEL"
      BY <2>4 DEF OnFetchCancel, RespReads
    <3>2. Head(toResp) \in Sendable
      BY <3>1, RespHead
    <3>3. Head(toResp).id \in Requests
      BY <3>1, <3>2 DEF Sendable
    <3>. QED  BY <1>1, <2>4, <3>3, InvFetchCancel
  <2>. QED  BY <1>4, <2>1, <2>2, <2>3, <2>4 DEF RespReader
<1>5. Named \subseteq Namespaces
  BY DEF Named, TypeOK, Call
<1>6. ASSUME NEW ns \in Named, Unannounce(ns) \/ UnsubscribeAnnouncements(ns) \/ AnnounceCancel(ns)
      PROVE  RequestInv(r)'
  BY <1>1, <1>5, <1>6, InvUnannounce, InvAnnounceCancel
<1>7. CASE ReqReader
  BY <1>7, InvReqReader
<1>8. ASSUME NEW m \in handling, Handle(m)
      PROVE  RequestInv(r)'
  BY <1>1, <1>8, InvHandle
<1>9. ASSUME NEW s \in Requests, RequestTrackStatus(s) \/ TakeResponse(s) \/ CallCtxDone(s) \/ CloseFetch(s)
      PROVE  RequestInv(r)'
  BY <1>1, <1>9, InvTrackStatusRequest, InvTakeResponse, InvCallCtxDone, InvCloseFetch
<1>. QED  BY Zenon, <1>2, <1>3, <1>4, <1>6, <1>7, <1>8, <1>9 DEF Next

LEMMA InitInv == Init => ExchangesInv
<1> SUFFICES ASSUME Init PROVE ExchangesInv
  OBVIOUS
<1>1. TypeOK
  BY InitType
<1>2. /\ toResp = <<>> /\ toReq = <<>> /\ handling = {}
      /\ \A r \in Requests : /\ call[r].at = "idle" /\ out[r] = "none" /\ response[r] = {} /\ incoming[r] = "none"
                             /\ decided[r] = "nothing"
      /\ \A s \in {"requester", "responder"} : reader[s] = "reading"
  BY DEF Init
<1>3. \A M : ~Has(toResp, M) /\ ~Has(toReq, M)
  BY <1>2 DEF Has
<1>4. MessageInv
  <2>1. toResp \in Seq(Sendable) /\ toReq \in Seq(Answerable)
    BY <1>2
  <2>. QED  BY <1>2, <1>3, <2>1 DEF MessageInv
<1>5. ASSUME NEW r \in Requests PROVE RequestInv(r)
  <2>1. ~Underway(r)
    BY <1>2, <1>3 DEF Underway, Handled
  <2>2. StreamInv(r)
    BY Zenon, <1>2, <1>3, <2>1, EmptyOnce DEF StreamInv, Underway
  <2>3. CallInv(r)
    BY <1>2, <1>5 DEF CallInv
  <2>4. HeldInv(r)
    BY <1>2, <1>3, <1>5, EmptyOnce DEF HeldInv
  <2>. QED  BY <2>2, <2>3, <2>4 DEF RequestInv
<1>6. UnknownOnlyAfterWithdrawal
  BY <1>2 DEF UnknownOnlyAfterWithdrawal
<1>7. CauseInv
  BY Zenon, <1>2, <1>3 DEF CauseInv
<1>8. StatusInv /\ RemovedInv
  <2>1. \A k : OfKind(k) \subseteq Requests
    BY DEF OfKind
  <2>. QED  BY <1>2, <2>1, ExchangesAssumption DEF StatusInv, StatusWasAskedFor, RemovedInv
<1>. QED  BY <1>1, <1>4, <1>5, <1>6, <1>7, <1>8 DEF ExchangesInv

LEMMA Inductive == ExchangesInv /\ [Next]_vars => ExchangesInv'
<1> SUFFICES ASSUME ExchangesInv, [Next]_vars PROVE ExchangesInv'
  OBVIOUS
<1>1. /\ TypeOK /\ MessageInv /\ UnknownOnlyAfterWithdrawal /\ \A r \in Requests : RequestInv(r)
      /\ CauseInv /\ StatusInv /\ RemovedInv
  BY DEF ExchangesInv
<1>2. TypeOK'
  BY <1>1, TypeInductive
<1>3. MessageInv'
  BY <1>1, MessageInductive
<1>4. UnknownOnlyAfterWithdrawal'
  BY <1>1, UnknownInductive
<1>5. \A r \in Requests : RequestInv(r)'
  BY <1>1, RequestInductive
<1>6. CauseInv' /\ StatusInv' /\ RemovedInv'
  BY <1>1, CauseInductive, StatusInductive, RemovedInductive
<1>. QED  BY Zenon, <1>2, <1>3, <1>4, <1>5, <1>6 DEF ExchangesInv

LEMMA Implications ==
    ASSUME ExchangesInv
    PROVE  ReturnsTheDecision /\ AnnouncedWasAccepted /\ UnknownOnlyAfterWithdrawal /\ StatusWasAskedFor
<1>1. \A r \in Requests : CallInv(r) /\ HeldInv(r) /\ call[r].kind \in AllKinds
  BY DEF ExchangesInv, RequestInv, TypeOK, Call
<1>2. ReturnsTheDecision
  BY <1>1 DEF CallInv, ReturnsTheDecision, Kept
<1>3. AnnouncedWasAccepted
  BY <1>1 DEF ExchangesInv, HeldInv, RemovedInv, AnnouncedWasAccepted, OfKind
<1>. QED  BY <1>2, <1>3 DEF ExchangesInv, StatusInv

\* The inductive invariant holds in every reachable state.
LEMMA Invariance == Spec => []ExchangesInv
BY InitInv, Inductive, PTL DEF Spec

\* Announce, SubscribeAnnouncements and Fetch return what the responder's
\* handler decided for that very request (session.go: the response channel of
\* the call), whatever is withdrawn or cancelled meanwhile.
THEOREM DecisionReturned == Spec => []ReturnsTheDecision
BY Invariance, Implications, PTL

\* An announcement or a fetch that the requester's map holds was accepted, and
\* the responder's map holds it too unless that announcement was removed there by
\* UNANNOUNCE or AnnounceCancel, or the fetch was cancelled (announcement_map.go,
\* the track maps).
THEOREM AcceptedBeforeAnnounced == Spec => []AnnouncedWasAccepted
BY Invariance, Implications, PTL

\* The control reader of either side ends with an unknown request for the
\* listed reasons only: at the requester withdrawal while pending and a cancelled
\* fetch, at the responder a rejected fetch, a track closed twice, and UNANNOUNCE
\* from an Unannounce call for whose namespace no announcement had been accepted
\* and not removed again (session.go: the handlers of answers, onFetchCancel and
\* onUnannounce).
THEOREM WithdrawalBeforeUnknown == Spec => []UnknownOnlyAfterWithdrawal
BY Invariance, Implications, PTL

\* With RequestID left unset in TRACK_STATUS_REQUEST and TRACK_STATUS, a call of
\* RequestTrackStatus still returns no status that nobody asked for, and the
\* requester's control reader survives every TRACK_STATUS if request 0 is a
\* status request (session.go: RequestTrackStatus, onTrackStatus).
THEOREM StatusAskedFor == Spec => []StatusWasAskedFor
BY Invariance, Implications, PTL

-----------------------------------------------------------------------------
\* The data plane of fetches

\* The data plane leaves the exchanges alone.
LEMMA FetchSteps == [FetchNext]_allVars => [Next]_vars
<1> SUFFICES ASSUME [FetchNext]_allVars PROVE [Next]_vars
  OBVIOUS
<1>1. CASE \E r \in Requests : GetFetchStream(r) \/ WriteObject(r) \/ CloseStream(r) \/ Receives(r)
  BY <1>1 DEF GetFetchStream, WriteObject, CloseStream, Receives, AcceptUniStream, HandleUniStream, ReadStream, ReadObject
<1>2. CASE UNCHANGED allVars \/ StopLoop
  BY <1>2 DEF allVars, StopLoop
<1>. QED  BY <1>1, <1>2 DEF FetchNext

\* Fetch streams (fetch_stream.go, readFetchStream) change nothing that the
\* exchanges depend on: what is proved of the exchanges holds with fetches.
THEOREM FetchImplementsExchanges == FetchSpec => Spec
<1>1. FetchInit => Init
  BY DEF FetchInit
<1>. QED  BY <1>1, FetchSteps, PTL DEF FetchSpec, Spec

StreamStates == {"none", "opened", "accepted", "read", "ignored", "eof"}

LEMMA StateChanges ==
    ASSUME stream \in [Requests -> Stream], NEW r \in Requests, NEW x \in StreamStates, stream' = [stream EXCEPT ![r].state = x]
    PROVE  /\ stream' \in [Requests -> Stream] /\ stream'[r].state = x
           /\ \A q \in Requests : q # r => stream'[q].state = stream[q].state
BY DEF Stream, StreamStates

LEMMA SentChanges ==
    ASSUME stream \in [Requests -> Stream], NEW r \in Requests, NEW s \in Seq(Objects), stream' = [stream EXCEPT ![r].sent = s]
    PROVE  stream' \in [Requests -> Stream] /\ \A q \in Requests : stream'[q].state = stream[q].state
BY Zenon DEF Stream

LEMMA FinChanges ==
    ASSUME stream \in [Requests -> Stream], NEW r \in Requests, stream' = [stream EXCEPT ![r].fin = TRUE]
    PROVE  stream' \in [Requests -> Stream] /\ \A q \in Requests : stream'[q].state = stream[q].state
BY Zenon DEF Stream

\* One step of the data plane: what it does to the state of a stream.
StreamStep(r) ==
    \/ \A q \in Requests : stream'[q].state = stream[q].state
    \/ /\ \A q \in Requests : q # r => stream'[q].state = stream[q].state
       /\ \/ GetFetchStream(r) /\ stream'[r].state = "opened"
          \/ stream[r].state = "opened" /\ stream'[r].state = "accepted"
          \/ HandleUniStream(r) /\ stream'[r].state = (IF out[r] = "none" THEN "ignored" ELSE "read")
          \/ stream[r].state = "read" /\ stream'[r].state = "eof"

LEMMA FetchTypeStep ==
    ASSUME FetchTypeOK, NEW r \in Requests, GetFetchStream(r) \/ WriteObject(r) \/ CloseStream(r) \/ Receives(r)
    PROVE  FetchTypeOK' /\ StreamStep(r)
<1>0. loop' \in {"running", "cancelled"}
  BY DEF FetchTypeOK, GetFetchStream, WriteObject, CloseStream, Receives, AcceptUniStream, HandleUniStream, ReadStream, ReadObject
<1>1. /\ stream \in [Requests -> Stream] /\ written \in [Requests -> 0..MaxObjects]
      /\ buffer \in [Requests -> Seq(Objects)] /\ \A q \in Requests : Len(buffer[q]) <= BufferCap
      /\ read \in [Requests -> Seq(Objects)] /\ dropped \in [Requests -> SUBSET Objects]
  BY DEF FetchTypeOK
<1>2. stream[r].sent \in Seq(Objects) /\ stream[r].fin \in BOOLEAN
  BY <1>1 DEF Stream
<1>3. CASE GetFetchStream(r)
  <2>1. stream' = [stream EXCEPT ![r].state = "opened"] /\ UNCHANGED <<written, buffer, read, dropped>> /\ "opened" \in StreamStates
    BY <1>3 DEF GetFetchStream, StreamStates
  <2>2. /\ stream' \in [Requests -> Stream] /\ stream'[r].state = "opened"
        /\ \A q \in Requests : q # r => stream'[q].state = stream[q].state
    BY Zenon, <1>1, <2>1, StateChanges
  <2>. QED  BY Zenon, <1>0, <1>1, <1>3, <2>1, <2>2 DEF FetchTypeOK, StreamStep
<1>4. CASE HandleUniStream(r)
  <2> DEFINE x == IF out[r] = "none" THEN "ignored" ELSE "read"
  <2>1. stream' = [stream EXCEPT ![r].state = x] /\ UNCHANGED <<written, buffer, read, dropped>> /\ x \in StreamStates
    BY <1>4 DEF HandleUniStream, StreamStates
  <2>2. /\ stream' \in [Requests -> Stream] /\ stream'[r].state = x
        /\ \A q \in Requests : q # r => stream'[q].state = stream[q].state
    BY Zenon, <1>1, <2>1, StateChanges
  <2>. QED  BY Zenon, <1>0, <1>1, <1>4, <2>1, <2>2 DEF FetchTypeOK, StreamStep
<1>10. CASE AcceptUniStream(r)
  <2>1. /\ stream[r].state = "opened" /\ stream' = [stream EXCEPT ![r].state = "accepted"]
        /\ UNCHANGED <<written, buffer, read, dropped>> /\ "accepted" \in StreamStates
    BY <1>10 DEF AcceptUniStream, StreamStates
  <2>2. /\ stream' \in [Requests -> Stream] /\ stream'[r].state = "accepted"
        /\ \A q \in Requests : q # r => stream'[q].state = stream[q].state
    BY Zenon, <1>1, <2>1, StateChanges
  <2>. QED  BY Zenon, <1>0, <1>1, <2>1, <2>2 DEF FetchTypeOK, StreamStep
<1>5. CASE CloseStream(r)
  <2>1. stream' = [stream EXCEPT ![r].fin = TRUE] /\ UNCHANGED <<written, buffer, read, dropped>>
    BY <1>5 DEF CloseStream
  <2>2. stream' \in [Requests -> Stream] /\ \A q \in Requests : stream'[q].state = stream[q].state
    BY Zenon, <1>1, <2>1, FinChanges
  <2>. QED  BY Zenon, <1>0, <1>1, <2>1, <2>2 DEF FetchTypeOK, StreamStep
<1>6. CASE WriteObject(r)
  <2>1. /\ written[r] < MaxObjects /\ written' = [written EXCEPT ![r] = written[r] + 1]
        /\ stream' = [stream EXCEPT ![r].sent = Append(stream[r].sent, written[r] + 1)]
        /\ UNCHANGED <<buffer, read, dropped>>
    BY <1>6 DEF WriteObject
  <2>2. written[r] + 1 \in Objects /\ written' \in [Requests -> 0..MaxObjects]
    BY <1>1, <2>1, FetchAssumption DEF Objects
  <2>3. Append(stream[r].sent, written[r] + 1) \in Seq(Objects)
    BY Zenon, <1>2, <2>2, AppendType
  <2>4. stream' \in [Requests -> Stream] /\ \A q \in Requests : stream'[q].state = stream[q].state
    BY Zenon, <1>1, <2>1, <2>3, SentChanges
  <2>. QED  BY Zenon, <1>0, <1>1, <2>1, <2>2, <2>4 DEF FetchTypeOK, StreamStep
<1>7. CASE ReadStream(r) /\ stream[r].sent # <<>>
  <2> DEFINE obj == Head(stream[r].sent)
  <2>1. /\ Push(r, obj) /\ stream' = [stream EXCEPT ![r].sent = Tail(stream[r].sent)] /\ UNCHANGED <<written, read>>
    BY <1>7 DEF ReadStream
  <2>2. obj \in Objects /\ Tail(stream[r].sent) \in Seq(Objects)
    BY <1>2, <1>7, TailAt
  <2>3. stream' \in [Requests -> Stream] /\ \A p \in Requests : stream'[p].state = stream[p].state
    BY Zenon, <1>1, <2>1, <2>2, SentChanges
  <2> HIDE DEF obj
  <2>4. /\ buffer' \in [Requests -> Seq(Objects)] /\ \A q \in Requests : Len(buffer'[q]) <= BufferCap
        /\ dropped' \in [Requests -> SUBSET Objects]
    <3>1. CASE Len(buffer[r]) < BufferCap
      <4>1. buffer' = [buffer EXCEPT ![r] = Append(buffer[r], obj)] /\ UNCHANGED dropped
        BY <2>1, <3>1 DEF Push
      <4>2. Append(buffer[r], obj) \in Seq(Objects) /\ Len(Append(buffer[r], obj)) = Len(buffer[r]) + 1 /\ Len(buffer[r]) \in Nat
        BY <1>1, <2>2, AppendAt
      <4> DEFINE new == Append(buffer[r], obj)
      <4> HIDE DEF new
      <4>3. buffer' = [buffer EXCEPT ![r] = new] /\ new \in Seq(Objects) /\ Len(new) <= BufferCap
        BY <3>1, <4>1, <4>2, FetchAssumption DEF new
      <4>. QED  BY <1>1, <4>1, <4>3
    <3>2. CASE ~(Len(buffer[r]) < BufferCap)
      <4>1. dropped' = [dropped EXCEPT ![r] = dropped[r] \cup {obj}] /\ UNCHANGED buffer
        BY <2>1, <3>2 DEF Push
      <4>. QED  BY <1>1, <2>2, <4>1
    <3>. QED  BY <3>1, <3>2
  <2>. QED  BY Zenon, <1>0, <1>1, <2>1, <2>3, <2>4 DEF FetchTypeOK, StreamStep
<1>8. CASE ReadStream(r) /\ stream[r].sent = <<>>
  <2>1. /\ stream[r].state = "read" /\ stream' = [stream EXCEPT ![r].state = "eof"] /\ UNCHANGED <<written, buffer, read, dropped>>
        /\ "eof" \in StreamStates
    BY <1>8 DEF ReadStream, StreamStates
  <2>2. /\ stream' \in [Requests -> Stream] /\ stream'[r].state = "eof"
        /\ \A q \in Requests : q # r => stream'[q].state = stream[q].state
    BY Zenon, <1>1, <2>1, StateChanges
  <2>. QED  BY Zenon, <1>0, <1>1, <2>1, <2>2 DEF FetchTypeOK, StreamStep
<1>9. CASE ReadObject(r)
  <2>1. /\ buffer[r] # <<>> /\ read' = [read EXCEPT ![r] = Append(read[r], Head(buffer[r]))]
        /\ buffer' = [buffer EXCEPT ![r] = Tail(buffer[r])] /\ UNCHANGED <<stream, written, dropped>>
    BY <1>9 DEF ReadObject
  <2>2. /\ Head(buffer[r]) \in Objects /\ Tail(buffer[r]) \in Seq(Objects) /\ Len(buffer[r]) \in Nat
        /\ Len(Tail(buffer[r])) = Len(buffer[r]) - 1
    BY <1>1, <2>1, TailAt
  <2>3. Append(read[r], Head(buffer[r])) \in Seq(Objects)
    BY <1>1, <2>2, AppendType
  <2>4. read' \in [Requests -> Seq(Objects)]
    BY Zenon, <1>1, <2>1, <2>3, UpdateType
  <2> DEFINE rest == Tail(buffer[r])
  <2>5. rest \in Seq(Objects) /\ Len(rest) <= BufferCap /\ buffer' = [buffer EXCEPT ![r] = rest]
    BY <1>1, <2>1, <2>2, FetchAssumption
  <2> HIDE DEF rest
  <2>6. buffer' \in [Requests -> Seq(Objects)] /\ \A q \in Requests : Len(buffer'[q]) <= BufferCap
    BY <1>1, <2>5
  <2>. QED  BY Zenon, <1>0, <1>1, <2>1, <2>4, <2>6 DEF FetchTypeOK, StreamStep
<1>. QED  BY <1>3, <1>4, <1>5, <1>6, <1>7, <1>8, <1>9, <1>10 DEF Receives

\* A fetch stream belongs to a fetch that was sent; a stream that nobody reads
\* belongs to one that failed.
FetchInv ==
    /\ ExchangesInv
    /\ FetchTypeOK
    /\ \A r \in Requests : stream[r].state # "none" => call[r].kind = "FETCH" /\ call[r].at \notin {"idle", "unsent"}
    /\ IgnoredOnlyAfterFailure

LEMMA FetchInductive == FetchInv /\ [FetchNext]_allVars => FetchInv'
<1> SUFFICES ASSUME FetchInv, [FetchNext]_allVars PROVE FetchInv'
  OBVIOUS
<1>1. /\ ExchangesInv /\ FetchTypeOK /\ IgnoredOnlyAfterFailure
      /\ \A r \in Requests : stream[r].state # "none" => call[r].kind = "FETCH" /\ call[r].at \notin {"idle", "unsent"}
  BY DEF FetchInv
<1>2. TypeOK /\ MessageInv /\ \A r \in Requests : RequestInv(r) /\ call[r].at \in CallStates
  BY <1>1 DEF ExchangesInv, TypeOK, Call, CallStates
<1>3. [Next]_vars /\ ExchangesInv'
  BY <1>1, FetchSteps, Inductive
<1>4. \A r \in Requests :
         /\ call'[r].kind = call[r].kind
         /\ call[r].at \in {"refused", "cancelled"} => call'[r].at \in {"refused", "cancelled"}
         /\ call[r].at \notin {"idle", "unsent"} => call'[r].at \notin {"idle", "unsent"}
         /\ decided[r] = "reject" => decided'[r] = "reject"
  BY <1>2, <1>3, CallsStay, DecisionsStay
<1>5. CASE UNCHANGED fetchVars \/ StopLoop
  <2>1. UNCHANGED <<stream, written, buffer, read, dropped>> /\ loop' \in {loop, "cancelled"}
    BY <1>5 DEF fetchVars, StopLoop
  <2>2. FetchTypeOK'
    BY Zenon, <1>1, <2>1 DEF FetchTypeOK
  <2>. QED  BY <1>1, <1>3, <1>4, <2>1, <2>2 DEF FetchInv, IgnoredOnlyAfterFailure
<1>6. ASSUME NEW r \in Requests, GetFetchStream(r) \/ WriteObject(r) \/ CloseStream(r) \/ Receives(r)
      PROVE  FetchInv'
  <2>1. FetchTypeOK' /\ StreamStep(r)
    BY <1>1, <1>6, FetchTypeStep
  <2>2. UNCHANGED <<call, decided>>
    BY <1>6 DEF GetFetchStream, WriteObject, CloseStream, Receives, AcceptUniStream, HandleUniStream, ReadStream, ReadObject, vars
  <2>3. ASSUME NEW q \in Requests, stream'[q].state # "none"
        PROVE  call[q].kind = "FETCH" /\ call[q].at \notin {"idle", "unsent"}
    <3>1. CASE GetFetchStream(r) /\ q = r
      BY <1>2, <3>1 DEF GetFetchStream, RequestInv, CallInv
    <3>2. CASE stream[q].state # "none"
      BY <1>1, <3>2
    <3>. QED  BY <2>1, <2>3, <3>1, <3>2 DEF StreamStep, HandleUniStream
  <2>4. ASSUME NEW q \in Requests, stream'[q].state = "ignored"
        PROVE  call[q].at \in {"refused", "cancelled"} \/ decided[q] = "reject"
    <3>1. CASE stream[q].state = "ignored"
      BY <1>1, <3>1 DEF IgnoredOnlyAfterFailure
    <3>2. CASE q = r /\ HandleUniStream(r) /\ out[r] = "none"
      <4>1. call[r].kind = "FETCH" /\ call[r].at \notin {"idle", "unsent"}
        BY <1>1, <3>2 DEF HandleUniStream
      <4>2. call[r].at \in {"waiting", "accepted"} => decided[r] = "reject"
        BY <1>2, <3>2, <4>1 DEF RequestInv, HeldInv
      <4>. QED  BY <1>2, <3>2, <4>1, <4>2 DEF CallStates
    <3>. QED  BY <2>1, <2>4, <3>1, <3>2 DEF StreamStep
  <2>. QED  BY <1>3, <2>1, <2>2, <2>3, <2>4 DEF FetchInv, IgnoredOnlyAfterFailure
<1>. QED  BY Zenon, <1>5, <1>6 DEF FetchNext, allVars

LEMMA FetchInvariance == FetchSpec => []FetchInv
<1>1. FetchInit => FetchInv
  <2> SUFFICES ASSUME FetchInit PROVE FetchInv
    OBVIOUS
  <2>1. ExchangesInv
    BY InitInv DEF FetchInit
  <2>2. FetchTypeOK
    BY FetchAssumption DEF FetchInit, FetchTypeOK, Stream
  <2>3. \A r \in Requests : stream[r].state = "none"
    BY DEF FetchInit
  <2>. QED  BY <2>1, <2>2, <2>3 DEF FetchInv, IgnoredOnlyAfterFailure
<1>. QED  BY <1>1, FetchInductive, PTL DEF FetchSpec

\* Fetch streams, the buffer of a RemoteTrack with its capacity, and what was
\* read or dropped keep their types.
THEOREM FetchTyping == FetchSpec => []FetchTypeOK
<1>1. FetchInv => FetchTypeOK
  BY DEF FetchInv
<1>. QED  BY <1>1, FetchInvariance, PTL

\* Though the fetch stream may overtake FETCH_OK, readFetchStream finds no
\* track for it only after the Fetch call failed (session.go: Fetch adds its
\* track before it writes FETCH).
THEOREM IgnoredOnlyIfFailed == FetchSpec => []IgnoredOnlyAfterFailure
<1>1. FetchInv => IgnoredOnlyAfterFailure
  BY DEF FetchInv
<1>. QED  BY <1>1, FetchInvariance, PTL
=============================================================================
