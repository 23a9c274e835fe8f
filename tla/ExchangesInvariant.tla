------------------------- MODULE ExchangesInvariant -------------------------
(***************************************************************************)
(* Type correctness of Exchanges, and an inductive invariant of it, which  *)
(* relates the control streams, a request's call, its response channel,    *)
(* its entries in the maps of both peers and the handler's decision, and   *)
(* that every step keeps it, request by request, of any set of requests.   *)
(***************************************************************************)
EXTENDS Exchanges, SequenceTheorems, TLAPS

\* What a control stream holds: some message of M, at most one, none of M
\* behind one of N.
Has(q, M) == \E i \in 1..Len(q) : q[i] \in M
Once(q, M) == \A i, j \in 1..Len(q) : q[i] \in M /\ q[j] \in M => i = j
Before(q, M, N) == \A i, j \in 1..Len(q) : q[i] \in M /\ q[j] \in N => i < j

-----------------------------------------------------------------------------
\* What Append and Tail do to what a control stream holds.

LEMMA AppendAt ==
    ASSUME NEW S, NEW q \in Seq(S), NEW m \in S
    PROVE  /\ Append(q, m) \in Seq(S)
           /\ Len(q) \in Nat /\ Len(Append(q, m)) = Len(q) + 1
           /\ \A i \in 1..Len(q) : Append(q, m)[i] = q[i]
           /\ Append(q, m)[Len(q) + 1] = m
BY AppendProperties, LenProperties

LEMMA AppendType ==
    ASSUME NEW S, NEW q \in Seq(S), NEW m \in S
    PROVE  Append(q, m) \in Seq(S)
BY AppendProperties

LEMMA TailAt ==
    ASSUME NEW S, NEW q \in Seq(S), q # <<>>
    PROVE  /\ Tail(q) \in Seq(S) /\ Head(q) \in S /\ Head(q) = q[1]
           /\ Len(q) \in Nat \ {0} /\ Len(Tail(q)) = Len(q) - 1
           /\ \A i \in 1..Len(Tail(q)) : i + 1 \in 1..Len(q) /\ Tail(q)[i] = q[i + 1]
<1>1. /\ Tail(q) \in Seq(S) /\ Head(q) \in S /\ Head(q) = q[1]
      /\ Len(q) \in Nat \ {0} /\ Len(Tail(q)) = Len(q) - 1
  BY HeadTailProperties, LenProperties, EmptySeq
<1>2. \A i \in 1..Len(Tail(q)) : i + 1 \in 1..Len(q) /\ Tail(q)[i] = q[i + 1]
  BY <1>1, HeadTailProperties
<1>. QED  BY <1>1, <1>2

\* After a write a stream holds what it held, then the message written.
LEMMA Written ==
    ASSUME NEW S, NEW q \in Seq(S), NEW m \in S
    PROVE  /\ Append(q, m) \in Seq(S)
           /\ \A M : Has(Append(q, m), M) <=> Has(q, M) \/ m \in M
           /\ \A M : Once(q, M) /\ (m \in M => ~Has(q, M)) => Once(Append(q, m), M)
           /\ \A M, N : Before(q, M, N) /\ (m \in M => ~Has(q, N) /\ m \notin N)
                           => Before(Append(q, m), M, N)
<1> DEFINE p == Append(q, m)
<1>1. /\ p \in Seq(S) /\ Len(q) \in Nat /\ Len(p) = Len(q) + 1 /\ p[Len(q) + 1] = m
      /\ \A i \in 1..Len(q) : p[i] = q[i]
  BY AppendAt
<1> HIDE DEF p
<1>2. \A i \in 1..Len(p) : i = Len(q) + 1 \/ i \in 1..Len(q)
  BY <1>1
<1>3. \A i \in 1..Len(q) : i \in 1..Len(p) /\ i < Len(q) + 1
  BY <1>1
<1>4. Len(q) + 1 \in 1..Len(p)
  BY <1>1
<1>5. ASSUME NEW M PROVE Has(p, M) <=> Has(q, M) \/ m \in M
  BY Zenon, <1>1, <1>2, <1>3, <1>4 DEF Has
<1>6. ASSUME NEW M, Once(q, M), m \in M => ~Has(q, M) PROVE Once(p, M)
  BY Zenon, <1>1, <1>2, <1>6 DEF Has, Once
<1>7. ASSUME NEW M, NEW N, Before(q, M, N), m \in M => ~Has(q, N) /\ m \notin N
      PROVE  Before(p, M, N)
  BY Zenon, <1>1, <1>2, <1>3, <1>7 DEF Has, Before
<1>. QED  BY <1>1, <1>5, <1>6, <1>7 DEF p

\* After a read a stream holds what it held but for the message read.
LEMMA ReadOff ==
    ASSUME NEW S, NEW q \in Seq(S), q # <<>>
    PROVE  /\ Tail(q) \in Seq(S) /\ Head(q) \in S
           /\ \A M : Has(q, M) <=> Has(Tail(q), M) \/ Head(q) \in M
           /\ \A M : Once(q, M) /\ Head(q) \in M => ~Has(Tail(q), M)
           /\ \A M : Once(q, M) => Once(Tail(q), M)
           /\ \A M, N : Before(q, M, N) =>
                 Before(Tail(q), M, N) /\ (Head(q) \in N => ~Has(q, M))
<1> DEFINE p == Tail(q)
<1>1. /\ p \in Seq(S) /\ Head(q) \in S /\ Head(q) = q[1] /\ Len(q) \in Nat \ {0} /\ Len(p) = Len(q) - 1
      /\ \A i \in 1..Len(p) : i + 1 \in 1..Len(q) /\ p[i] = q[i + 1]
  BY TailAt
<1> HIDE DEF p
<1>2. \A i \in 1..Len(q) : i = 1 \/ \E j \in 1..Len(p) : i = j + 1
  <2> SUFFICES ASSUME NEW i \in 1..Len(q), i # 1 PROVE \E j \in 1..Len(p) : i = j + 1
    OBVIOUS
  <2>1. i - 1 \in 1..Len(p) /\ i = (i - 1) + 1
    BY <1>1
  <2>. QED  BY <2>1
<1>3. 1 \in 1..Len(q) /\ \A i \in 1..Len(p) : i + 1 # 1
  BY <1>1
<1>4. \A i, j \in 1..Len(p) : (i + 1 = j + 1 => i = j) /\ (i + 1 < j + 1 => i < j)
  BY <1>1
<1>5. \A i \in 1..Len(q) : ~(i < 1)
  OBVIOUS
<1>6. ASSUME NEW M PROVE Has(q, M) <=> Has(p, M) \/ Head(q) \in M
  BY Zenon, <1>1, <1>2, <1>3 DEF Has
<1>7. ASSUME NEW M, Once(q, M), Head(q) \in M PROVE ~Has(p, M)
  BY Zenon, <1>1, <1>3, <1>7 DEF Has, Once
<1>8. ASSUME NEW M, Once(q, M) PROVE Once(p, M)
  BY Zenon, <1>1, <1>4, <1>8 DEF Once
<1>9. ASSUME NEW M, NEW N, Before(q, M, N) PROVE Before(p, M, N)
  <2> SUFFICES ASSUME NEW i \in 1..Len(p), NEW j \in 1..Len(p), p[i] \in M, p[j] \in N PROVE i < j
    BY DEF Before
  <2>1. i + 1 < j + 1
    BY <1>1, <1>9 DEF Before
  <2>. QED  BY <2>1
<1>10. ASSUME NEW M, NEW N, Before(q, M, N), Head(q) \in N PROVE ~Has(q, M)
  BY Zenon, <1>1, <1>3, <1>5, <1>10 DEF Has, Before
<1>. QED  BY <1>1, <1>6, <1>7, <1>8, <1>9, <1>10 DEF p

-----------------------------------------------------------------------------
\* Type correctness

CallStates == {"idle", "waiting", "accepted", "refused", "cancelled", "unsent"}
Readers == [{"requester", "responder"} -> {"reading"} \cup Errors]

LEMMA UpdateType ==
    ASSUME NEW A, NEW B, NEW f \in [A -> B], NEW a, NEW b \in B
    PROVE  [f EXCEPT ![a] = b] \in [A -> B]
BY Zenon

LEMMA UpdateAt ==
    ASSUME NEW A, NEW B, NEW f \in [A -> B], NEW a, NEW b \in B
    PROVE  /\ [f EXCEPT ![a] = b] \in [A -> B]
           /\ a \in A => [f EXCEPT ![a] = b][a] = b
           /\ \A c \in A : c # a => [f EXCEPT ![a] = b][c] = f[c]
BY Zenon

LEMMA FewEnough ==
    /\ AtMostOne({})
    /\ \A x : AtMostOne({x})
BY DEF AtMostOne

LEMMA CallRecord ==
    ASSUME NEW c \in Call, NEW x, NEW g
    PROVE  /\ [c EXCEPT !.at = x] = [at |-> x, kind |-> c.kind, ns |-> c.ns, got |-> c.got]
           /\ [c EXCEPT !.at = x, !.got = g] = [at |-> x, kind |-> c.kind, ns |-> c.ns, got |-> g]
<1>1. [c EXCEPT !.at = x] = [at |-> x, kind |-> c.kind, ns |-> c.ns, got |-> c.got]
  BY DEF Call
<1>2. [c EXCEPT !.at = x, !.got = g] = [[c EXCEPT !.at = x] EXCEPT !.got = g]
  BY DEF Call
<1>3. [[at |-> x, kind |-> c.kind, ns |-> c.ns, got |-> c.got] EXCEPT !.got = g]
         = [at |-> x, kind |-> c.kind, ns |-> c.ns, got |-> g]
  OBVIOUS
<1>. QED  BY Zenon, <1>1, <1>2, <1>3

\* A call moves to another state, and keeps its kind and namespace.
LEMMA CallMoves ==
    ASSUME call \in [Requests -> Call], NEW s \in Requests, NEW x \in CallStates,
           call' = [call EXCEPT ![s].at = x]
    PROVE  /\ call' \in [Requests -> Call]
           /\ call'[s].at = x /\ call'[s].got = call[s].got
           /\ call'[s].kind = call[s].kind /\ call'[s].ns = call[s].ns
           /\ \A r \in Requests : r # s => call'[r] = call[r]
<1> DEFINE c == [at |-> x, kind |-> call[s].kind, ns |-> call[s].ns, got |-> call[s].got]
<1>1. call[s] \in Call
  OBVIOUS
<1>2. c \in Call
  BY <1>1 DEF Call, CallStates
<1>3. [call[s] EXCEPT !.at = x] = c
  BY Zenon, <1>1, CallRecord
<1>4. call' = [call EXCEPT ![s] = c]
  BY Zenon, <1>3
<1>5. c.at = x /\ c.got = call[s].got /\ c.kind = call[s].kind /\ c.ns = call[s].ns
  OBVIOUS
<1> HIDE DEF c
<1>6. call' \in [Requests -> Call] /\ call'[s] = c /\ \A r \in Requests : r # s => call'[r] = call[r]
  BY <1>2, <1>4
<1>. QED  BY Zenon, <1>5, <1>6

\* ... or takes answer a.
LEMMA CallTakes ==
    ASSUME call \in [Requests -> Call], NEW s \in Requests, NEW a \in Answer,
           call' = [call EXCEPT ![s].at = IF a.ok THEN "accepted" ELSE "refused", ![s].got = {a.ns}]
    PROVE  /\ call' \in [Requests -> Call]
           /\ call'[s].at = (IF a.ok THEN "accepted" ELSE "refused") /\ call'[s].got = {a.ns}
           /\ call'[s].kind = call[s].kind /\ call'[s].ns = call[s].ns
           /\ \A r \in Requests : r # s => call'[r] = call[r]
<1> DEFINE x == IF a.ok THEN "accepted" ELSE "refused"
           g == {a.ns}
           c == [at |-> x, kind |-> call[s].kind, ns |-> call[s].ns, got |-> g]
<1>1. call[s] \in Call
  OBVIOUS
<1>2. c \in Call
  BY <1>1 DEF Call, Answer
<1>3. [call[s] EXCEPT !.at = x, !.got = g] = c
  BY Zenon, <1>1, CallRecord
<1>4. call' = [call EXCEPT ![s] = c]
  BY Zenon, <1>3
<1>5. c.at = x /\ c.got = g /\ c.kind = call[s].kind /\ c.ns = call[s].ns
  OBVIOUS
<1> HIDE DEF c
<1>6. call' \in [Requests -> Call] /\ call'[s] = c /\ \A r \in Requests : r # s => call'[r] = call[r]
  BY <1>2, <1>4
<1>. QED  BY Zenon, <1>5, <1>6 DEF x, g

LEMMA MsgType ==
    ASSUME NEW t \in AllKinds \cup {"UNANNOUNCE", "UNSUBSCRIBE_ANNOUNCES", "ANNOUNCE_CANCEL", "FETCH_CANCEL", "ANSWER"},
           NEW k \in AllKinds, NEW i \in Nat, NEW ns \in Namespaces, NEW ok \in BOOLEAN
    PROVE  Msg(t, k, i, ns, ok) \in Message
BY DEF Msg, Message

\* FETCH_CANCEL, and the failure of Fetch.
LEMMA FetchCancelType ==
    ASSUME TypeOK, NEW s \in Requests, FetchCancel(s)
    PROVE  toResp' \in Seq(Message)
<1>1. toResp \in Seq(Message) /\ call[s].ns \in Namespaces /\ s \in Nat
  BY ExchangesAssumption DEF TypeOK, Call
<1>2. Msg("FETCH_CANCEL", "FETCH", s, call[s].ns, TRUE) \in Message
  BY <1>1, MsgType DEF AllKinds
<1>. QED  BY <1>1, <1>2, Written DEF FetchCancel

LEMMA FetchFailsType ==
    ASSUME TypeOK, NEW s \in Requests, FetchFails(s)
    PROVE  toResp' \in Seq(Message) /\ out' \in [Requests -> Places]
<1>1. toResp' \in Seq(Message)
  BY FetchCancelType DEF FetchFails
<1>2. out \in [Requests -> Places]
  BY DEF TypeOK
<1>3. (IF out[s] = "pending" THEN "none" ELSE out[s]) \in Places
  BY <1>2 DEF Places
<1>. QED  BY Zenon, <1>1, <1>2, <1>3, UpdateType DEF FetchFails

LEMMA TypeRequest ==
    ASSUME TypeOK, NEW s \in Requests, NEW kind, NEW m \in Message, NEW place \in Places, Request(s, kind, m, place)
    PROVE  TypeOK'
<1>1. toResp \in Seq(Message) /\ call \in [Requests -> Call] /\ out \in [Requests -> Places]
      /\ call[s].got \in SUBSET Namespaces
  BY DEF TypeOK, Call
<1>2. toResp' \in Seq(Message)
  BY <1>1, Written DEF Request
<1>3. call' \in [Requests -> Call]
  <2>1. "waiting" \in CallStates /\ "unsent" \in CallStates
    BY DEF CallStates
  <2>2. call' = [call EXCEPT ![s].at = "waiting"] \/ call' = [call EXCEPT ![s].at = "unsent"]
    BY DEF Request
  <2>. QED  BY Zenon, <1>1, <2>1, <2>2, CallMoves
<1>4. out' \in [Requests -> Places]
  <2>1. "pending" \in Places
    BY DEF Places
  <2>2. out' = [out EXCEPT ![s] = "pending"] \/ out' = [out EXCEPT ![s] = place]
    BY DEF Request
  <2>. QED  BY Zenon, <1>1, <2>1, <2>2, UpdateType
<1>5. UNCHANGED <<response, incoming, handling, reader, toReq, withdraws, decided, deleted, removed, unannounced>>
  BY DEF Request, history
<1>. QED  BY Zenon, <1>2, <1>3, <1>4, <1>5 DEF TypeOK

\* Every call of the requester is of this form.
LEMMA RequestForms ==
    ASSUME TypeOK, NEW s \in Requests
    PROVE  /\ Announce(s) => Request(s, "ANNOUNCE", Msg("ANNOUNCE", "ANNOUNCE", s, call[s].ns, TRUE), "none")
           /\ SubscribeAnnouncements(s) =>
                 Request(s, "SUBSCRIBE_ANNOUNCES", Msg("SUBSCRIBE_ANNOUNCES", "SUBSCRIBE_ANNOUNCES", s, call[s].ns, TRUE), "none")
           /\ Fetch(s) => Request(s, "FETCH", Msg("FETCH", "FETCH", s, call[s].ns, TRUE), "none")
           /\ RequestTrackStatus(s) =>
                 Request(s, "TRACK_STATUS_REQUEST", Msg("TRACK_STATUS_REQUEST", "TRACK_STATUS_REQUEST", 0, call[s].ns, TRUE), "pending")
           /\ \A k \in AllKinds : /\ Msg(k, k, s, call[s].ns, TRUE) \in Message
                                  /\ Msg(k, k, 0, call[s].ns, TRUE) \in Message
<1>1. s \in Nat /\ call[s].ns \in Namespaces
  BY ExchangesAssumption DEF TypeOK, Call
<1>. QED  BY <1>1, MsgType DEF Announce, SubscribeAnnouncements, Fetch, RequestTrackStatus

LEMMA TypeTakeResponse ==
    ASSUME TypeOK, NEW s \in Requests, TakeResponse(s)
    PROVE  TypeOK'
<1>1. PICK a \in response[s] :
          /\ call' = [call EXCEPT ![s].at = IF a.ok THEN "accepted" ELSE "refused", ![s].got = {a.ns}]
          /\ IF call[s].kind = "FETCH" /\ ~a.ok THEN FetchFails(s) ELSE UNCHANGED <<out, toResp>>
  BY DEF TakeResponse
<1>2. call \in [Requests -> Call] /\ response \in [Requests -> SUBSET Answer] /\ a \in Answer
  BY DEF TypeOK
<1>3. call' = [call EXCEPT ![s].at = IF a.ok THEN "accepted" ELSE "refused", ![s].got = {a.ns}]
  BY <1>1
<1>4. call' \in [Requests -> Call]
  BY Zenon, <1>2, <1>3, CallTakes
<1>5. toResp' \in Seq(Message) /\ out' \in [Requests -> Places]
  BY <1>1, FetchFailsType DEF TypeOK
<1>6. response' \in [Requests -> SUBSET Answer] /\ \A r \in Requests : AtMostOne(response'[r])
  <2>1. \A r \in Requests : AtMostOne(response[r])
    BY DEF TypeOK
  <2>. QED  BY <1>2, <2>1, UpdateType, FewEnough DEF TakeResponse
<1>7. UNCHANGED <<incoming, handling, reader, toReq, withdraws, decided, deleted, removed, unannounced>>
  BY DEF TakeResponse, history
<1>. QED  BY Zenon, <1>4, <1>5, <1>6, <1>7 DEF TypeOK

LEMMA TypeCallCtxDone ==
    ASSUME TypeOK, NEW s \in Requests, CallCtxDone(s)
    PROVE  TypeOK'
<1>1. call \in [Requests -> Call] /\ call[s].got \in SUBSET Namespaces /\ "cancelled" \in CallStates
  BY DEF TypeOK, Call, CallStates
<1>2. call' \in [Requests -> Call]
  BY <1>1, CallMoves DEF CallCtxDone
<1>3. toResp' \in Seq(Message) /\ out' \in [Requests -> Places]
  BY FetchFailsType DEF CallCtxDone, TypeOK
<1>4. UNCHANGED <<response, incoming, handling, reader, toReq, withdraws, decided, deleted, removed, unannounced>>
  BY DEF CallCtxDone, history
<1>. QED  BY Zenon, <1>2, <1>3, <1>4 DEF TypeOK

\* The withdrawing calls of both sides.
LEMMA WithdrawType ==
    ASSUME TypeOK, Withdraw
    PROVE  withdraws' \in 0..MaxWithdraws /\ withdraws' = withdraws + 1 /\ withdraws \in Nat
BY ExchangesAssumption DEF TypeOK, Withdraw

LEMMA DeletesType ==
    ASSUME NEW place, NEW kind, NEW ns
    PROVE  /\ Deletes(place, kind, ns) \subseteq Requests
           /\ \A r \in Deletes(place, kind, ns) :
                 place[r] \in {"pending", "announced"} /\ call[r].kind = kind /\ call[r].ns = ns
<1>1. \A r \in Deletes(place, kind, ns) :
         r \in Requests /\ place[r] \in {"pending", "announced"} /\ call[r].kind = kind /\ call[r].ns = ns
  BY DEF Deletes
<1>. QED  BY <1>1

LEMMA TypeWithdrawals ==
    ASSUME TypeOK, NEW ns \in Namespaces,
           Unannounce(ns) \/ UnsubscribeAnnouncements(ns) \/ AnnounceCancel(ns)
    PROVE  TypeOK'
<1>1. withdraws' \in 0..MaxWithdraws
  BY WithdrawType DEF Unannounce, UnsubscribeAnnouncements, AnnounceCancel
<1>2. /\ Msg("UNANNOUNCE", "ANNOUNCE", 0, ns, TRUE) \in Message
      /\ Msg("UNSUBSCRIBE_ANNOUNCES", "SUBSCRIBE_ANNOUNCES", 0, ns, TRUE) \in Message
      /\ Msg("ANNOUNCE_CANCEL", "ANNOUNCE", 0, ns, TRUE) \in Message
  BY MsgType DEF AllKinds
<1>3. /\ toResp \in Seq(Message) /\ toReq \in Seq(Message) /\ deleted \subseteq Requests /\ removed \subseteq Requests
      /\ out \in [Requests -> Places] /\ incoming \in [Requests -> Places] /\ "none" \in Places
      /\ unannounced \subseteq [ns : Namespaces, unknown : BOOLEAN, announced : BOOLEAN]
  BY DEF TypeOK, Places
<1>4. CASE Unannounce(ns)
  <2>1. toResp' \in Seq(Message)
    <3>1. UNCHANGED toResp \/ toResp' = Append(toResp, Msg("UNANNOUNCE", "ANNOUNCE", 0, ns, TRUE))
      BY Zenon, <1>4 DEF Unannounce
    <3>. QED  BY Zenon, <1>2, <1>3, <3>1, AppendType
  <2>2. out' \in [Requests -> Places] /\ deleted' \subseteq Requests
    <3>1. CASE UNCHANGED <<out, deleted>>
      BY <1>3, <3>1
    <3>2. CASE \E r \in Deletes(out, "ANNOUNCE", ns) :
                  out' = [out EXCEPT ![r] = "none"] /\ deleted' = (IF out[r] = "pending" THEN deleted \cup {r} ELSE deleted)
      BY <1>3, <3>2, DeletesType, UpdateType
    <3>. QED  BY <1>4, <3>1, <3>2 DEF Unannounce
  <2>3. unannounced' \subseteq [ns : Namespaces, unknown : BOOLEAN, announced : BOOLEAN]
    <3>1. PICK x \in BOOLEAN, y \in BOOLEAN :
             unannounced' = unannounced \cup {[ns |-> ns, unknown |-> x, announced |-> y]}
      BY Zenon, <1>4 DEF Unannounce
    <3>. QED  BY <1>3, <3>1
  <2>4. UNCHANGED <<call, response, incoming, handling, reader, toReq, decided, removed>>
    BY <1>4 DEF Unannounce
  <2>. QED  BY Zenon, <1>1, <2>1, <2>2, <2>3, <2>4 DEF TypeOK
<1>5. CASE UnsubscribeAnnouncements(ns)
  <2>1. toResp' \in Seq(Message)
    <3>1. toResp' = Append(toResp, Msg("UNSUBSCRIBE_ANNOUNCES", "SUBSCRIBE_ANNOUNCES", 0, ns, TRUE))
      BY Zenon, <1>5 DEF UnsubscribeAnnouncements
    <3>. QED  BY Zenon, <1>2, <1>3, <3>1, AppendType
  <2>2. out' \in [Requests -> Places] /\ deleted' \subseteq Requests
    <3>1. UNCHANGED <<out, deleted>>
          \/ \E r \in Deletes(out, "SUBSCRIBE_ANNOUNCES", ns) :
                out' = [out EXCEPT ![r] = "none"] /\ deleted' = deleted \cup {r}
      BY <1>5 DEF UnsubscribeAnnouncements
    <3>. QED  BY <1>3, <3>1, DeletesType, UpdateType
  <2>3. UNCHANGED <<call, response, incoming, handling, reader, toReq, decided, removed, unannounced>>
    BY <1>5 DEF UnsubscribeAnnouncements
  <2>. QED  BY Zenon, <1>1, <2>1, <2>2, <2>3 DEF TypeOK
<1>6. CASE AnnounceCancel(ns)
  <2>1. toReq' \in Seq(Message)
    <3>1. toReq' = Append(toReq, Msg("ANNOUNCE_CANCEL", "ANNOUNCE", 0, ns, TRUE))
      BY Zenon, <1>6 DEF AnnounceCancel
    <3>. QED  BY Zenon, <1>2, <1>3, <3>1, AppendType
  <2>2. incoming' \in [Requests -> Places] /\ removed' \subseteq Requests
    <3>1. \E r \in Deletes(incoming, "ANNOUNCE", ns) :
             incoming' = [incoming EXCEPT ![r] = "none"] /\ removed' = removed \cup {r}
      BY <1>6 DEF AnnounceCancel
    <3>. QED  BY <1>3, <3>1, DeletesType, UpdateType
  <2>3. UNCHANGED <<call, out, response, handling, reader, toResp, decided, deleted, unannounced>>
    BY <1>6 DEF AnnounceCancel, requester
  <2>. QED  BY Zenon, <1>1, <2>1, <2>2, <2>3 DEF TypeOK
<1>. QED  BY <1>4, <1>5, <1>6

LEMMA TypeCloseFetch ==
    ASSUME TypeOK, NEW s \in Requests, CloseFetch(s)
    PROVE  TypeOK'
<1>1. withdraws' \in 0..MaxWithdraws /\ toResp' \in Seq(Message)
  BY WithdrawType, FetchCancelType DEF CloseFetch
<1>2. UNCHANGED <<call, out, response, incoming, handling, reader, toReq, decided, deleted, removed, unannounced>>
  BY DEF CloseFetch, requester, history
<1>. QED  BY Zenon, <1>1, <1>2 DEF TypeOK

\* The two control readers.
LEMMA RespTakesType ==
    ASSUME TypeOK, RespTakes
    PROVE  toResp \in Seq(Message) /\ toResp # <<>> /\ toResp' = Tail(toResp)
           /\ toResp' \in Seq(Message) /\ Head(toResp) \in Message
<1>1. toResp \in Seq(Message) /\ toResp # <<>> /\ toResp' = Tail(toResp)
  BY DEF TypeOK, RespTakes
<1>. QED  BY <1>1, ReadOff

LEMMA ReqReadsType ==
    ASSUME TypeOK, NEW t, ReqReads(t)
    PROVE  toReq \in Seq(Message) /\ toReq # <<>> /\ toReq' = Tail(toReq)
           /\ toReq' \in Seq(Message) /\ Head(toReq) \in Message
<1>1. toReq \in Seq(Message) /\ toReq # <<>> /\ toReq' = Tail(toReq)
  BY DEF TypeOK, ReqReads
<1>. QED  BY <1>1, ReadOff

LEMMA DiesType ==
    ASSUME TypeOK, NEW side, NEW err \in Errors
    PROVE  [reader EXCEPT ![side] = err] \in Readers
<1>1. reader \in Readers /\ err \in {"reading"} \cup Errors
  BY DEF TypeOK, Readers
<1>. QED  BY Zenon, <1>1, UpdateType DEF Readers

LEMMA TypeRespReader ==
    ASSUME TypeOK, RespReader
    PROVE  TypeOK'
<1>1. RespTakes
  BY DEF RespReader, OnAnnounce, OnSubscribeAnnounces, OnTrackStatusRequest, OnFetch,
         OnUnannounce, OnUnsubscribeAnnounces, OnFetchCancel, OnBadNamespace, RespReads
<1>2. toResp' \in Seq(Message) /\ Head(toResp) \in Message
  BY <1>1, RespTakesType
<1>3. incoming \in [Requests -> Places] /\ "none" \in Places /\ "pending" \in Places
  BY DEF TypeOK, Places
<1>4. CASE OnAnnounce \/ OnSubscribeAnnounces \/ OnFetch \/ OnTrackStatusRequest
  <2>1. handling' = {Head(toResp)}
        /\ (UNCHANGED incoming \/ incoming' = [incoming EXCEPT ![Head(toResp).id] = "pending"])
        /\ UNCHANGED <<call, out, response, reader, toReq, withdraws, decided, deleted, removed, unannounced>>
    BY Zenon, <1>4 DEF OnAnnounce, OnSubscribeAnnounces, OnFetch, OnTrackStatusRequest, Calls, requester, history
  <2>2. incoming' \in [Requests -> Places] /\ handling' \subseteq Message /\ AtMostOne(handling')
    <3>1. incoming' \in [Requests -> Places]
      BY Zenon, <1>3, <2>1, UpdateType
    <3>. QED  BY Zenon, <1>2, <2>1, <3>1, FewEnough
  <2>. QED  BY Zenon, <1>2, <2>1, <2>2 DEF TypeOK
<1>5. CASE OnUnannounce \/ OnFetchCancel \/ OnUnsubscribeAnnounces \/ OnBadNamespace
  <2>1. UNCHANGED <<call, out, response, handling, toReq, withdraws, decided, deleted, unannounced>>
    BY Zenon, <1>5 DEF OnUnannounce, OnFetchCancel, OnUnsubscribeAnnounces, OnBadNamespace, requester, history
  <2>2. reader' \in Readers
    <3>1. \/ UNCHANGED reader
          \/ \E err \in Errors : reader' = [reader EXCEPT !["responder"] = err]
      BY <1>5 DEF OnUnannounce, OnFetchCancel, OnUnsubscribeAnnounces, OnBadNamespace, Errors
    <3>2. reader \in Readers
      BY DEF TypeOK, Readers
    <3>. QED  BY <3>1, <3>2, DiesType
  <2>3. incoming' \in [Requests -> Places]
    <3>1. UNCHANGED incoming \/ \E r : incoming' = [incoming EXCEPT ![r] = "none"]
      BY Zenon, <1>5 DEF OnUnannounce, OnFetchCancel, OnUnsubscribeAnnounces, OnBadNamespace
    <3>. QED  BY Zenon, <1>3, <3>1, UpdateType
  <2>4. removed' \subseteq Requests
    <3>1. UNCHANGED removed \/ \E r \in Deletes(incoming, "ANNOUNCE", Head(toResp).ns) : removed' = removed \cup {r}
      BY Zenon, <1>5 DEF OnUnannounce, OnFetchCancel, OnUnsubscribeAnnounces, OnBadNamespace, history
    <3>. QED  BY <3>1, DeletesType DEF TypeOK
  <2>. QED  BY Zenon, <1>2, <2>1, <2>2, <2>3, <2>4 DEF TypeOK, Readers
<1>. QED  BY <1>4, <1>5 DEF RespReader

\* Every message that is an answer is handled in this form.
AnswerForm(kind, ok, place, err) ==
    /\ kind \in AllKinds /\ ok \in BOOLEAN /\ place \in Places /\ err \in Errors
    /\ kind \in {"ANNOUNCE", "FETCH"} => place = IF ok THEN "announced" ELSE "none"
    /\ kind = "SUBSCRIBE_ANNOUNCES" => place = "none"
    /\ kind = "TRACK_STATUS_REQUEST" => place = "pending" /\ err = "errUnknownTrackStatusRequest"
    /\ kind = "FETCH" => err = "errUnknownRequestID"
    /\ kind \in {"ANNOUNCE", "SUBSCRIBE_ANNOUNCES"} =>
          err \in {"errUnknownAnnouncement", "errUnknownSubscribeAnnouncesPrefix"}

LEMMA AnswerForms ==
    ASSUME ReqReader
    PROVE  \/ OnAnnounceCancel
           \/ \E kind, ok, place, err :
                 /\ AnswerForm(kind, ok, place, err)
                 /\ Answered(kind, ok, place, err)
                 /\ \/ UNCHANGED toResp
                    \/ kind = "FETCH" /\ FindsPending(Head(toReq)) /\ response[Head(toReq).id] # {} /\ FetchCancel(Head(toReq).id)
<1>1. /\ AnswerForm("ANNOUNCE", TRUE, "announced", "errUnknownAnnouncement")
      /\ AnswerForm("ANNOUNCE", FALSE, "none", "errUnknownAnnouncement")
      /\ AnswerForm("SUBSCRIBE_ANNOUNCES", TRUE, "none", "errUnknownSubscribeAnnouncesPrefix")
      /\ AnswerForm("SUBSCRIBE_ANNOUNCES", FALSE, "none", "errUnknownSubscribeAnnouncesPrefix")
      /\ AnswerForm("TRACK_STATUS_REQUEST", TRUE, "pending", "errUnknownTrackStatusRequest")
      /\ AnswerForm("FETCH", TRUE, "announced", "errUnknownRequestID")
      /\ AnswerForm("FETCH", FALSE, "none", "errUnknownRequestID")
  BY DEF AnswerForm, AllKinds, Places, Errors
<1>. QED  BY Zenon, <1>1 DEF ReqReader, OnAnnounceOk, OnAnnounceError, OnSubscribeAnnouncesOk, OnSubscribeAnnouncesError,
                            OnTrackStatus, OnFetchOk, OnFetchError

LEMMA TypeReqReader ==
    ASSUME TypeOK, ReqReader
    PROVE  TypeOK'
<1>1. reader \in Readers /\ out \in [Requests -> Places] /\ response \in [Requests -> SUBSET Answer]
      /\ \A r \in Requests : AtMostOne(response[r])
  BY DEF TypeOK, Readers
<1>2. CASE OnAnnounceCancel
  <2>1. toReq' \in Seq(Message) /\ "errLengthMismatch" \in Errors
    BY <1>2, ReqReadsType DEF OnAnnounceCancel, Errors
  <2>2. reader' \in Readers
    BY <1>2, <2>1, DiesType DEF OnAnnounceCancel
  <2>3. UNCHANGED <<call, out, response, incoming, handling, toResp, withdraws, decided, deleted, removed, unannounced>>
    BY <1>2 DEF OnAnnounceCancel, requester, history
  <2>. QED  BY Zenon, <2>1, <2>2, <2>3 DEF TypeOK, Readers
<1>3. ASSUME NEW kind, NEW ok, NEW place, NEW err, AnswerForm(kind, ok, place, err), Answered(kind, ok, place, err),
             UNCHANGED toResp \/ (FindsPending(Head(toReq)) /\ FetchCancel(Head(toReq).id))
      PROVE  TypeOK'
  <2> DEFINE m == Head(toReq)
  <2>1. ok \in BOOLEAN /\ place \in Places /\ err \in Errors
    BY <1>3 DEF AnswerForm
  <2>2. toReq' \in Seq(Message) /\ m \in Message
    BY <1>3, ReqReadsType DEF Answered
  <2>3. [ok |-> ok, ns |-> m.ns] \in Answer
    BY <2>1, <2>2 DEF Message, Answer
  <2>4. toResp' \in Seq(Message)
    BY <1>3, FetchCancelType DEF FindsPending, TypeOK
  <2>5. \/ /\ m.id \in Requests /\ out' = [out EXCEPT ![m.id] = place] /\ UNCHANGED reader
           /\ response' = [response EXCEPT ![m.id] = IF @ = {} THEN {[ok |-> ok, ns |-> m.ns]} ELSE @]
        \/ UNCHANGED <<out, response>> /\ reader' = [reader EXCEPT !["requester"] = err]
    BY Zenon, <1>3 DEF Answered, FindsPending
  <2>6. reader' \in Readers
    <3>1. UNCHANGED reader \/ reader' = [reader EXCEPT !["requester"] = err]
      BY Zenon, <2>5
    <3>2. [reader EXCEPT !["requester"] = err] \in Readers
      BY <2>1, DiesType
    <3>. QED  BY Zenon, <1>1, <3>1, <3>2
  <2>7. out' \in [Requests -> Places]
    BY <1>1, <2>1, <2>5, UpdateType
  <2>8. response' \in [Requests -> SUBSET Answer] /\ \A r \in Requests : AtMostOne(response'[r])
    <3>1. CASE UNCHANGED response
      BY <1>1, <3>1
    <3>2. CASE m.id \in Requests /\ response' = [response EXCEPT ![m.id] = IF @ = {} THEN {[ok |-> ok, ns |-> m.ns]} ELSE @]
      <4> DEFINE new == IF response[m.id] = {} THEN {[ok |-> ok, ns |-> m.ns]} ELSE response[m.id]
      <4>1. new \in SUBSET Answer /\ AtMostOne(new) /\ response' = [response EXCEPT ![m.id] = new]
        BY <1>1, <2>3, <3>2, FewEnough
      <4> HIDE DEF new
      <4>. QED  BY <1>1, <3>2, <4>1, UpdateAt
    <3>. QED  BY <2>5, <3>1, <3>2
  <2>9. UNCHANGED <<call, incoming, handling, withdraws, decided, deleted, removed, unannounced>>
    BY <1>3 DEF Answered, history
  <2>. QED  BY Zenon, <2>2, <2>4, <2>6, <2>7, <2>8, <2>9 DEF TypeOK, Readers
<1>. QED  BY Zenon, <1>2, <1>3, AnswerForms

LEMMA TypeHandle ==
    ASSUME TypeOK, NEW m \in handling, Handle(m)
    PROVE  TypeOK'
<1>1. /\ m \in Message /\ toReq \in Seq(Message) /\ incoming \in [Requests -> Places]
      /\ decided \in [Requests -> {"nothing", "accept", "reject"}]
  BY DEF TypeOK
<1>2. \A ok \in BOOLEAN : Msg("ANSWER", m.kind, m.id, m.ns, ok) \in Message /\ Msg("ANSWER", m.kind, 0, m.ns, ok) \in Message
  <2>1. m.kind \in AllKinds /\ m.id \in Nat /\ m.ns \in Namespaces
    BY <1>1 DEF Message
  <2>. QED  BY <2>1, MsgType
<1>3. /\ \/ UNCHANGED <<toReq, decided>>
         \/ SendAnswer(m, TRUE) \/ SendAnswer(m, FALSE)
         \/ UNCHANGED decided /\ toReq' = Append(toReq, Msg("ANSWER", m.kind, 0, m.ns, TRUE))
      /\ \/ UNCHANGED incoming
         \/ incoming' = [incoming EXCEPT ![m.id] = "announced"]
         \/ incoming' = [incoming EXCEPT ![m.id] = "none"]
  BY Zenon DEF Handle, AcceptAnnouncement, RejectAnnouncement, AcceptAnnouncementSubscription,
               RejectAnnouncementSubscription, AcceptFetch, RejectFetch, SendTrackStatus
<1>4. toReq' \in Seq(Message)
  <2>1. UNCHANGED toReq \/ \E a \in Message : toReq' = Append(toReq, a)
    BY <1>2, <1>3 DEF SendAnswer
  <2>. QED  BY Zenon, <1>1, <2>1, AppendType
<1>5. decided' \in [Requests -> {"nothing", "accept", "reject"}]
  <2>1. UNCHANGED decided \/ \E d \in {"nothing", "accept", "reject"} : decided' = [decided EXCEPT ![m.id] = d]
    BY <1>3 DEF SendAnswer
  <2>. QED  BY Zenon, <1>1, <2>1, UpdateType
<1>6. incoming' \in [Requests -> Places]
  <2>1. "announced" \in Places /\ "none" \in Places
    BY DEF Places
  <2>. QED  BY Zenon, <1>1, <1>3, <2>1, UpdateType
<1>7. handling' \subseteq Message /\ AtMostOne(handling')
  BY FewEnough DEF Handle
<1>8. UNCHANGED <<call, out, response, reader, toResp, withdraws, deleted, removed, unannounced>>
  BY Zenon DEF Handle, requester
<1>. QED  BY Zenon, <1>4, <1>5, <1>6, <1>7, <1>8 DEF TypeOK

LEMMA TypeInductive == TypeOK /\ [Next]_vars => TypeOK'
<1> SUFFICES ASSUME TypeOK, [Next]_vars PROVE TypeOK'
  OBVIOUS
<1>1. CASE UNCHANGED vars
  BY Zenon, <1>1 DEF TypeOK, vars
<1>2. CASE \E s \in Requests : Announce(s) \/ SubscribeAnnouncements(s) \/ RequestTrackStatus(s) \/ Fetch(s)
  <2>1. {"none", "pending"} \subseteq Places /\ AllKinds = {"ANNOUNCE", "SUBSCRIBE_ANNOUNCES", "TRACK_STATUS_REQUEST", "FETCH"}
    BY DEF Places, AllKinds
  <2>. QED  BY <1>2, <2>1, RequestForms, TypeRequest
<1>3. CASE \E ns \in Named : Unannounce(ns) \/ UnsubscribeAnnouncements(ns) \/ AnnounceCancel(ns)
  <2>1. Named \subseteq Namespaces
    BY DEF Named, TypeOK, Call
  <2>. QED  BY <1>3, <2>1, TypeWithdrawals
<1>. QED  BY Zenon, <1>1, <1>2, <1>3, TypeRespReader, TypeReqReader, TypeHandle, TypeTakeResponse, TypeCallCtxDone,
             TypeCloseFetch DEF Next

LEMMA InitType == Init => TypeOK
<1> SUFFICES ASSUME Init PROVE TypeOK
  OBVIOUS
<1>1. call \in [Requests -> Call]
  <2>1. PICK p \in Plans : call = [r \in Requests |-> [at |-> "idle", kind |-> p[r][1], ns |-> p[r][2], got |-> {}]]
    BY DEF Init
  <2>2. p \in [Requests -> AllKinds \X Namespaces]
    BY ExchangesAssumption
  <2>. QED  BY <2>1, <2>2 DEF Call
<1>2. /\ response \in [Requests -> SUBSET Answer] /\ \A r \in Requests : AtMostOne(response[r])
      /\ AtMostOne(handling)
  BY FewEnough DEF Init
<1>3. withdraws \in 0..MaxWithdraws
  BY ExchangesAssumption DEF Init
<1>. QED  BY <1>1, <1>2, <1>3 DEF Init, TypeOK, Places

\* Calls, maps, response channels (capacity 1), control streams and readers keep
\* their types, for any set of requests, namespaces and plans.
THEOREM Typing == Spec => []TypeOK
BY InitType, TypeInductive, PTL DEF Spec

-----------------------------------------------------------------------------
\* The invariant of one request

Kept == AllKinds \ {"TRACK_STATUS_REQUEST"}

\* The messages about request r: the request itself, FETCH_CANCEL and answers.
Asking(r) == {m \in Message : m.type \in Kept /\ m.id = r}
Cancels(r) == {m \in Message : m.type = "FETCH_CANCEL" /\ m.id = r}
Says(r, ok) == {m \in Message : m.type = "ANSWER" /\ m.kind \in Kept /\ m.id = r /\ m.ok = ok}
Answers(r) == Says(r, TRUE) \cup Says(r, FALSE)
Unannounces == {m \in Message : m.type = "UNANNOUNCE"}

\* The messages that a requester and a responder write.
Sendable == {m \in Message :
    /\ m.type \in AllKinds => m.kind = m.type
    /\ m.type \in Kept => m.id \in Requests /\ m.type = call[m.id].kind /\ m.ns = call[m.id].ns
    /\ m.type = "FETCH_CANCEL" => m.id \in Requests}
Answerable == {m \in Message : m.type = "ANSWER" =>
    IF m.kind \in Kept THEN m.id \in Requests /\ m.kind = call[m.id].kind /\ m.ns = call[m.id].ns
    ELSE m.id = 0}

MessageInv ==
    /\ toResp \in Seq(Sendable) /\ toReq \in Seq(Answerable)
    /\ handling \subseteq {m \in Sendable : m.type \in AllKinds} /\ \A m, n \in handling : m = n
    /\ Has(toResp, Unannounces) => withdraws > 0

\* A request on its way to the handler or in it, and one that an answer finds.
Handled(r) == \E m \in handling : m \in Asking(r)
Underway(r) == Has(toResp, Asking(r)) \/ Handled(r)
Findable(r) == out[r] = "pending" \/ IF call[r].kind = "FETCH" THEN call[r].at = "cancelled" ELSE r \in deleted

\* The control streams of a request: it goes out once, before any FETCH_CANCEL,
\* and is answered once with what was decided, before the call can know it.
StreamInv(r) ==
    /\ Once(toResp, Asking(r)) /\ Once(toReq, Answers(r)) /\ Before(toResp, Asking(r), Cancels(r))
    /\ Underway(r) =>
          /\ call[r].at \notin {"idle", "unsent"}
          /\ decided[r] = "nothing" /\ response[r] = {} /\ Findable(r)
    /\ Has(toResp, Asking(r)) => ~Handled(r) /\ incoming[r] = "none"
    /\ Handled(r) /\ call[r].kind = "FETCH" => incoming[r] = "pending"
    /\ Has(toReq, Answers(r)) => response[r] = {} /\ Findable(r)
    /\ Has(toReq, Says(r, TRUE)) => decided[r] = "accept"
    /\ Has(toReq, Says(r, FALSE)) => decided[r] = "reject"
    /\ Has(toResp, Cancels(r)) =>
          /\ call[r].kind = "FETCH"
          /\ call[r].at \in {"cancelled", "refused"} \/ (call[r].at = "accepted" /\ withdraws > 0)

\* What a call has been told, and waits in its channel, is what was decided.
CallInv(r) ==
    /\ call[r].at \in {"idle", "unsent"} => incoming[r] = "none" /\ decided[r] = "nothing"
    /\ call[r].kind \in Kept =>
          /\ \A a \in response[r] : decided[r] = (IF a.ok THEN "accept" ELSE "reject") /\ a.ns = call[r].ns
          /\ call[r].at = "accepted" => decided[r] = "accept" /\ call[r].got = {call[r].ns}
          /\ call[r].at = "refused" => decided[r] = "reject"
    /\ call[r].kind = "TRACK_STATUS_REQUEST" /\ r # 0 => response[r] = {} /\ call[r].at # "accepted"

\* Where a request is in the maps of the two sides.
HeldInv(r) ==
    /\ out[r] = "announced" => call[r].kind \in {"ANNOUNCE", "FETCH"} /\ decided[r] = "accept"
    /\ call[r].kind \in {"ANNOUNCE", "FETCH"} /\ decided[r] = "accept" =>
          incoming[r] = "announced" \/ withdraws > 0 \/ (call[r].kind = "FETCH" /\ call[r].at = "cancelled")
    /\ call[r].kind = "FETCH" =>
          /\ call[r].at \in {"waiting", "accepted"} => out[r] # "none" \/ decided[r] = "reject"
          /\ call[r].at = "waiting" /\ decided[r] = "accept" => incoming[r] = "announced"
          /\ call[r].at \notin {"idle", "unsent"} =>
                Underway(r) \/ decided[r] # "nothing" \/ reader["responder"] # "reading"
          /\ Has(toResp, Cancels(r)) /\ decided[r] = "accept" => incoming[r] = "announced" \/ withdraws > 1
          /\ ~Once(toResp, Cancels(r)) => withdraws > 1

RequestInv(r) == StreamInv(r) /\ CallInv(r) /\ HeldInv(r)

\* The messages that nobody caused: on a status nobody asked for, and UNANNOUNCE
\* without a call that sent it.  There are none.
Uncaused == {m \in Message :
    \/ m.kind = "TRACK_STATUS_REQUEST" /\ m.ns \notin Asked
    \/ m.type = "UNANNOUNCE" /\ ~\E u \in unannounced : ~u.unknown /\ u.ns = m.ns}
CauseInv == ~Has(toResp, Uncaused) /\ ~Has(toReq, Uncaused) /\ \A m \in handling : m \notin Uncaused

\* A status request is kept for ever, its response is a status asked for, and no
\* request goes out before request 0.
StatusInv ==
    /\ \A r \in OfKind("TRACK_STATUS_REQUEST") :
          /\ \A a \in response[r] : a.ns \in Asked
          /\ call[r].at # "idle" => out[r] = "pending"
    /\ \A r \in Requests : call[r].at # "idle" => call[0].at # "idle"
    /\ StatusWasAskedFor

\* The responder holds what it accepted until it is removed, and decides nothing
\* once its control reader has ended.
RemovedInv ==
    /\ reader["responder"] # "reading" => handling = {}
    /\ \A r \in OfKind("ANNOUNCE") : decided[r] = "accept" => incoming[r] = "announced" \/ r \in removed

ExchangesInv ==
    /\ TypeOK
    /\ MessageInv
    /\ \A r \in Requests : RequestInv(r)
    /\ CauseInv /\ StatusInv /\ RemovedInv
    /\ UnknownOnlyAfterWithdrawal

-----------------------------------------------------------------------------
\* What writing to and reading from a control stream does to the messages
\* about a request.

SameResp(r) ==
    /\ Has(toResp', Asking(r)) <=> Has(toResp, Asking(r))
    /\ Has(toResp', Cancels(r)) <=> Has(toResp, Cancels(r))
    /\ Once(toResp, Asking(r)) => Once(toResp', Asking(r))
    /\ Once(toResp, Cancels(r)) => Once(toResp', Cancels(r))
    /\ Before(toResp, Asking(r), Cancels(r)) => Before(toResp', Asking(r), Cancels(r))
SameReq(r) ==
    /\ Has(toReq', Answers(r)) <=> Has(toReq, Answers(r))
    /\ \A ok \in BOOLEAN : Has(toReq', Says(r, ok)) <=> Has(toReq, Says(r, ok))
    /\ Once(toReq, Answers(r)) => Once(toReq', Answers(r))

LEMMA StreamsStay ==
    ASSUME NEW r
    PROVE  (UNCHANGED toResp => SameResp(r)) /\ (UNCHANGED toReq => SameReq(r))
BY Zenon DEF SameResp, SameReq

LEMMA EmptyOnce ==
    ASSUME NEW q, NEW M, ~Has(q, M)
    PROVE  Once(q, M) /\ \A N : Before(q, M, N) /\ Before(q, N, M)
BY Zenon DEF Has, Once, Before

LEMMA RespWritten ==
    ASSUME TypeOK, NEW m \in Message, toResp' = Append(toResp, m), NEW r
    PROVE  /\ m \notin Asking(r) /\ m \notin Cancels(r) => SameResp(r)
           /\ m \in Asking(r) /\ m \notin Cancels(r) =>
                 /\ Has(toResp', Asking(r))
                 /\ Has(toResp', Cancels(r)) <=> Has(toResp, Cancels(r))
                 /\ Once(toResp, Cancels(r)) => Once(toResp', Cancels(r))
                 /\ ~Has(toResp, Asking(r)) /\ ~Has(toResp, Cancels(r)) =>
                       Once(toResp', Asking(r)) /\ Before(toResp', Asking(r), Cancels(r))
           /\ m \in Cancels(r) /\ m \notin Asking(r) =>
                 /\ Has(toResp', Cancels(r))
                 /\ Has(toResp', Asking(r)) <=> Has(toResp, Asking(r))
                 /\ Once(toResp, Asking(r)) => Once(toResp', Asking(r))
                 /\ Before(toResp, Asking(r), Cancels(r)) => Before(toResp', Asking(r), Cancels(r))
                 /\ ~Has(toResp, Cancels(r)) => Once(toResp', Cancels(r))
<1>1. toResp \in Seq(Message)
  BY DEF TypeOK
<1>2. /\ \A M : Has(toResp', M) <=> Has(toResp, M) \/ m \in M
      /\ \A M : Once(toResp, M) /\ (m \in M => ~Has(toResp, M)) => Once(toResp', M)
      /\ \A M, N : Before(toResp, M, N) /\ (m \in M => ~Has(toResp, N) /\ m \notin N) => Before(toResp', M, N)
  BY <1>1, Written
<1>3. \A M : ~Has(toResp, M) => Once(toResp, M) /\ \A N : Before(toResp, M, N) /\ Before(toResp, N, M)
  BY EmptyOnce
<1>. QED  BY Zenon, <1>2, <1>3 DEF SameResp

LEMMA RespRead ==
    ASSUME TypeOK, RespTakes, NEW r
    PROVE  LET m == Head(toResp) IN
           /\ m \notin Asking(r) /\ m \notin Cancels(r) => SameResp(r)
           /\ Has(toResp', Asking(r)) => Has(toResp, Asking(r))
           /\ Has(toResp', Cancels(r)) => Has(toResp, Cancels(r))
           /\ Once(toResp, Asking(r)) => Once(toResp', Asking(r))
           /\ Once(toResp, Cancels(r)) => Once(toResp', Cancels(r))
           /\ Before(toResp, Asking(r), Cancels(r)) => Before(toResp', Asking(r), Cancels(r))
           /\ m \in Asking(r) => Has(toResp, Asking(r)) /\ (Once(toResp, Asking(r)) => ~Has(toResp', Asking(r)))
           /\ m \notin Cancels(r) => (Has(toResp', Cancels(r)) <=> Has(toResp, Cancels(r)))
           /\ m \in Cancels(r) =>
                 /\ Has(toResp, Cancels(r))
                 /\ Before(toResp, Asking(r), Cancels(r)) => ~Has(toResp, Asking(r)) /\ ~Has(toResp', Asking(r))
                 /\ Once(toResp, Cancels(r)) => ~Has(toResp', Cancels(r))
<1>1. toResp \in Seq(Message) /\ toResp # <<>> /\ toResp' = Tail(toResp)
  BY RespTakesType
<1> DEFINE m == Head(toResp)
<1>2. /\ \A M : Has(toResp, M) <=> Has(toResp', M) \/ m \in M
      /\ \A M : Once(toResp, M) /\ m \in M => ~Has(toResp', M)
      /\ \A M : Once(toResp, M) => Once(toResp', M)
      /\ \A M, N : Before(toResp, M, N) => Before(toResp', M, N) /\ (m \in N => ~Has(toResp, M))
  BY <1>1, ReadOff
<1> HIDE DEF m
<1>3. m \notin Asking(r) /\ m \notin Cancels(r) => SameResp(r)
  BY Zenon, <1>2 DEF SameResp
<1>. QED  BY Zenon, <1>2, <1>3 DEF m

LEMMA ReqWritten ==
    ASSUME TypeOK, NEW m \in Message, toReq' = Append(toReq, m), NEW r
    PROVE  /\ m \notin Answers(r) => SameReq(r)
           /\ ~Has(toReq, Answers(r)) => Once(toReq', Answers(r))
           /\ \A ok \in BOOLEAN : Has(toReq', Says(r, ok)) <=> Has(toReq, Says(r, ok)) \/ m \in Says(r, ok)
           /\ Has(toReq', Answers(r)) <=> Has(toReq, Answers(r)) \/ m \in Answers(r)
<1>1. toReq \in Seq(Message)
  BY DEF TypeOK
<1>2. /\ \A M : Has(toReq', M) <=> Has(toReq, M) \/ m \in M
      /\ \A M : Once(toReq, M) /\ (m \in M => ~Has(toReq, M)) => Once(toReq', M)
  BY <1>1, Written
<1>3. \A M : ~Has(toReq, M) => Once(toReq, M)
  BY EmptyOnce
<1>4. \A ok \in BOOLEAN : m \in Says(r, ok) => m \in Answers(r)
  BY Zenon DEF Answers
<1>. QED  BY Zenon, <1>2, <1>3, <1>4 DEF SameReq

LEMMA ReqRead ==
    ASSUME TypeOK, NEW t, ReqReads(t), NEW r
    PROVE  LET m == Head(toReq) IN
           /\ m \notin Answers(r) => SameReq(r)
           /\ m \in Answers(r) =>
                 /\ Has(toReq, Answers(r))
                 /\ Once(toReq, Answers(r)) =>
                       ~Has(toReq', Answers(r)) /\ \A ok \in BOOLEAN : ~Has(toReq', Says(r, ok))
           /\ \A ok \in BOOLEAN : m \in Says(r, ok) => m \in Answers(r) /\ Has(toReq, Says(r, ok))
           /\ Once(toReq, Answers(r)) => Once(toReq', Answers(r))
<1>1. toReq \in Seq(Message) /\ toReq # <<>> /\ toReq' = Tail(toReq)
  BY ReqReadsType
<1> DEFINE m == Head(toReq)
<1>2. /\ \A M : Has(toReq, M) <=> Has(toReq', M) \/ m \in M
      /\ \A M : Once(toReq, M) /\ m \in M => ~Has(toReq', M)
      /\ \A M : Once(toReq, M) => Once(toReq', M)
  BY <1>1, ReadOff
<1> HIDE DEF m
<1>3. \A ok \in BOOLEAN : m \in Says(r, ok) => m \in Answers(r)
  BY Zenon DEF Answers
<1>4. ~Has(toReq', Answers(r)) => \A ok \in BOOLEAN : ~Has(toReq', Says(r, ok))
  BY Zenon DEF Has, Answers
<1>. QED  BY Zenon, <1>2, <1>3, <1>4 DEF m, SameReq

-----------------------------------------------------------------------------
\* The inductive invariant, request by request

\* A step leaves the state of request r alone.
SameState(r) ==
    /\ call'[r] = call[r] /\ out'[r] = out[r] /\ response'[r] = response[r]
    /\ incoming'[r] = incoming[r] /\ decided'[r] = decided[r]
    /\ r \in deleted => r \in deleted'
    /\ Handled(r)' <=> Handled(r)

\* No step undoes a withdrawal or revives a control reader.
Forward ==
    /\ withdraws > 0 => withdraws' > 0
    /\ withdraws > 1 => withdraws' > 1
    /\ reader["responder"] # "reading" => reader'["responder"] # "reading"

LEMMA Untouched ==
    ASSUME NEW r, RequestInv(r), SameState(r), SameResp(r), SameReq(r), Forward
    PROVE  RequestInv(r)'
<1>1. /\ Underway(r)' <=> Underway(r)
      /\ Findable(r) => Findable(r)'
  BY Zenon DEF Underway, Findable, SameState, SameResp
<1>2. StreamInv(r)'
  BY Zenon, <1>1 DEF RequestInv, StreamInv, SameState, SameResp, SameReq, Forward
<1>3. CallInv(r)'
  BY Zenon DEF RequestInv, CallInv, SameState
<1>4. HeldInv(r)'
  BY Zenon, <1>1 DEF RequestInv, HeldInv, SameState, SameResp, Forward
<1>. QED  BY <1>2, <1>3, <1>4 DEF RequestInv

\* Messages of the forms that the code writes.
LEMMA MessageKinds ==
    ASSUME NEW m \in Message, NEW r
    PROVE  /\ m \in Asking(r) <=> m.type \in Kept /\ m.id = r
           /\ m \in Cancels(r) <=> m.type = "FETCH_CANCEL" /\ m.id = r
           /\ m \in Unannounces <=> m.type = "UNANNOUNCE"
           /\ \A ok \in BOOLEAN : m \in Says(r, ok) <=> m.type = "ANSWER" /\ m.kind \in Kept /\ m.id = r /\ m.ok = ok
           /\ m \in Answers(r) <=> m.type = "ANSWER" /\ m.kind \in Kept /\ m.id = r
           /\ m \in Asking(r) => m \notin Cancels(r)
           /\ m \in Cancels(r) => m \notin Asking(r)
<1>1. m.ok \in BOOLEAN
  BY DEF Message
<1>. QED  BY <1>1 DEF Asking, Cancels, Unannounces, Says, Answers, Kept, AllKinds

\* Request(s, ...) of a kind that the responder keeps in a map.
LEMMA InvRequest ==
    ASSUME TypeOK, NEW s \in Requests, NEW k \in Kept, Request(s, k, Msg(k, k, s, call[s].ns, TRUE), "none"),
           NEW r \in Requests, RequestInv(r)
    PROVE  RequestInv(r)'
<1> DEFINE m == Msg(k, k, s, call[s].ns, TRUE)
<1>1. m \in Message
  BY Zenon, RequestForms DEF Kept
<1>2. m \in Asking(s) /\ m \notin Cancels(s) /\ (r # s => m \notin Asking(r) /\ m \notin Cancels(r))
  <2>1. m.type = k /\ m.id = s
    BY DEF Msg
  <2>. QED  BY Zenon, <1>1, <2>1, MessageKinds
<1>3. UNCHANGED <<response, incoming, handling, reader, toReq, withdraws, decided, deleted>>
  BY DEF Request, history
<1>4. SameReq(r) /\ Forward /\ (Handled(r)' <=> Handled(r))
  BY Zenon, <1>3, StreamsStay DEF Forward, Handled
<1>5. /\ \/ toResp' = Append(toResp, m) /\ call' = [call EXCEPT ![s].at = "waiting"] /\ out' = [out EXCEPT ![s] = "pending"]
         \/ UNCHANGED toResp /\ call' = [call EXCEPT ![s].at = "unsent"] /\ out' = [out EXCEPT ![s] = "none"]
      /\ call[s].at = "idle" /\ call[s].kind = k
  BY Zenon DEF Request
<1>6. call \in [Requests -> Call] /\ out \in [Requests -> Places] /\ call[s].got \in SUBSET Namespaces
      /\ "waiting" \in CallStates /\ "unsent" \in CallStates /\ "pending" \in Places /\ "none" \in Places
  BY DEF TypeOK, Call, CallStates, Places
<1> HIDE DEF m
<1>7. \/ /\ toResp' = Append(toResp, m) /\ call'[s].at = "waiting" /\ out'[s] = "pending"
         /\ call'[s].kind = call[s].kind /\ call'[s].ns = call[s].ns
         /\ r # s => call'[r] = call[r] /\ out'[r] = out[r]
      \/ /\ UNCHANGED toResp /\ call'[s].at = "unsent" /\ out'[s] = "none"
         /\ call'[s].kind = call[s].kind /\ call'[s].ns = call[s].ns
         /\ r # s => call'[r] = call[r] /\ out'[r] = out[r]
  <2>1. CASE call' = [call EXCEPT ![s].at = "waiting"] /\ out' = [out EXCEPT ![s] = "pending"] /\ toResp' = Append(toResp, m)
    <3>1. out'[s] = "pending" /\ (r # s => out'[r] = out[r])
      BY Zenon, <1>6, <2>1, UpdateAt
    <3>. QED  BY <1>6, <2>1, <3>1, CallMoves
  <2>2. CASE call' = [call EXCEPT ![s].at = "unsent"] /\ out' = [out EXCEPT ![s] = "none"] /\ UNCHANGED toResp
    <3>1. out'[s] = "none" /\ (r # s => out'[r] = out[r])
      BY Zenon, <1>6, <2>2, UpdateAt
    <3>. QED  BY <1>6, <2>2, <3>1, CallMoves
  <2>. QED  BY <1>5, <2>1, <2>2
<1>8. CASE r # s
  <2>1. SameResp(r)
    BY Zenon, <1>1, <1>2, <1>7, <1>8, RespWritten, StreamsStay
  <2>2. SameState(r)
    BY Zenon, <1>3, <1>4, <1>7, <1>8 DEF SameState
  <2>. QED  BY <1>4, <2>1, <2>2, Untouched
<1>9. CASE r = s
  <2>1. /\ ~Has(toResp, Asking(r)) /\ ~Has(toResp, Cancels(r)) /\ ~Handled(r) /\ ~Has(toReq, Answers(r))
        /\ decided[r] = "nothing" /\ incoming[r] = "none" /\ response[r] = {}
    BY Zenon, <1>5, <1>9 DEF RequestInv, StreamInv, CallInv, Underway, Answers, Has
  <2>2. CASE toResp' = Append(toResp, m) /\ call'[s].at = "waiting" /\ out'[s] = "pending"
    <3>1. /\ Has(toResp', Asking(r)) /\ ~Has(toResp', Cancels(r)) /\ Once(toResp', Asking(r))
          /\ Before(toResp', Asking(r), Cancels(r)) /\ Once(toResp', Cancels(r))
      BY Zenon, <1>1, <1>2, <1>9, <2>1, <2>2, RespWritten, EmptyOnce
    <3>2. Underway(r)' /\ ~Handled(r)' /\ Findable(r)'
      BY Zenon, <1>4, <1>9, <2>1, <2>2, <3>1 DEF Underway, Findable
    <3>3. StreamInv(r)'
      BY Zenon, <1>3, <1>4, <1>9, <2>1, <2>2, <3>1, <3>2 DEF RequestInv, StreamInv, SameReq
    <3>4. CallInv(r)'
      BY <1>3, <1>5, <1>7, <1>9, <2>1, <2>2 DEF RequestInv, CallInv, Kept
    <3>5. HeldInv(r)'
      BY <1>3, <1>7, <1>9, <2>1, <2>2, <3>1, <3>2 DEF HeldInv
    <3>. QED  BY <3>3, <3>4, <3>5 DEF RequestInv
  <2>3. CASE UNCHANGED toResp /\ call'[s].at = "unsent" /\ out'[s] = "none"
    <3>1. SameResp(r)
      BY <2>3, StreamsStay
    <3>2. ~Underway(r)'
      BY Zenon, <1>4, <2>1, <3>1 DEF Underway, SameResp
    <3>3. StreamInv(r)'
      BY Zenon, <1>3, <1>4, <1>9, <2>1, <3>1, <3>2 DEF RequestInv, StreamInv, SameResp, SameReq, Underway
    <3>4. CallInv(r)'
      BY <1>3, <1>5, <1>7, <1>9, <2>1, <2>3 DEF RequestInv, CallInv, Kept
    <3>5. HeldInv(r)'
      BY <1>3, <1>7, <1>9, <2>1, <2>3, <3>1, EmptyOnce DEF HeldInv, SameResp
    <3>. QED  BY <3>3, <3>4, <3>5 DEF RequestInv
  <2>. QED  BY <1>7, <2>2, <2>3
<1>. QED  BY <1>8, <1>9

LEMMA InvTrackStatusRequest ==
    ASSUME TypeOK, NEW s \in Requests, RequestTrackStatus(s), NEW r \in Requests, RequestInv(r)
    PROVE  RequestInv(r)'
<1> DEFINE k == "TRACK_STATUS_REQUEST"
           m == Msg(k, k, 0, call[s].ns, TRUE)
<1>1. m \in Message /\ Request(s, k, m, "pending")
  BY Zenon, RequestForms DEF AllKinds
<1>2. m \notin Asking(r) /\ m \notin Cancels(r)
  <2>1. m.type = k
    BY DEF Msg
  <2>. QED  BY Zenon, <1>1, <2>1, MessageKinds DEF Kept
<1>3. UNCHANGED <<response, incoming, handling, reader, toReq, withdraws, decided, deleted>>
  BY <1>1 DEF Request, history
<1>4. SameReq(r) /\ Forward /\ (Handled(r)' <=> Handled(r))
  BY Zenon, <1>3, StreamsStay DEF Forward, Handled
<1>5. /\ toResp' = Append(toResp, m) \/ UNCHANGED toResp
      /\ \E x \in {"waiting", "unsent"} : call' = [call EXCEPT ![s].at = x]
      /\ out' = [out EXCEPT ![s] = "pending"]
      /\ call[s].at = "idle" /\ call[s].kind = k
  BY Zenon, <1>1 DEF Request
<1>6. SameResp(r)
  BY Zenon, <1>1, <1>2, <1>5, RespWritten, StreamsStay
<1>7. /\ call'[s].at \in {"waiting", "unsent"} /\ call'[s].kind = k
      /\ out'[s] = "pending" /\ (r # s => call'[r] = call[r] /\ out'[r] = out[r])
  <2>1. call \in [Requests -> Call] /\ out \in [Requests -> Places] /\ {"waiting", "unsent"} \subseteq CallStates
    BY DEF TypeOK, CallStates
  <2>2. call'[s].at \in {"waiting", "unsent"} /\ call'[s].kind = k /\ (r # s => call'[r] = call[r])
    BY <1>5, <2>1, CallMoves
  <2>. QED  BY <1>5, <2>1, <2>2
<1>8. CASE r # s
  BY Zenon, <1>3, <1>4, <1>6, <1>7, <1>8, Untouched DEF SameState
<1>9. CASE r = s
  <2>1. ~Underway(r)' /\ ~Has(toResp', Cancels(r)) /\ ~Has(toReq', Answers(r)) /\ decided[r] = "nothing" /\ incoming[r] = "none"
    BY Zenon, <1>3, <1>4, <1>5, <1>6, <1>9 DEF RequestInv, StreamInv, CallInv, Underway, SameResp, SameReq, Answers, Has
  <2>2. StreamInv(r)'
    BY Zenon, <1>3, <1>4, <1>6, <2>1 DEF RequestInv, StreamInv, SameResp, SameReq, Underway
  <2>3. CallInv(r)' /\ HeldInv(r)'
    BY <1>3, <1>5, <1>7, <1>9, <2>1 DEF RequestInv, CallInv, HeldInv, Kept
  <2>. QED  BY <2>2, <2>3 DEF RequestInv
<1>. QED  BY <1>8, <1>9

\* FETCH_CANCEL is about the fetch that is cancelled.
LEMMA CancelWritten ==
    ASSUME TypeOK, NEW s \in Requests, FetchCancel(s), NEW r \in Requests
    PROVE  /\ r # s => SameResp(r)
           /\ r = s =>
                 /\ Has(toResp', Cancels(r))
                 /\ Has(toResp', Asking(r)) <=> Has(toResp, Asking(r))
                 /\ Once(toResp, Asking(r)) => Once(toResp', Asking(r))
                 /\ Before(toResp, Asking(r), Cancels(r)) => Before(toResp', Asking(r), Cancels(r))
                 /\ ~Has(toResp, Cancels(r)) => Once(toResp', Cancels(r))
<1> DEFINE m == Msg("FETCH_CANCEL", "FETCH", s, call[s].ns, TRUE)
<1>1. m \in Message
  <2>1. call[s].ns \in Namespaces /\ s \in Nat
    BY ExchangesAssumption DEF TypeOK, Call
  <2>. QED  BY Zenon, <2>1, MsgType DEF AllKinds
<1>2. m.type = "FETCH_CANCEL" /\ m.id = s /\ toResp' = Append(toResp, m) /\ "FETCH_CANCEL" \notin Kept
  BY DEF Msg, FetchCancel, Kept, AllKinds
<1> HIDE DEF m
<1>3. m \in Cancels(s) /\ m \notin Asking(r) /\ (r # s => m \notin Cancels(r))
  BY Zenon, <1>1, <1>2, MessageKinds
<1>. QED  BY Zenon, <1>1, <1>2, <1>3, RespWritten

\* The steps that end a call.
LEMMA InvTakeResponse ==
    ASSUME TypeOK, NEW s \in Requests, TakeResponse(s), NEW r \in Requests, RequestInv(r)
    PROVE  RequestInv(r)'
<1>1. PICK a \in response[s] :
          /\ call' = [call EXCEPT ![s].at = IF a.ok THEN "accepted" ELSE "refused", ![s].got = {a.ns}]
          /\ IF call[s].kind = "FETCH" /\ ~a.ok THEN FetchFails(s) ELSE UNCHANGED <<out, toResp>>
  BY Zenon DEF TakeResponse
<1>2. call[s].at = "waiting" /\ response' = [response EXCEPT ![s] = {}]
      /\ UNCHANGED <<incoming, handling, reader, toReq, withdraws, decided, deleted>>
  BY DEF TakeResponse, history
<1>3. SameReq(r) /\ Forward /\ (Handled(r)' <=> Handled(r))
  BY Zenon, <1>2, StreamsStay DEF Forward, Handled
<1>4. /\ call \in [Requests -> Call] /\ out \in [Requests -> Places] /\ response \in [Requests -> SUBSET Answer]
      /\ decided[s] \in {"nothing", "accept", "reject"} /\ call[s].kind \in AllKinds
  BY DEF TypeOK, Call
<1>5. /\ call'[s].at = (IF a.ok THEN "accepted" ELSE "refused") /\ call'[s].got = {a.ns}
      /\ call'[s].kind = call[s].kind /\ call'[s].ns = call[s].ns
      /\ r # s => call'[r] = call[r]
  <2>1. call' = [call EXCEPT ![s].at = IF a.ok THEN "accepted" ELSE "refused", ![s].got = {a.ns}]
    BY <1>1
  <2>2. call \in [Requests -> Call] /\ a \in Answer
    BY <1>4
  <2>. QED  BY Zenon, <2>1, <2>2, CallTakes
<1>6. response'[s] = {} /\ (r # s => response'[r] = response[r])
  BY <1>2, <1>4
<1>7. CASE r # s
  <2>1. out'[r] = out[r]
    BY <1>1, <1>4, <1>7 DEF FetchFails
  <2>2. SameResp(r)
    BY Zenon, <1>1, <1>7, CancelWritten, StreamsStay DEF FetchFails
  <2>. QED  BY Zenon, <1>2, <1>3, <1>5, <1>6, <1>7, <2>1, <2>2, Untouched DEF SameState
<1>8. CASE r = s
  <2>1. ~Underway(r) /\ ~Has(toReq, Answers(r)) /\ ~Has(toResp, Cancels(r))
    BY Zenon, <1>2, <1>8 DEF RequestInv, StreamInv
  <2>2. call[r].kind \in Kept => a.ns = call[r].ns /\ decided[r] = (IF a.ok THEN "accept" ELSE "reject")
    BY Zenon, <1>8 DEF RequestInv, CallInv
  <2>3. call[r].kind = "TRACK_STATUS_REQUEST" => r = 0
    BY <1>8 DEF RequestInv, CallInv
  <2>4. CallInv(r)'
    BY <1>2, <1>4, <1>5, <1>6, <1>8, <2>2, <2>3 DEF CallInv, Kept
  <2>5. CASE call[s].kind = "FETCH" /\ ~a.ok
    <3>1. FetchCancel(s) /\ out'[r] \in {"none", "announced"} /\ (out'[r] = "announced" => out[r] = "announced")
      BY <1>1, <1>4, <1>8, <2>5 DEF FetchFails, Places
    <3>2. /\ ~Has(toResp', Asking(r)) /\ Once(toResp', Asking(r)) /\ Once(toResp', Cancels(r))
          /\ Before(toResp', Asking(r), Cancels(r))
      <4>1. ~Has(toResp, Asking(r)) /\ Once(toResp, Asking(r)) /\ Before(toResp, Asking(r), Cancels(r))
        BY <2>1 DEF RequestInv, StreamInv, Underway
      <4>. QED  BY Zenon, <1>8, <2>1, <3>1, <4>1, CancelWritten
    <3>3. decided[r] = "reject" /\ call[r].kind = "FETCH"
      BY <1>4, <1>8, <2>2, <2>5 DEF Kept
    <3>4. StreamInv(r)'
      BY Zenon, <1>2, <1>3, <1>5, <1>6, <1>8, <2>1, <2>5, <3>2, <3>3 DEF RequestInv, StreamInv, SameReq, Underway
    <3>5. HeldInv(r)'
      BY <1>2, <1>5, <1>8, <3>1, <3>2, <3>3 DEF RequestInv, HeldInv
    <3>. QED  BY <2>4, <3>4, <3>5 DEF RequestInv
  <2>6. CASE ~(call[s].kind = "FETCH" /\ ~a.ok)
    <3>1. out'[r] = out[r] /\ SameResp(r)
      BY <1>1, <2>6, StreamsStay
    <3>2. StreamInv(r)'
      BY Zenon, <1>2, <1>3, <1>6, <1>8, <2>1, <3>1 DEF RequestInv, StreamInv, SameResp, SameReq, Underway
    <3>3. HeldInv(r)'
      BY <1>2, <1>3, <1>5, <1>8, <2>1, <2>2, <2>6, <3>1 DEF RequestInv, HeldInv, SameResp, Underway, Kept, AllKinds
    <3>. QED  BY <2>4, <3>2, <3>3 DEF RequestInv
  <2>. QED  BY <2>5, <2>6
<1>. QED  BY <1>7, <1>8

LEMMA InvCallCtxDone ==
    ASSUME TypeOK, NEW s \in Requests, CallCtxDone(s), NEW r \in Requests, RequestInv(r)
    PROVE  RequestInv(r)'
<1>1. /\ call[s].at = "waiting" /\ call' = [call EXCEPT ![s].at = "cancelled"]
      /\ IF call[s].kind = "FETCH" THEN FetchFails(s) ELSE UNCHANGED <<out, toResp>>
  BY DEF CallCtxDone
<1>2. UNCHANGED <<response, incoming, handling, reader, toReq, withdraws, decided, deleted>>
  BY DEF CallCtxDone, history
<1>3. SameReq(r) /\ Forward /\ (Handled(r)' <=> Handled(r))
  BY Zenon, <1>2, StreamsStay DEF Forward, Handled
<1>4. /\ call \in [Requests -> Call] /\ out \in [Requests -> Places] /\ "cancelled" \in CallStates
      /\ call[s].kind \in AllKinds
  BY DEF TypeOK, Call, CallStates
<1>5. /\ call'[s].at = "cancelled" /\ call'[s].kind = call[s].kind /\ call'[s].ns = call[s].ns
      /\ r # s => call'[r] = call[r]
  BY <1>1, <1>4, CallMoves
<1>6. CASE r # s
  <2>1. out'[r] = out[r]
    BY <1>1, <1>4, <1>6 DEF FetchFails
  <2>2. SameResp(r)
    BY Zenon, <1>1, <1>6, CancelWritten, StreamsStay DEF FetchFails
  <2>. QED  BY Zenon, <1>2, <1>3, <1>5, <1>6, <2>1, <2>2, Untouched DEF SameState
<1>7. CASE r = s
  <2>1. CallInv(r)'
    BY <1>1, <1>2, <1>5, <1>7 DEF RequestInv, CallInv
  <2>2. CASE call[s].kind = "FETCH"
    <3>1. FetchCancel(s) /\ (out'[r] = "announced" => out[r] = "announced")
      BY <1>1, <1>4, <1>7, <2>2 DEF FetchFails
    <3>2. ~Has(toResp, Cancels(r)) /\ Once(toResp, Asking(r)) /\ Before(toResp, Asking(r), Cancels(r))
      BY <1>1, <1>7 DEF RequestInv, StreamInv
    <3>3. /\ Has(toResp', Asking(r)) <=> Has(toResp, Asking(r))
          /\ Once(toResp', Asking(r)) /\ Once(toResp', Cancels(r)) /\ Before(toResp', Asking(r), Cancels(r))
      BY Zenon, <1>7, <3>1, <3>2, CancelWritten
    <3>4. Findable(r)' /\ (Underway(r)' <=> Underway(r))
      BY Zenon, <1>3, <1>5, <1>7, <2>2, <3>3 DEF Findable, Underway
    <3>5. StreamInv(r)'
      BY Zenon, <1>2, <1>3, <1>5, <1>7, <2>2, <3>3, <3>4 DEF RequestInv, StreamInv, SameReq
    <3>6. HeldInv(r)'
      BY <1>1, <1>2, <1>5, <1>7, <2>2, <3>1, <3>3, <3>4 DEF RequestInv, HeldInv
    <3>. QED  BY <2>1, <3>5, <3>6 DEF RequestInv
  <2>3. CASE call[s].kind # "FETCH"
    <3>1. out'[r] = out[r] /\ SameResp(r)
      BY <1>1, <2>3, StreamsStay
    <3>2. (Findable(r) => Findable(r)') /\ (Underway(r)' <=> Underway(r))
      BY <1>2, <1>3, <1>5, <1>7, <2>3, <3>1 DEF Findable, Underway, SameResp
    <3>3. StreamInv(r)'
      BY Zenon, <1>2, <1>3, <1>5, <1>7, <2>3, <3>1, <3>2 DEF RequestInv, StreamInv, SameResp, SameReq
    <3>4. HeldInv(r)'
      BY <1>2, <1>5, <1>7, <2>3, <3>1 DEF RequestInv, HeldInv
    <3>. QED  BY <2>1, <3>3, <3>4 DEF RequestInv
  <2>. QED  BY <2>2, <2>3
<1>. QED  BY <1>6, <1>7

\* The withdrawing calls.
LEMMA WithdrawForward ==
    ASSUME TypeOK, Withdraw, UNCHANGED reader
    PROVE  Forward /\ withdraws' > 0 /\ (withdraws > 0 => withdraws' > 1)
BY WithdrawType DEF Forward

LEMMA InvCloseFetch ==
    ASSUME TypeOK, NEW s \in Requests, CloseFetch(s), NEW r \in Requests, RequestInv(r)
    PROVE  RequestInv(r)'
<1>1. /\ call[s].at = "accepted" /\ call[s].kind = "FETCH" /\ FetchCancel(s) /\ Withdraw
      /\ UNCHANGED <<call, out, response, incoming, handling, reader, toReq, decided, deleted>>
  BY DEF CloseFetch, requester, history
<1>2. SameReq(r) /\ SameState(r) /\ (Handled(r)' <=> Handled(r))
  BY Zenon, <1>1, StreamsStay DEF SameState, Handled
<1>3. Forward /\ withdraws' > 0 /\ (withdraws > 0 => withdraws' > 1)
  BY <1>1, WithdrawForward
<1>4. CASE r # s
  BY <1>1, <1>2, <1>3, <1>4, CancelWritten, Untouched
<1>5. CASE r = s
  <2>1. Once(toResp, Asking(r)) /\ Before(toResp, Asking(r), Cancels(r))
    BY DEF RequestInv, StreamInv
  <2>2. /\ Has(toResp', Asking(r)) <=> Has(toResp, Asking(r))
        /\ Once(toResp', Asking(r)) /\ Before(toResp', Asking(r), Cancels(r))
        /\ ~Has(toResp, Cancels(r)) => Once(toResp', Cancels(r))
    BY Zenon, <1>1, <1>5, <2>1, CancelWritten
  <2>3. (Findable(r)' <=> Findable(r)) /\ (Underway(r)' <=> Underway(r))
    BY Zenon, <1>1, <1>2, <2>2 DEF Findable, Underway
  <2>4. StreamInv(r)'
    BY Zenon, <1>1, <1>2, <1>3, <1>5, <2>2, <2>3 DEF RequestInv, StreamInv, SameReq
  <2>5. CallInv(r)'
    BY Zenon, <1>1 DEF RequestInv, CallInv
  <2>6. decided[r] = "accept" /\ (Has(toResp, Cancels(r)) => withdraws > 0) /\ (incoming[r] = "announced" \/ withdraws > 0)
    BY <1>1, <1>5 DEF RequestInv, StreamInv, CallInv, HeldInv, Kept, AllKinds
  <2>7. HeldInv(r)'
    BY <1>1, <1>3, <1>5, <2>2, <2>3, <2>6 DEF RequestInv, HeldInv, Forward
  <2>. QED  BY <2>4, <2>5, <2>7 DEF RequestInv
<1>. QED  BY <1>4, <1>5

\* A pending or announced entry of the requester is deleted.
LEMMA OutDeleted ==
    ASSUME NEW r, RequestInv(r), SameResp(r), SameReq(r), Forward, UNCHANGED <<call, response, incoming, handling, decided>>,
           call[r].kind # "FETCH", out[r] \in {"pending", "announced"}, out'[r] = "none", deleted \subseteq deleted',
           out[r] = "pending" => r \in deleted'
    PROVE  RequestInv(r)'
<1>1. Handled(r)' <=> Handled(r)
  BY DEF Handled
<1>2. Findable(r) => Findable(r)'
  BY DEF Findable
<1>3. Underway(r)' <=> Underway(r)
  BY Zenon, <1>1 DEF Underway, SameResp
<1>4. StreamInv(r)'
  BY Zenon, <1>1, <1>2, <1>3 DEF RequestInv, StreamInv, SameResp, SameReq, Forward
<1>5. CallInv(r)'
  BY Zenon DEF RequestInv, CallInv
<1>6. HeldInv(r)'
  BY DEF RequestInv, HeldInv, Forward
<1>. QED  BY <1>4, <1>5, <1>6 DEF RequestInv

\* A pending or announced announcement of the responder is deleted.
LEMMA InDeleted ==
    ASSUME NEW r, RequestInv(r), SameResp(r), SameReq(r), Forward, UNCHANGED <<call, out, response, handling, decided, deleted>>,
           call[r].kind # "FETCH", incoming'[r] = "none", withdraws' > 0
    PROVE  RequestInv(r)'
<1>1. Handled(r)' <=> Handled(r)
  BY DEF Handled
<1>2. Findable(r)' <=> Findable(r)
  BY DEF Findable
<1>3. Underway(r)' <=> Underway(r)
  BY Zenon, <1>1 DEF Underway, SameResp
<1>4. StreamInv(r)'
  BY Zenon, <1>1, <1>2, <1>3 DEF RequestInv, StreamInv, SameResp, SameReq, Forward
<1>5. CallInv(r)'
  BY Zenon DEF RequestInv, CallInv
<1>6. HeldInv(r)'
  BY DEF RequestInv, HeldInv
<1>. QED  BY <1>4, <1>5, <1>6 DEF RequestInv

LEMMA InvUnannounce ==
    ASSUME TypeOK, NEW ns \in Namespaces, Unannounce(ns) \/ UnsubscribeAnnouncements(ns), NEW r \in Requests, RequestInv(r)
    PROVE  RequestInv(r)'
<1>1. /\ Withdraw
      /\ UNCHANGED <<call, response, incoming, handling, reader, toReq, decided>>
  BY Zenon DEF Unannounce, UnsubscribeAnnouncements
<1>2. Forward /\ SameReq(r) /\ (Handled(r)' <=> Handled(r))
  BY Zenon, <1>1, WithdrawForward, StreamsStay DEF Handled
<1>3. SameResp(r)
  <2>1. PICK t \in {"UNANNOUNCE", "UNSUBSCRIBE_ANNOUNCES"}, k \in AllKinds :
           UNCHANGED toResp \/ toResp' = Append(toResp, Msg(t, k, 0, ns, TRUE))
    BY Zenon DEF Unannounce, UnsubscribeAnnouncements, AllKinds
  <2>2. Msg(t, k, 0, ns, TRUE) \in Message /\ Msg(t, k, 0, ns, TRUE).type \notin Kept \cup {"FETCH_CANCEL"}
    <3>1. Msg(t, k, 0, ns, TRUE) \in Message
      BY Zenon, <2>1, MsgType
    <3>2. Msg(t, k, 0, ns, TRUE).type = t
      BY DEF Msg
    <3>. QED  BY Zenon, <2>1, <3>1, <3>2 DEF Kept, AllKinds
  <2>3. Msg(t, k, 0, ns, TRUE) \notin Asking(r) /\ Msg(t, k, 0, ns, TRUE) \notin Cancels(r)
    BY Zenon, <2>2, MessageKinds
  <2>. QED  BY Zenon, <2>1, <2>2, <2>3, RespWritten, StreamsStay
<1>4. CASE UNCHANGED <<out, deleted>>
  BY Zenon, <1>1, <1>2, <1>3, <1>4, Untouched DEF SameState
<1>5. CASE ~UNCHANGED <<out, deleted>>
  <2>1. PICK k \in {"ANNOUNCE", "SUBSCRIBE_ANNOUNCES"} : \E s \in Deletes(out, k, ns) :
           /\ out' = [out EXCEPT ![s] = "none"]
           /\ deleted' = deleted \cup {s} \/ (deleted' = deleted /\ out[s] # "pending")
    BY Zenon, <1>5 DEF Unannounce, UnsubscribeAnnouncements
  <2>2. PICK s \in Deletes(out, k, ns) :
           /\ out' = [out EXCEPT ![s] = "none"]
           /\ deleted' = deleted \cup {s} \/ (deleted' = deleted /\ out[s] # "pending")
    BY Zenon, <2>1
  <2>3. s \in Requests /\ out[s] \in {"pending", "announced"} /\ call[s].kind = k /\ out \in [Requests -> Places]
    BY DeletesType DEF TypeOK
  <2>4. out'[s] = "none" /\ (r # s => out'[r] = out[r]) /\ deleted \subseteq deleted' /\ (out[s] = "pending" => s \in deleted')
    BY <2>2, <2>3
  <2>5. CASE r # s
    BY Zenon, <1>1, <1>2, <1>3, <2>4, <2>5, Untouched DEF SameState
  <2>6. CASE r = s
    BY <1>1, <1>2, <1>3, <2>1, <2>3, <2>4, <2>6, OutDeleted
  <2>. QED  BY <2>5, <2>6
<1>. QED  BY <1>4, <1>5

LEMMA InvAnnounceCancel ==
    ASSUME TypeOK, NEW ns \in Namespaces, AnnounceCancel(ns), NEW r \in Requests, RequestInv(r)
    PROVE  RequestInv(r)'
<1> DEFINE m == Msg("ANNOUNCE_CANCEL", "ANNOUNCE", 0, ns, TRUE)
<1>1. /\ Withdraw /\ toReq' = Append(toReq, m)
      /\ UNCHANGED <<call, out, response, handling, reader, toResp, decided, deleted>>
  BY DEF AnnounceCancel, requester
<1>2. m \in Message /\ m.type = "ANNOUNCE_CANCEL"
  <2>1. m \in Message
    BY Zenon, MsgType DEF AllKinds
  <2>. QED  BY <2>1 DEF Msg
<1> HIDE DEF m
<1>3. m \notin Answers(r)
  BY <1>2, MessageKinds
<1>4. Forward /\ withdraws' > 0 /\ SameReq(r) /\ SameResp(r) /\ (Handled(r)' <=> Handled(r))
  BY Zenon, <1>1, <1>2, <1>3, WithdrawForward, ReqWritten, StreamsStay DEF Handled
<1>5. PICK s \in Deletes(incoming, "ANNOUNCE", ns) : incoming' = [incoming EXCEPT ![s] = "none"]
  BY Zenon DEF AnnounceCancel
<1>6. s \in Requests /\ call[s].kind = "ANNOUNCE" /\ incoming \in [Requests -> Places]
  BY DeletesType DEF TypeOK
<1>7. incoming'[s] = "none" /\ (r # s => incoming'[r] = incoming[r])
  BY <1>5, <1>6
<1>8. CASE r # s
  BY Zenon, <1>1, <1>4, <1>7, <1>8, Untouched DEF SameState
<1>9. CASE r = s
  BY <1>1, <1>4, <1>6, <1>7, <1>9, InDeleted
<1>. QED  BY <1>8, <1>9

\* The responder's control reader.
LEMMA RespHead ==
    ASSUME TypeOK, MessageInv, RespTakes
    PROVE  /\ Head(toResp) \in Sendable /\ Head(toResp) \in Message /\ toResp' \in Seq(Sendable)
           /\ Has(toResp', Unannounces) => Has(toResp, Unannounces)
           /\ Head(toResp) \in Unannounces => withdraws > 0
           /\ handling = {} /\ reader["responder"] = "reading" /\ \A r : ~Handled(r)
<1>1. toResp \in Seq(Sendable) /\ toResp # <<>> /\ toResp' = Tail(toResp) /\ handling = {} /\ reader["responder"] = "reading"
  BY DEF MessageInv, RespTakes
<1>2. /\ Tail(toResp) \in Seq(Sendable) /\ Head(toResp) \in Sendable
      /\ \A M : Has(toResp, M) <=> Has(Tail(toResp), M) \/ Head(toResp) \in M
  BY <1>1, ReadOff
<1>3. Head(toResp) \in Unannounces => withdraws > 0
  BY <1>2 DEF MessageInv
<1>. QED  BY Zenon, <1>1, <1>2, <1>3 DEF Sendable, Handled

LEMMA InvCalls ==
    ASSUME TypeOK, MessageInv, OnAnnounce \/ OnSubscribeAnnounces \/ OnFetch, NEW r \in Requests, RequestInv(r)
    PROVE  RequestInv(r)'
<1> DEFINE m == Head(toResp)
<1>1. /\ RespTakes /\ m.type \in Kept /\ handling' = {m} /\ incoming' = [incoming EXCEPT ![m.id] = "pending"]
      /\ UNCHANGED <<call, out, response, reader, toReq, withdraws, decided, deleted>>
  BY DEF OnAnnounce, OnSubscribeAnnounces, OnFetch, RespReads, Calls, requester, history, Kept, AllKinds
<1>2. m \in Sendable /\ m \in Message /\ ~Handled(r)
  BY <1>1, RespHead
<1>3. m.id \in Requests
  BY Zenon, <1>1, <1>2 DEF Sendable
<1>4. m \in Asking(m.id) /\ (r # m.id => m \notin Asking(r) /\ m \notin Cancels(r)) /\ m \notin Cancels(m.id)
  <2>1. m.type # "FETCH_CANCEL"
    BY <1>1 DEF Kept, AllKinds
  <2>. QED  BY Zenon, <1>1, <1>2, <2>1, MessageKinds
<1>5. SameReq(r) /\ Forward
  BY Zenon, <1>1, StreamsStay DEF Forward
<1>6. incoming'[m.id] = "pending" /\ (r # m.id => incoming'[r] = incoming[r])
  BY <1>1, <1>3 DEF TypeOK
<1>7. CASE r # m.id
  <2>1. ~Handled(r)' /\ SameResp(r)
    BY Zenon, <1>1, <1>4, <1>7, RespRead DEF Handled
  <2>. QED  BY Zenon, <1>1, <1>2, <1>5, <1>6, <1>7, <2>1, Untouched DEF SameState
<1>8. CASE r = m.id
  <2>1. Once(toResp, Asking(r)) /\ Before(toResp, Asking(r), Cancels(r))
    BY DEF RequestInv, StreamInv
  <2>2. /\ Has(toResp, Asking(r)) /\ ~Has(toResp', Asking(r)) /\ Once(toResp', Asking(r))
        /\ Has(toResp', Cancels(r)) => Has(toResp, Cancels(r))
        /\ Once(toResp, Cancels(r)) => Once(toResp', Cancels(r))
        /\ Before(toResp', Asking(r), Cancels(r))
    BY Zenon, <1>1, <1>4, <1>8, <2>1, RespRead
  <2>3. Underway(r) /\ Handled(r)' /\ Underway(r)' /\ (Findable(r)' <=> Findable(r))
    BY Zenon, <1>1, <1>4, <1>8, <2>2 DEF Underway, Handled, Findable
  <2>4. StreamInv(r)'
    BY Zenon, <1>1, <1>5, <1>6, <1>8, <2>2, <2>3 DEF RequestInv, StreamInv, SameReq
  <2>5. decided[r] = "nothing" /\ call[r].at \notin {"idle", "unsent"}
    BY <2>3 DEF RequestInv, StreamInv
  <2>6. CallInv(r)'
    BY Zenon, <1>1, <2>5 DEF RequestInv, CallInv
  <2>7. HeldInv(r)'
    BY <1>1, <2>2, <2>3, <2>5 DEF RequestInv, HeldInv
  <2>. QED  BY <2>4, <2>6, <2>7 DEF RequestInv
<1>. QED  BY <1>7, <1>8

LEMMA InvOtherReads ==
    ASSUME TypeOK, MessageInv, OnTrackStatusRequest \/ OnUnsubscribeAnnounces \/ OnUnannounce,
           NEW r \in Requests, RequestInv(r)
    PROVE  RequestInv(r)'
<1> DEFINE m == Head(toResp)
<1>1. /\ RespTakes /\ m.type \in {"TRACK_STATUS_REQUEST", "UNSUBSCRIBE_ANNOUNCES", "UNANNOUNCE"}
      /\ handling' = {m} \/ UNCHANGED handling
      /\ UNCHANGED <<call, out, response, toReq, withdraws, decided, deleted>>
  BY Zenon DEF OnTrackStatusRequest, OnUnsubscribeAnnounces, OnUnannounce, RespReads, Calls, requester, history
<1>2. m \in Message /\ ~Handled(r) /\ (m \in Unannounces => withdraws > 0)
  BY Zenon, <1>1, RespHead
<1>3. m \notin Asking(r) /\ m \notin Cancels(r)
  <2>1. m.type # "FETCH_CANCEL" /\ m.type \notin Kept
    BY <1>1 DEF Kept, AllKinds
  <2>. QED  BY Zenon, <1>2, <2>1, MessageKinds
<1>4. SameReq(r) /\ SameResp(r) /\ ~Handled(r)'
  BY Zenon, <1>1, <1>2, <1>3, RespRead, StreamsStay DEF Handled
<1>5. Forward
  <2>1. UNCHANGED reader \/ reader' = [reader EXCEPT !["responder"] = "errUnknownAnnouncement"]
    BY Zenon DEF OnTrackStatusRequest, OnUnsubscribeAnnounces, OnUnannounce, Calls
  <2>. QED  BY <1>1, <2>1 DEF Forward, TypeOK
<1>6. CASE UNCHANGED incoming
  BY Zenon, <1>1, <1>2, <1>4, <1>5, <1>6, Untouched DEF SameState
<1>7. CASE ~UNCHANGED incoming
  <2>1. OnUnannounce
    BY <1>7 DEF OnTrackStatusRequest, OnUnsubscribeAnnounces
  <2>2. PICK s \in Deletes(incoming, "ANNOUNCE", m.ns) : incoming' = [incoming EXCEPT ![s] = "none"]
    BY <1>7, <2>1 DEF OnUnannounce
  <2>3. s \in Requests /\ call[s].kind = "ANNOUNCE" /\ incoming \in [Requests -> Places]
    BY DeletesType DEF TypeOK
  <2>4. incoming'[s] = "none" /\ (r # s => incoming'[r] = incoming[r])
    BY <2>2, <2>3
  <2>5. withdraws' > 0 /\ UNCHANGED handling
    <3>1. m.type = "UNANNOUNCE" /\ UNCHANGED handling
      BY <2>1 DEF OnUnannounce, RespReads
    <3>. QED  BY <1>1, <1>2, <3>1, MessageKinds
  <2>6. CASE r # s
    BY Zenon, <1>1, <1>2, <1>4, <1>5, <2>4, <2>6, Untouched DEF SameState
  <2>7. CASE r = s
    BY <1>1, <1>4, <1>5, <2>3, <2>4, <2>5, <2>7, InDeleted
  <2>. QED  BY <2>6, <2>7
<1>. QED  BY <1>6, <1>7

\* A namespace that is refused ends the responder's control reader, and with it
\* the request.
LEMMA InvBadNamespace ==
    ASSUME TypeOK, MessageInv, OnBadNamespace, NEW r \in Requests, RequestInv(r)
    PROVE  RequestInv(r)'
<1>1. /\ RespTakes /\ reader' = [reader EXCEPT !["responder"] = "errInvalidNamespaceLength"]
      /\ UNCHANGED <<call, out, response, incoming, handling, toReq, withdraws, decided, deleted>>
  BY DEF OnBadNamespace, requester, history
<1>2. SameReq(r) /\ (Handled(r)' <=> Handled(r)) /\ (Findable(r)' <=> Findable(r))
  BY Zenon, <1>1, StreamsStay DEF Handled, Findable
<1>3. /\ Has(toResp', Asking(r)) => Has(toResp, Asking(r))
      /\ Has(toResp', Cancels(r)) => Has(toResp, Cancels(r))
      /\ Once(toResp, Asking(r)) => Once(toResp', Asking(r))
      /\ Once(toResp, Cancels(r)) => Once(toResp', Cancels(r))
      /\ Before(toResp, Asking(r), Cancels(r)) => Before(toResp', Asking(r), Cancels(r))
  BY Zenon, <1>1, RespRead
<1>4. Underway(r)' => Underway(r)
  BY Zenon, <1>2, <1>3 DEF Underway
<1>5. StreamInv(r)'
  BY Zenon, <1>1, <1>2, <1>3, <1>4 DEF RequestInv, StreamInv, SameReq
<1>6. CallInv(r)'
  BY Zenon, <1>1 DEF RequestInv, CallInv
<1>7. reader'["responder"] # "reading"
  BY <1>1 DEF TypeOK
<1>8. HeldInv(r)'
  BY Zenon, <1>1, <1>3, <1>7 DEF RequestInv, HeldInv
<1>. QED  BY <1>5, <1>6, <1>8 DEF RequestInv

\* FETCH_CANCEL reaches the responder after FETCH was answered.
LEMMA CancelArrives ==
    ASSUME TypeOK, MessageInv, OnFetchCancel, RequestInv(Head(toResp).id)
    PROVE  LET s == Head(toResp).id IN
           /\ s \in Requests /\ Head(toResp) \in Cancels(s) /\ Head(toResp) \in Message /\ RespTakes
           /\ call[s].kind = "FETCH" /\ call[s].at \notin {"idle", "unsent", "waiting"}
           /\ ~Underway(s) /\ decided[s] \in {"accept", "reject"} /\ ~Has(toResp', Asking(s))
           /\ decided[s] = "accept" => incoming[s] = "announced" \/ withdraws > 1
           /\ decided[s] = "accept" => call[s].at = "cancelled" \/ withdraws > 0
           /\ Has(toResp', Cancels(s)) => withdraws > 1
<1> DEFINE m == Head(toResp)
           s == m.id
<1>1. RespTakes /\ m.type = "FETCH_CANCEL"
  BY DEF OnFetchCancel, RespReads
<1>2. m \in Sendable /\ m \in Message /\ ~Handled(s) /\ reader["responder"] = "reading"
  BY <1>1, RespHead
<1>3. s \in Requests
  BY Zenon, <1>1, <1>2 DEF Sendable
<1>4. m \in Cancels(s)
  BY Zenon, <1>1, <1>2, MessageKinds
<1> HIDE DEF s
<1>5. /\ Has(toResp, Cancels(s)) /\ ~Has(toResp, Asking(s)) /\ ~Has(toResp', Asking(s))
      /\ Once(toResp, Cancels(s)) => ~Has(toResp', Cancels(s))
  <2>1. Before(toResp, Asking(s), Cancels(s))
    BY DEF RequestInv, StreamInv, s
  <2>. QED  BY Zenon, <1>1, <1>4, <2>1, RespRead
<1>6. call[s].kind = "FETCH" /\ (call[s].at \in {"cancelled", "refused"} \/ (call[s].at = "accepted" /\ withdraws > 0))
  BY <1>5 DEF RequestInv, StreamInv, s
<1>7. ~Underway(s)
  BY <1>2, <1>5 DEF Underway, s
<1>8. decided[s] \in {"accept", "reject"}
  <2>1. decided[s] \in {"nothing", "accept", "reject"}
    BY <1>3 DEF TypeOK
  <2>2. decided[s] # "nothing"
    BY <1>2, <1>6, <1>7 DEF RequestInv, HeldInv, s
  <2>. QED  BY <2>1, <2>2
<1>9. decided[s] = "accept" => call[s].at # "refused"
  BY <1>6 DEF RequestInv, CallInv, Kept, AllKinds, s
<1>10. (decided[s] = "accept" => incoming[s] = "announced" \/ withdraws > 1) /\ (Has(toResp', Cancels(s)) => withdraws > 1)
  BY <1>5, <1>6 DEF RequestInv, HeldInv, s
<1>. QED  BY <1>1, <1>2, <1>3, <1>4, <1>5, <1>6, <1>7, <1>8, <1>9, <1>10 DEF s

LEMMA InvFetchCancel ==
    ASSUME TypeOK, MessageInv, OnFetchCancel, RequestInv(Head(toResp).id), NEW r \in Requests, RequestInv(r)
    PROVE  RequestInv(r)'
<1> DEFINE m == Head(toResp)
           s == m.id
<1>1. /\ s \in Requests /\ m \in Cancels(s) /\ m \in Message /\ RespTakes
      /\ call[s].kind = "FETCH" /\ call[s].at \notin {"idle", "unsent", "waiting"}
      /\ ~Underway(s) /\ decided[s] \in {"accept", "reject"} /\ ~Has(toResp', Asking(s))
      /\ decided[s] = "accept" => call[s].at = "cancelled" \/ withdraws > 0
      /\ Has(toResp', Cancels(s)) => withdraws > 1
  BY CancelArrives
<1>2. /\ UNCHANGED <<call, out, response, handling, toReq, withdraws, decided, deleted>>
      /\ \/ UNCHANGED incoming /\ reader' = [reader EXCEPT !["responder"] = "errUnknownRequestID"]
         \/ UNCHANGED reader /\ incoming' = [incoming EXCEPT ![s] = "none"]
  BY DEF OnFetchCancel, requester, history
<1> HIDE DEF s
<1>3. SameReq(r) /\ (Handled(r)' <=> Handled(r)) /\ (Findable(r)' <=> Findable(r))
  BY Zenon, <1>2, StreamsStay DEF Handled, Findable
<1>4. Forward
  BY <1>2 DEF Forward, TypeOK
<1>5. CASE r # s
  <2>1. SameResp(r)
    <3>1. m \notin Asking(r) /\ m \notin Cancels(r)
      BY Zenon, <1>1, <1>5, MessageKinds DEF s
    <3>. QED  BY Zenon, <1>1, <3>1, RespRead
  <2>2. incoming'[r] = incoming[r]
    BY <1>2, <1>5 DEF TypeOK
  <2>. QED  BY Zenon, <1>2, <1>3, <1>4, <2>1, <2>2, Untouched DEF SameState
<1>6. CASE r = s
  <2>1. /\ Has(toResp', Cancels(r)) => Has(toResp, Cancels(r))
        /\ Once(toResp, Asking(r)) => Once(toResp', Asking(r))
        /\ Once(toResp, Cancels(r)) => Once(toResp', Cancels(r))
        /\ Before(toResp, Asking(r), Cancels(r)) => Before(toResp', Asking(r), Cancels(r))
    BY Zenon, <1>1, RespRead
  <2>2. ~Underway(r)' /\ ~Handled(r)'
    BY Zenon, <1>1, <1>3, <1>6 DEF Underway
  <2>3. StreamInv(r)'
    BY Zenon, <1>1, <1>2, <1>3, <1>6, <2>1, <2>2 DEF RequestInv, StreamInv, SameReq
  <2>4. CallInv(r)'
    BY Zenon, <1>1, <1>2, <1>6 DEF RequestInv, CallInv
  <2>5. HeldInv(r)'
    BY <1>1, <1>2, <1>6, <2>1 DEF RequestInv, HeldInv
  <2>. QED  BY <2>3, <2>4, <2>5 DEF RequestInv
<1>. QED  BY <1>5, <1>6

\* The handler answers the request it was called for ...
LEMMA InvAnswer ==
    ASSUME TypeOK, NEW m \in Message, m.type \in Kept, m.kind = m.type, m.id \in Requests, m.type = call[m.id].kind,
           handling = {m}, handling' = {}, NEW ok \in BOOLEAN, SendAnswer(m, ok),
           UNCHANGED <<call, out, response, reader, toResp, withdraws, deleted>>,
           \A q \in Requests : q # m.id => incoming'[q] = incoming[q],
           m.kind \in {"ANNOUNCE", "FETCH"} /\ ok => incoming'[m.id] = "announced",
           NEW r \in Requests, RequestInv(r)
    PROVE  RequestInv(r)'
<1> DEFINE s == m.id
           a == Msg("ANSWER", m.kind, m.id, m.ns, ok)
           d == IF ok THEN "accept" ELSE "reject"
<1>1. a \in Message /\ a.type = "ANSWER" /\ a.kind = m.kind /\ a.id = s /\ a.ok = ok
  <2>1. m.kind \in AllKinds /\ m.id \in Nat /\ m.ns \in Namespaces
    BY DEF Message
  <2>2. a \in Message
    BY <2>1, MsgType
  <2>. QED  BY <2>2 DEF Msg
<1>2. toReq' = Append(toReq, a) /\ decided' = [decided EXCEPT ![s] = d]
  BY DEF SendAnswer
<1>3. decided'[s] = d /\ (r # s => decided'[r] = decided[r])
  BY <1>2 DEF TypeOK
<1> HIDE DEF a
<1>4. a \in Says(s, ok) /\ (r # s => a \notin Answers(r)) /\ \A x \in BOOLEAN : a \in Says(s, x) => x = ok
  BY Zenon, <1>1, MessageKinds
<1>5. SameResp(r) /\ Forward /\ ~Handled(r)' /\ (Findable(r)' <=> Findable(r))
  BY Zenon, StreamsStay DEF Forward, Handled, Findable
<1>6. CASE r # s
  <2>1. ~Handled(r)
    <3>1. m \notin Asking(r)
      BY Zenon, <1>6, MessageKinds
    <3>. QED  BY Zenon, <3>1 DEF Handled
  <2>2. SameReq(r)
    BY Zenon, <1>1, <1>2, <1>4, <1>6, ReqWritten
  <2>. QED  BY Zenon, <1>3, <1>5, <1>6, <2>1, <2>2, Untouched DEF SameState
<1>7. CASE r = s
  <2>1. Handled(r) /\ Underway(r)
    BY Zenon, <1>7, MessageKinds DEF Handled, Underway
  <2>2. /\ call[r].at \notin {"idle", "unsent"} /\ decided[r] = "nothing" /\ response[r] = {} /\ Findable(r)
        /\ ~Has(toResp, Asking(r)) /\ ~Has(toReq, Says(r, TRUE)) /\ ~Has(toReq, Says(r, FALSE))
        /\ Once(toResp, Asking(r)) /\ Before(toResp, Asking(r), Cancels(r))
        /\ Has(toResp, Cancels(r)) =>
              /\ call[r].kind = "FETCH"
              /\ call[r].at \in {"cancelled", "refused"} \/ (call[r].at = "accepted" /\ withdraws > 0)
    BY Zenon, <2>1 DEF RequestInv, StreamInv
  <2>3. ~Has(toReq, Answers(r))
    BY Zenon, <2>2 DEF Has, Answers
  <2>4. Once(toReq', Answers(r)) /\ \A x \in BOOLEAN : Has(toReq', Says(r, x)) => x = ok
    BY Zenon, <1>1, <1>2, <1>4, <1>7, <2>2, <2>3, ReqWritten
  <2>5. ~Underway(r)'
    BY Zenon, <1>5, <2>2 DEF Underway, SameResp
  <2>6. StreamInv(r)'
    BY Zenon, <1>3, <1>5, <1>7, <2>2, <2>4, <2>5 DEF StreamInv, SameResp, Underway
  <2>7. call[r].at \notin {"accepted", "refused"} /\ out[r] # "announced" /\ call[r].kind \in Kept
    BY <1>7, <2>2 DEF RequestInv, CallInv, HeldInv
  <2>8. CallInv(r)'
    BY <2>2, <2>7 DEF CallInv, Kept
  <2>9. HeldInv(r)'
    BY Zenon, <1>3, <1>7, <2>2, <2>7 DEF RequestInv, HeldInv
  <2>. QED  BY <2>6, <2>8, <2>9 DEF RequestInv
<1>. QED  BY <1>6, <1>7

\* ... or, for an announcement cancelled meanwhile and for a status request,
\* nothing that a call waits for.
LEMMA InvNoAnswer ==
    ASSUME TypeOK, NEW m \in Message, m.type \in AllKinds, m.type # "FETCH",
           m.type \in Kept => m.id \in Requests /\ m.type = call[m.id].kind,
           handling = {m}, handling' = {},
           UNCHANGED <<call, out, response, incoming, decided, reader, toResp, withdraws, deleted>>,
           NEW r \in Requests, RequestInv(r), SameReq(r)
    PROVE  RequestInv(r)'
<1>1. SameResp(r) /\ Forward /\ ~Handled(r)' /\ (Findable(r)' <=> Findable(r))
  BY Zenon, StreamsStay DEF Forward, Handled, Findable
<1>2. CASE m \notin Asking(r)
  <2>1. ~Handled(r)
    BY Zenon, <1>2 DEF Handled
  <2>. QED  BY Zenon, <1>1, <2>1, Untouched DEF SameState
<1>3. CASE m \in Asking(r)
  <2>1. call[r].kind # "FETCH"
    BY Zenon, <1>3, MessageKinds
  <2>2. Underway(r)' => Underway(r)
    BY Zenon, <1>1 DEF Underway, SameResp
  <2>3. StreamInv(r)'
    BY Zenon, <1>1, <2>1, <2>2 DEF RequestInv, StreamInv, SameResp, SameReq
  <2>4. CallInv(r)'
    BY Zenon DEF RequestInv, CallInv
  <2>5. HeldInv(r)'
    BY Zenon, <2>1 DEF RequestInv, HeldInv
  <2>. QED  BY <2>3, <2>4, <2>5 DEF RequestInv
<1>. QED  BY <1>2, <1>3

LEMMA InvHandle ==
    ASSUME TypeOK, MessageInv, NEW m \in handling, Handle(m), NEW r \in Requests, RequestInv(r)
    PROVE  RequestInv(r)'
<1>1. /\ m \in Message /\ m.type \in AllKinds /\ m.kind = m.type /\ handling = {m}
      /\ m.type \in Kept => m.id \in Requests /\ m.type = call[m.id].kind /\ m.ns = call[m.id].ns
  <2>1. m \in Sendable /\ m.type \in AllKinds /\ \A n \in handling : m = n
    BY DEF MessageInv
  <2>2. m \in Message /\ m.type \in AllKinds /\ m.kind = m.type /\ handling = {m}
    BY <2>1 DEF Sendable
  <2>3. m.type \in Kept => m.id \in Requests /\ m.type = call[m.id].kind /\ m.ns = call[m.id].ns
    BY <2>1 DEF Sendable
  <2>. QED  BY <2>2, <2>3
<1>2. handling' = {} /\ UNCHANGED <<call, out, response, reader, toResp, withdraws, deleted>>
  BY DEF Handle, requester
<1>3. CASE m.kind = "TRACK_STATUS_REQUEST"
  <2> DEFINE a == Msg("ANSWER", m.kind, 0, m.ns, TRUE)
  <2>1. toReq' = Append(toReq, a) /\ UNCHANGED <<incoming, decided>>
    BY Zenon, <1>3 DEF Handle, SendTrackStatus
  <2>2. a \in Message /\ a.kind \notin Kept
    <3>1. m.kind \in AllKinds /\ m.ns \in Namespaces
      BY <1>1 DEF Message
    <3>2. a \in Message
      BY Zenon, <3>1, MsgType
    <3>. QED  BY <1>3, <3>2 DEF Msg, Kept
  <2> HIDE DEF a
  <2>3. SameReq(r)
    <3>1. a \notin Answers(r)
      BY Zenon, <2>2, MessageKinds
    <3>. QED  BY Zenon, <2>1, <2>2, <3>1, ReqWritten
  <2>4. m.type # "FETCH"
    BY <1>1, <1>3
  <2>. QED  BY Zenon, <1>1, <1>2, <2>1, <2>3, <2>4, InvNoAnswer
<1>4. CASE UNCHANGED <<incoming, toReq, decided>> /\ m.kind = "ANNOUNCE"
  <2>1. SameReq(r) /\ m.type # "FETCH"
    BY <1>1, <1>4, StreamsStay
  <2>. QED  BY Zenon, <1>1, <1>2, <1>4, <2>1, InvNoAnswer
<1>5. CASE m.kind \in Kept /\ \E ok \in BOOLEAN :
              /\ SendAnswer(m, ok)
              /\ \/ UNCHANGED incoming /\ (ok => m.kind = "SUBSCRIBE_ANNOUNCES")
                 \/ incoming' = [incoming EXCEPT ![m.id] = IF ok THEN "announced" ELSE "none"]
  <2>1. PICK ok \in BOOLEAN :
              /\ SendAnswer(m, ok)
              /\ \/ UNCHANGED incoming /\ (ok => m.kind = "SUBSCRIBE_ANNOUNCES")
                 \/ incoming' = [incoming EXCEPT ![m.id] = IF ok THEN "announced" ELSE "none"]
    BY <1>5
  <2>2. \A q \in Requests : q # m.id => incoming'[q] = incoming[q]
    BY <2>1 DEF TypeOK
  <2>3. m.kind \in {"ANNOUNCE", "FETCH"} /\ ok => incoming'[m.id] = "announced"
    BY <1>1, <1>5, <2>1 DEF TypeOK
  <2>. QED  BY <1>1, <1>2, <1>5, <2>1, <2>2, <2>3, InvAnswer
<1>6. \/ m.kind = "TRACK_STATUS_REQUEST"
      \/ UNCHANGED <<incoming, toReq, decided>> /\ m.kind = "ANNOUNCE"
      \/ m.kind \in {"ANNOUNCE", "SUBSCRIBE_ANNOUNCES"} /\ SendAnswer(m, FALSE) /\ UNCHANGED incoming
      \/ m.kind = "SUBSCRIBE_ANNOUNCES" /\ SendAnswer(m, TRUE) /\ UNCHANGED incoming
      \/ m.kind \in {"ANNOUNCE", "FETCH"} /\ SendAnswer(m, TRUE) /\ incoming' = [incoming EXCEPT ![m.id] = "announced"]
      \/ m.kind = "FETCH" /\ SendAnswer(m, FALSE) /\ incoming' = [incoming EXCEPT ![m.id] = "none"]
  BY Zenon DEF Handle, AcceptAnnouncement, RejectAnnouncement, AcceptAnnouncementSubscription,
               RejectAnnouncementSubscription, AcceptFetch, RejectFetch
<1>7. {"ANNOUNCE", "SUBSCRIBE_ANNOUNCES", "FETCH"} \subseteq Kept
  BY DEF Kept, AllKinds
<1>. QED  BY Zenon, <1>3, <1>4, <1>5, <1>6, <1>7

\* The requester's control reader.
LEMMA ReqHead ==
    ASSUME TypeOK, MessageInv, NEW t, ReqReads(t)
    PROVE  Head(toReq) \in Answerable /\ Head(toReq) \in Message /\ toReq' \in Seq(Answerable) /\ Head(toReq).type = t
<1>1. toReq \in Seq(Answerable) /\ toReq # <<>> /\ toReq' = Tail(toReq) /\ Head(toReq).type = t
  BY DEF MessageInv, ReqReads
<1>2. Tail(toReq) \in Seq(Answerable) /\ Head(toReq) \in Answerable
  BY <1>1, ReadOff
<1>. QED  BY Zenon, <1>1, <1>2 DEF Answerable

\* A message that finds no entry ends the requester's control reader.
LEMMA InvAnswerLost ==
    ASSUME TypeOK, NEW t, ReqReads(t), UNCHANGED <<call, out, response, incoming, handling, toResp, withdraws, decided, deleted>>,
           NEW err, reader' = [reader EXCEPT !["requester"] = err], NEW r \in Requests, RequestInv(r)
    PROVE  RequestInv(r)'
<1>1. SameResp(r) /\ (Handled(r)' <=> Handled(r)) /\ (Findable(r)' <=> Findable(r))
  BY Zenon, StreamsStay DEF Handled, Findable
<1>2. Forward
  BY DEF Forward, TypeOK
<1>3. CASE Head(toReq) \notin Answers(r)
  BY Zenon, <1>1, <1>2, <1>3, ReqRead, Untouched DEF SameState
<1>4. CASE Head(toReq) \in Answers(r)
  <2>1. Once(toReq, Answers(r))
    BY DEF RequestInv, StreamInv
  <2>2. ~Has(toReq', Answers(r)) /\ ~Has(toReq', Says(r, TRUE)) /\ ~Has(toReq', Says(r, FALSE)) /\ Once(toReq', Answers(r))
    BY Zenon, <1>4, <2>1, ReqRead
  <2>3. Underway(r)' <=> Underway(r)
    BY Zenon, <1>1 DEF Underway, SameResp
  <2>4. StreamInv(r)'
    BY Zenon, <1>1, <2>2, <2>3 DEF RequestInv, StreamInv, SameResp
  <2>5. CallInv(r)'
    BY Zenon DEF RequestInv, CallInv
  <2>6. HeldInv(r)'
    BY Zenon, <1>1, <1>2, <2>3 DEF RequestInv, HeldInv, SameResp, Forward
  <2>. QED  BY <2>4, <2>5, <2>6 DEF RequestInv
<1>. QED  BY <1>3, <1>4

\* An answer to a request that the responder keeps in a map: its channel is
\* empty, and it says what was decided.
LEMMA AnswerFinds ==
    ASSUME TypeOK, MessageInv, ReqReads("ANSWER"), Head(toReq).kind \in Kept,
           \A r \in Requests : RequestInv(r)
    PROVE  LET m == Head(toReq) IN
           /\ m.id \in Requests /\ m.kind = call[m.id].kind /\ m.ns = call[m.id].ns /\ m \in Answers(m.id)
           /\ \A r : r # m.id => m \notin Answers(r)
           /\ response[m.id] = {} /\ Findable(m.id) /\ ~Underway(m.id)
           /\ decided[m.id] = (IF m.ok THEN "accept" ELSE "reject")
<1> DEFINE m == Head(toReq)
           s == m.id
<1>1. m \in Answerable /\ m \in Message /\ m.type = "ANSWER"
  BY ReqHead
<1>2. m.id \in Requests /\ m.kind = call[m.id].kind /\ m.ns = call[m.id].ns /\ m.ok \in BOOLEAN
  <2>1. m.ok \in BOOLEAN
    BY <1>1 DEF Message
  <2>. QED  BY <1>1, <2>1 DEF Answerable
<1>3. m \in Answers(m.id) /\ m \in Says(m.id, m.ok) /\ \A r : r # m.id => m \notin Answers(r)
  BY Zenon, <1>1, <1>2, MessageKinds
<1> HIDE DEF m, s
<1>4. Has(toReq, Answers(m.id)) /\ Has(toReq, Says(m.id, m.ok))
  BY Zenon, <1>2, <1>3, ReqRead DEF m
<1>5. RequestInv(m.id)
  BY <1>2
<1>6. response[m.id] = {} /\ Findable(m.id) /\ decided[m.id] = (IF m.ok THEN "accept" ELSE "reject")
  BY Zenon, <1>2, <1>4, <1>5 DEF RequestInv, StreamInv
<1>7. ~Underway(m.id)
  BY <1>5, <1>6 DEF RequestInv, StreamInv
<1>. QED  BY <1>2, <1>3, <1>6, <1>7 DEF m

LEMMA InvAnswered ==
    ASSUME TypeOK, MessageInv, \A r \in Requests : RequestInv(r),
           NEW kind \in Kept, NEW ok, NEW place, NEW err, AnswerForm(kind, ok, place, err), Answered(kind, ok, place, err),
           FindsPending(Head(toReq)), UNCHANGED toResp, NEW r \in Requests
    PROVE  RequestInv(r)'
<1> DEFINE m == Head(toReq)
           s == m.id
<1>1. /\ ReqReads("ANSWER") /\ m.kind = kind /\ m.ok = ok
      /\ out' = [out EXCEPT ![s] = place]
      /\ response' = [response EXCEPT ![s] = IF @ = {} THEN {[ok |-> ok, ns |-> m.ns]} ELSE @]
      /\ UNCHANGED <<call, incoming, handling, reader, withdraws, decided, deleted>>
  BY DEF Answered, history
<1>2. /\ s \in Requests /\ m.kind = call[s].kind /\ m.ns = call[s].ns /\ m \in Answers(s)
      /\ r # s => m \notin Answers(r)
      /\ response[s] = {} /\ Findable(s) /\ ~Underway(s)
      /\ decided[s] = (IF m.ok THEN "accept" ELSE "reject")
  BY <1>1, AnswerFinds
<1> HIDE DEF m, s
<1>3. out'[s] = place /\ response'[s] = {[ok |-> ok, ns |-> m.ns]} /\ (r # s => out'[r] = out[r] /\ response'[r] = response[r])
  BY <1>1, <1>2 DEF TypeOK
<1>4. SameResp(r) /\ Forward /\ (Handled(r)' <=> Handled(r)) /\ RequestInv(r)
  BY Zenon, <1>1, StreamsStay DEF Forward, Handled
<1>5. CASE r # s
  <2>1. SameReq(r)
    BY Zenon, <1>1, <1>2, <1>5, ReqRead DEF m
  <2>. QED  BY Zenon, <1>1, <1>3, <1>4, <1>5, <2>1, Untouched DEF SameState
<1>6. CASE r = s
  <2>1. Once(toReq, Answers(r))
    BY Zenon, <1>4 DEF RequestInv, StreamInv
  <2>2. ~Has(toReq', Answers(r)) /\ ~Has(toReq', Says(r, TRUE)) /\ ~Has(toReq', Says(r, FALSE)) /\ Once(toReq', Answers(r))
    BY Zenon, <1>1, <1>2, <1>6, <2>1, ReqRead DEF m
  <2>3. ~Underway(r)'
    BY Zenon, <1>2, <1>4, <1>6 DEF Underway, SameResp
  <2>4. StreamInv(r)'
    BY Zenon, <1>1, <1>4, <2>2, <2>3 DEF RequestInv, StreamInv, SameResp, Underway
  <2>5. CallInv(r)'
    <3>1. CallInv(r) /\ call' = call /\ incoming' = incoming /\ decided' = decided
      BY <1>1, <1>4 DEF RequestInv
    <3>2. ASSUME NEW a \in response'[r]
          PROVE  decided[r] = (IF a.ok THEN "accept" ELSE "reject") /\ a.ns = call[r].ns
      <4>1. a.ok = m.ok /\ a.ns = m.ns
        BY <1>1, <1>3, <1>6
      <4>. QED  BY Zenon, <1>2, <1>6, <4>1
    <3>3. call[r].kind # "TRACK_STATUS_REQUEST"
      BY <1>1, <1>2, <1>6 DEF Kept
    <3>. QED  BY Zenon, <3>1, <3>2, <3>3 DEF CallInv
  <2>6. out'[r] = "announced" => call[r].kind \in {"ANNOUNCE", "FETCH"} /\ decided[r] = "accept"
    BY Zenon, <1>1, <1>2, <1>3, <1>6 DEF AnswerForm, Kept, AllKinds
  <2>7. call[r].kind = "FETCH" => out'[r] # "none" \/ decided[r] = "reject"
    BY Zenon, <1>1, <1>2, <1>3, <1>6 DEF AnswerForm
  <2>8. HeldInv(r)'
    BY Zenon, <1>1, <1>2, <1>4, <1>6, <2>6, <2>7 DEF RequestInv, HeldInv, SameResp
  <2>. QED  BY <2>4, <2>5, <2>8 DEF RequestInv
<1>. QED  BY <1>5, <1>6

\* A track status, which goes to request 0.
LEMMA InvStatusAnswered ==
    ASSUME TypeOK, MessageInv, NEW ok, NEW err,
           Answered("TRACK_STATUS_REQUEST", ok, "pending", err),
           FindsPending(Head(toReq)), UNCHANGED toResp, NEW r \in Requests, RequestInv(r)
    PROVE  RequestInv(r)'
<1> DEFINE m == Head(toReq)
           s == m.id
<1>1. /\ ReqReads("ANSWER") /\ m.kind = "TRACK_STATUS_REQUEST"
      /\ s \in Requests /\ out[s] = "pending" /\ call[s].kind = "TRACK_STATUS_REQUEST"
      /\ out' = [out EXCEPT ![s] = "pending"]
      /\ \E x : response' = [response EXCEPT ![s] = x]
      /\ UNCHANGED <<call, incoming, handling, reader, withdraws, decided, deleted>>
  BY Zenon DEF Answered, FindsPending, history
<1>2. m \in Answerable /\ m \in Message /\ m.type = "ANSWER" /\ m.kind \notin Kept
  BY <1>1, ReqHead DEF Kept
<1>3. s = 0 /\ m \notin Answers(r)
  <2>1. m.id = 0
    BY <1>2 DEF Answerable
  <2>. QED  BY Zenon, <1>2, <2>1, MessageKinds
<1> HIDE DEF m, s
<1>4. SameResp(r) /\ SameReq(r) /\ Forward /\ (Handled(r)' <=> Handled(r))
  BY Zenon, <1>1, <1>3, StreamsStay, ReqRead DEF Forward, Handled, m
<1>5. out'[r] = out[r] /\ (r # s => response'[r] = response[r])
  BY <1>1 DEF TypeOK
<1>6. CASE r # s
  BY Zenon, <1>1, <1>4, <1>5, <1>6, Untouched DEF SameState
<1>7. CASE r = s
  <2>1. \A x \in Sendable : x \notin Asking(r)
    BY <1>1, <1>7 DEF Sendable, Asking, Kept
  <2>2. \A x \in Answerable : x \notin Answers(r)
    BY <1>1, <1>7 DEF Answerable, Answers, Says, Kept
  <2>3. ~Underway(r) /\ ~Has(toReq, Answers(r))
    <3>1. /\ \A i \in 1..Len(toResp) : toResp[i] \in Sendable
          /\ \A i \in 1..Len(toReq) : toReq[i] \in Answerable
          /\ handling \subseteq Sendable
      BY DEF MessageInv
    <3>. QED  BY Zenon, <2>1, <2>2, <3>1 DEF Underway, Handled, Has
  <2>4. ~Underway(r)' /\ ~Has(toReq', Answers(r)) /\ (Findable(r)' <=> Findable(r))
    BY Zenon, <1>1, <1>4, <1>5, <2>3 DEF Underway, SameResp, SameReq, Findable
  <2>5. StreamInv(r)'
    BY Zenon, <1>1, <1>4, <2>3, <2>4 DEF RequestInv, StreamInv, SameResp, SameReq, Underway
  <2>6. CallInv(r)'
    BY <1>1, <1>3, <1>7 DEF RequestInv, CallInv, Kept
  <2>7. HeldInv(r)'
    BY Zenon, <1>1, <1>5, <1>7 DEF RequestInv, HeldInv
  <2>. QED  BY <2>5, <2>6, <2>7 DEF RequestInv
<1>. QED  BY <1>6, <1>7

LEMMA InvReqReader ==
    ASSUME TypeOK, MessageInv, \A r \in Requests : RequestInv(r), ReqReader, NEW r \in Requests
    PROVE  RequestInv(r)'
<1>1. CASE OnAnnounceCancel
  <2>1. /\ ReqReads("ANNOUNCE_CANCEL") /\ reader' = [reader EXCEPT !["requester"] = "errLengthMismatch"]
        /\ UNCHANGED <<call, out, response, incoming, handling, toResp, withdraws, decided, deleted>>
    BY <1>1 DEF OnAnnounceCancel, requester, history
  <2>. QED  BY Zenon, <2>1, InvAnswerLost
<1>2. ASSUME NEW kind, NEW ok, NEW place, NEW err, AnswerForm(kind, ok, place, err), Answered(kind, ok, place, err),
             UNCHANGED toResp \/ (kind = "FETCH" /\ FindsPending(Head(toReq)) /\ response[Head(toReq).id] # {} /\ FetchCancel(Head(toReq).id))
      PROVE  RequestInv(r)'
  <2>1. ReqReads("ANSWER") /\ Head(toReq).kind = kind
    BY <1>2 DEF Answered
  <2>2. UNCHANGED toResp
    <3>1. kind = "FETCH" => response[Head(toReq).id] = {}
      BY <2>1, AnswerFinds DEF Kept, AllKinds
    <3>. QED  BY <1>2, <3>1
  <2>3. CASE ~FindsPending(Head(toReq))
    <3>1. /\ reader' = [reader EXCEPT !["requester"] = err]
          /\ UNCHANGED <<call, out, response, incoming, handling, withdraws, decided, deleted>>
      BY Zenon, <1>2, <2>3 DEF Answered, history
    <3>. QED  BY Zenon, <2>1, <2>2, <3>1, InvAnswerLost
  <2>4. CASE FindsPending(Head(toReq)) /\ kind \in Kept
    BY Zenon, <1>2, <2>2, <2>4, InvAnswered
  <2>5. CASE FindsPending(Head(toReq)) /\ kind \notin Kept
    <3>1. kind = "TRACK_STATUS_REQUEST" /\ place = "pending"
      BY <1>2, <2>5 DEF AnswerForm, Kept
    <3>. QED  BY Zenon, <1>2, <2>2, <2>5, <3>1, InvStatusAnswered
  <2>. QED  BY <2>3, <2>4, <2>5
<1>. QED  BY Zenon, <1>1, <1>2, AnswerForms
=============================================================================
