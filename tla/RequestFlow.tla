----------------------------- MODULE RequestFlow -----------------------------
(***************************************************************************)
(* Session setup and request ID flow control between two sessions          *)
(* (session.go: Run, sendClientSetup, receive, onClientSetup,              *)
(* onServerSetup, getRequestID, addLocalTrack, onMaxRequestID).            *)
(*                                                                         *)
(* Each peer hands out request IDs below the MAX_REQUEST_ID its peer       *)
(* granted, and grants its peer request IDs in SETUP and MAX_REQUEST_ID.   *)
(* A control stream is a reliable FIFO in each direction; ctl[p] holds the *)
(* messages on their way to p.  Requests are abstracted to their kind and  *)
(* their ID: SUBSCRIBE and FETCH go through addLocalTrack, OTHER stands    *)
(* for ANNOUNCE, SUBSCRIBE_ANNOUNCES and TRACK_STATUS_REQUEST, whose       *)
(* handlers look at no limit.  Answers to requests do not touch this state *)
(* and are left out, except the SUBSCRIBE_ERROR of a request over the      *)
(* limit.  Version negotiation is between two peers running this code and  *)
(* always succeeds.                                                        *)
(***************************************************************************)
EXTENDS RequestIDs, Sequences

CONSTANTS
    InitialMax,      \* Session.InitialMaxRequestID of each peer
    ServerSetupMax,  \* the MAX_REQUEST_ID parameter onClientSetup sends (the literal 100)
    Kinds,           \* the kinds of request the applications make
    MaxID            \* bound: no request ID above MaxID is taken

Peers == {"client", "server"}
Other(p) == IF p = "client" THEN "server" ELSE "client"
Perspective(p) == IF p = "client" THEN 0 ELSE 1

TrackKinds == {"SUBSCRIBE", "FETCH"}
RequestKinds == TrackKinds \cup {"OTHER"}
SetupTypes == {"CLIENT_SETUP", "SERVER_SETUP"}
MsgTypes == SetupTypes \cup RequestKinds
            \cup {"MAX_REQUEST_ID", "REQUESTS_BLOCKED", "TOO_MANY_REQUESTS"}
Msg == [type : MsgTypes, v : Nat]

ASSUME ConstantsType ==
    /\ InitialMax \in [Peers -> Nat]
    /\ ServerSetupMax \in Nat
    /\ Kinds \subseteq RequestKinds
    /\ MaxID \in Nat

VARIABLES
    phase,     \* per peer: where its control reader and its Run call are
    gen,       \* per peer: requestIDs
    localMax,  \* per peer: localMaxRequestID
    unsent,    \* per peer: IDs taken from gen whose request is not written yet
    ctl        \* per peer: control messages on their way to it

vars == <<phase, gen, localMax, unsent, ctl>>

\* start: before CLIENT_SETUP is written; handshake: reading until SETUP;
\* replying: CLIENT_SETUP processed, SERVER_SETUP not written yet;
\* open: Run has returned; dead: readControlStream returned an error.
Phases == {"start", "handshake", "replying", "open", "dead"}

TypeOK ==
    /\ phase \in [Peers -> Phases]
    /\ gen \in [Peers -> Generator]
    /\ localMax \in [Peers -> Nat]
    /\ unsent \in [Peers -> SUBSET Nat]
    /\ ctl \in [Peers -> Seq(Msg)]

Init ==
    /\ phase = [p \in Peers |-> IF p = "client" THEN "start" ELSE "handshake"]
    /\ gen = [p \in Peers |-> NewGenerator(Perspective(p))]
    /\ localMax = InitialMax
    /\ unsent = [p \in Peers |-> {}]
    /\ ctl = [p \in Peers |-> <<>>]

Message(t, v) == [type |-> t, v |-> v]
Received(p, t) == ctl[p] # <<>> /\ Head(ctl[p]).type = t
Write(p, m) == ctl' = [ctl EXCEPT ![Other(p)] = Append(@, m)]
Read(p) == ctl' = [ctl EXCEPT ![p] = Tail(@)]
ReadAndWrite(p, m) == ctl' = [ctl EXCEPT ![p] = Tail(@), ![Other(p)] = Append(@, m)]

-----------------------------------------------------------------------------
\* Handshake

SendClientSetup ==
    /\ phase["client"] = "start"
    /\ phase' = [phase EXCEPT !["client"] = "handshake"]
    /\ Write("client", Message("CLIENT_SETUP", localMax["client"]))
    /\ UNCHANGED <<gen, localMax, unsent>>

\* receive() accepts nothing but SETUP before the handshake is done.
OnClientSetup ==
    LET v == Head(ctl["server"]).v IN
    /\ phase["server"] = "handshake"
    /\ ctl["server"] # <<>>
    /\ IF Received("server", "CLIENT_SETUP") /\ (v > 0 => SetMaxOK(gen["server"], v))
       THEN /\ phase' = [phase EXCEPT !["server"] = "replying"]
            /\ gen' = [gen EXCEPT !["server"] = IF v > 0 THEN SetMax(@, v) ELSE @]
       ELSE /\ phase' = [phase EXCEPT !["server"] = "dead"]
            /\ UNCHANGED gen
    /\ Read("server")
    /\ UNCHANGED <<localMax, unsent>>

\* The end of onClientSetup: write SERVER_SETUP, then close handshakeDoneCh,
\* which lets the server's Run return.
SendServerSetup ==
    /\ phase["server"] = "replying"
    /\ phase' = [phase EXCEPT !["server"] = "open"]
    /\ Write("server", Message("SERVER_SETUP", ServerSetupMax))
    /\ UNCHANGED <<gen, localMax, unsent>>

OnServerSetup ==
    LET v == Head(ctl["client"]).v IN
    /\ phase["client"] = "handshake"
    /\ ctl["client"] # <<>>
    /\ IF Received("client", "SERVER_SETUP") /\ SetMaxOK(gen["client"], v)
       THEN /\ phase' = [phase EXCEPT !["client"] = "open"]
            /\ gen' = [gen EXCEPT !["client"] = SetMax(@, v)]
       ELSE /\ phase' = [phase EXCEPT !["client"] = "dead"]
            /\ UNCHANGED gen
    /\ Read("client")
    /\ UNCHANGED <<localMax, unsent>>

-----------------------------------------------------------------------------
\* The requester: getRequestID, then the write of the request.  Concurrent
\* calls take IDs in one order and may write their requests in another.  The
\* application may go on making requests after its control reader has died.

RunReturnedEarly(p) == phase[p] \in {"replying", "open", "dead"}
RunReturned(p) == phase[p] \in {"open", "dead"}

TakeRequestID(p) ==
    /\ RunReturned(p)
    /\ ~IDBlocked(gen[p])
    /\ gen[p].id <= MaxID
    /\ gen' = [gen EXCEPT ![p] = TakeID(@)]
    /\ unsent' = [unsent EXCEPT ![p] = @ \cup {gen[p].id}]
    /\ UNCHANGED <<phase, localMax, ctl>>

WriteRequest(p, id, kind) ==
    /\ id \in unsent[p]
    /\ unsent' = [unsent EXCEPT ![p] = @ \ {id}]
    /\ Write(p, Message(kind, id))
    /\ UNCHANGED <<phase, gen, localMax>>

\* A blocked call writes REQUESTS_BLOCKED and returns an error.  Bound: one
\* REQUESTS_BLOCKED in flight, a repetition adds nothing to this state.
RequestBlocked(p) ==
    /\ RunReturned(p)
    /\ IDBlocked(gen[p])
    /\ \A i \in 1..Len(ctl[Other(p)]) : ctl[Other(p)][i].type # "REQUESTS_BLOCKED"
    /\ Write(p, Message("REQUESTS_BLOCKED", gen[p].max))
    /\ UNCHANGED <<phase, gen, localMax, unsent>>

-----------------------------------------------------------------------------
\* The control reader of an open session

\* addLocalTrack for a request within the limit: a request in the upper half
\* doubles the limit and grants the new one.
AddLocalTrackUngranted(p, id) ==
    /\ localMax' = [localMax EXCEPT ![p] = IF RaisesLimit(id, @) THEN RaisedLimit(@) ELSE @]
    /\ Read(p)
    /\ UNCHANGED phase
AddLocalTrack(p, id) ==
    IF RaisesLimit(id, localMax[p])
    THEN LET newMax == RaisedLimit(localMax[p]) IN
         /\ localMax' = [localMax EXCEPT ![p] = newMax]
         /\ ReadAndWrite(p, Message("MAX_REQUEST_ID", newMax))
         /\ UNCHANGED phase
    ELSE Read(p) /\ UNCHANGED <<phase, localMax>>

\* errMaxRequestIDViolated: onSubscribe answers SUBSCRIBE_ERROR; onFetch finds
\* no pending track to reject and ends the control reader.
RefuseOverLimit(p, m) ==
    /\ IF m.type = "SUBSCRIBE"
       THEN ReadAndWrite(p, Message("TOO_MANY_REQUESTS", m.v)) /\ UNCHANGED phase
       ELSE Read(p) /\ phase' = [phase EXCEPT ![p] = "dead"]
    /\ UNCHANGED localMax

OnTrackRequest(p) ==
    LET m == Head(ctl[p]) IN
    /\ phase[p] = "open" /\ ctl[p] # <<>> /\ m.type \in TrackKinds
    /\ IF OverLimit(m.v, localMax[p]) THEN RefuseOverLimit(p, m) ELSE AddLocalTrack(p, m.v)
    /\ UNCHANGED <<gen, unsent>>

OnMaxRequestID(p) ==
    LET v == Head(ctl[p]).v IN
    /\ phase[p] = "open" /\ Received(p, "MAX_REQUEST_ID")
    /\ IF SetMaxOK(gen[p], v)
       THEN gen' = [gen EXCEPT ![p] = SetMax(@, v)] /\ UNCHANGED phase
       ELSE phase' = [phase EXCEPT ![p] = "dead"] /\ UNCHANGED gen
    /\ Read(p)
    /\ UNCHANGED <<localMax, unsent>>

\* REQUESTS_BLOCKED is only logged; the handlers of the other requests, and of
\* the refusal, leave the flow control state alone.
OnOtherMessage(p) ==
    /\ phase[p] = "open" /\ ctl[p] # <<>>
    /\ Head(ctl[p]).type \in {"OTHER", "REQUESTS_BLOCKED", "TOO_MANY_REQUESTS"}
    /\ Read(p)
    /\ UNCHANGED <<phase, gen, localMax, unsent>>

-----------------------------------------------------------------------------
ControlReader(p) == OnTrackRequest(p) \/ OnMaxRequestID(p) \/ OnOtherMessage(p)

Handshake == SendClientSetup \/ OnClientSetup \/ SendServerSetup \/ OnServerSetup

Next ==
    \/ Handshake
    \/ \E p \in Peers : TakeRequestID(p) \/ RequestBlocked(p) \/ ControlReader(p)
    \/ \E p \in Peers : \E id \in unsent[p], kind \in Kinds : WriteRequest(p, id, kind)

Spec == Init /\ [][Next]_vars

\* Goroutines that can run do run, and a call that took an ID goes on to write
\* its request.  Nothing obliges the application to make a request.
Fairness ==
    /\ WF_vars(Handshake)
    /\ \A p \in Peers : WF_vars(ControlReader(p))
    /\ \A p \in Peers : WF_vars(\E id \in unsent[p], kind \in Kinds : WriteRequest(p, id, kind))

FairSpec == Spec /\ Fairness

-----------------------------------------------------------------------------
\* Properties

\* No peer ever finds a message other than SETUP while it waits for SETUP:
\* receive() never returns errUnexpectedMessageTypeBeforeSetup, since a session
\* hands out requests only after its own SETUP is on the control stream.
SetupComesFirst ==
    \A p \in Peers :
        phase[p] \in {"start", "handshake"} /\ ctl[p] # <<>> => Head(ctl[p]).type \in SetupTypes

\* Every request on the control stream is below the limit its receiver
\* enforces: a peer that stays within its grant is never refused by
\* errMaxRequestIDViolated in addLocalTrack.
GrantIsHonoured ==
    \A p \in Peers : \A i \in 1..Len(ctl[p]) :
        ctl[p][i].type \in TrackKinds => ~OverLimit(ctl[p][i].v, localMax[p])

\* Grants reach the requester in increasing order, none below what it holds:
\* setMax never returns errMaxRequestIDDecreased, and no control reader dies.
GrantsOnlyGrow ==
    /\ \A p \in Peers : phase[p] # "dead"
    /\ \A p \in Peers : \A i \in 1..Len(ctl[p]) :
          ctl[p][i].type = "MAX_REQUEST_ID" => ctl[p][i].v > gen[p].max
    /\ \A p \in Peers : \A i, j \in 1..Len(ctl[p]) :
          /\ ctl[p][i].type = "MAX_REQUEST_ID" /\ ctl[p][j].type = "MAX_REQUEST_ID"
          /\ i < j
          => ctl[p][i].v < ctl[p][j].v

\* Nothing of p's is under way: no call between ID and write, no request and
\* no grant on the control streams.
Quiescent(p) ==
    /\ phase = [q \in Peers |-> "open"]
    /\ unsent[p] = {}
    /\ \A i \in 1..Len(ctl[Other(p)]) : ctl[Other(p)][i].type \notin RequestKinds
    /\ \A i \in 1..Len(ctl[p]) : ctl[p][i].type # "MAX_REQUEST_ID"

\* A requester that has nothing under way can take another request ID: with
\* SUBSCRIBE and FETCH only, addLocalTrack raises the limit in time.
NoStarvation ==
    \A p \in Peers : Quiescent(p) => ~IDBlocked(gen[p])

\* A blocked requester does not stay blocked: the grant addLocalTrack sends for
\* a request in the upper half of the limit reaches it.
BlockedEventuallyFreed ==
    \A p \in Peers : (RunReturned(p) /\ IDBlocked(gen[p])) ~> ~IDBlocked(gen[p])
=============================================================================
