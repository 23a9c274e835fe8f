# A TLA+ model of moqtransport-fec

This directory holds TLA+ specifications of the Media over QUIC transport
library (draft-11 sessions, `session.go` with its track and request maps, and the
wire format of `internal/wire`) and of the XOR forward error correction on top of
it (`fec/xor`). They are checked with TLC on small instances; the theorems are
proved with TLAPS for all values of the constants.

## The system

A *session* runs over one QUIC or WebTransport connection. `Session.Run` opens
or accepts the control stream and starts three goroutines: `readControlStream`,
which handles control messages and runs the application's handlers one after
the other, `readStreams`, which starts a goroutine per unidirectional stream,
and `readDatagrams`. An error in one of them cancels the session's context.
Application goroutines call `Subscribe`, `Fetch`, `Announce` and so on; each
call takes a request ID, enters itself into a map, writes its request and waits
for the answer or for its own context.

| Part | State | Operations | Module |
| --- | --- | --- | --- |
| Setup and request ID flow control | `requestIDs`, `localMaxRequestID`, `handshakeDoneCh` | `Run`, `sendClientSetup`, `onClientSetup`, `onServerSetup`, `getRequestID`, `addLocalTrack`, `onMaxRequestID`, `onRequestsBlocked` | `RequestIDs`, `RequestFlow` |
| Subscriptions | `remoteTracks`, `localTracks`, `trackAliases`, `responseChan`, the contexts of both kinds of track | `Subscribe`, `UpdateSubscription`, `RemoteTrack.Close`, response writer, `onSubscribe`, `onSubscribeOk`, ... | `Subscribe`, `SubscriptionContract` |
| Object delivery | `subgroupCount`, uni streams, datagrams, `RemoteTrack.buffer` | `sendDatagram`, `openSubgroup`, `WriteObject`, `readStreams`, `readDatagrams`, `push`, `ReadObject` | `Delivery` |
| Fetch, announcements, announcement subscriptions, track status | their outgoing and incoming maps and response channels | `Fetch`, `Announce`, `Unannounce`, `AnnounceCancel`, `SubscribeAnnouncements`, `UnsubscribeAnnouncements`, `RequestTrackStatus` and the handlers | `Exchanges` |
| Fetch streams | `localTrack.fetchStream`, `RemoteTrack.buffer` | `getFetchStream`, `FetchStream.WriteObject`, `readStreams`, `readFetchStream`, `push`, `ReadObject` | `Fetch` |
| Wire format | bytes on a stream or in a datagram, what a parser keeps | `compileMessage`, every `Append` and `parse`, `ControlMessageParser`, `ObjectStreamParser`, `ObjectDatagramMessage` | `WireCodec`, `WireMessages`, `Wire` |
| XOR FEC | `Encoder`, `Decoder.blocks`, publisher and subscriber of the example | `TryEncode`, `TryDecode`, `CleanupOldBlocks`, `publishNext`, `processObject` | `XorFec` |

`Delivery` extends `Subscribe`: it composes the data plane with the control
plane, so that streams and datagrams race with `SUBSCRIBE_OK` and
`SUBSCRIBE_DONE`. `Fetch` extends `Exchanges` in the same way. `Wire` justifies
that the other modules send whole messages over FIFO queues: what a parser hands
on is what the peer wrote, in order (with two exceptions: the expiry of a
subscription and `ANNOUNCE_CANCEL`, see below). `RequestFlow` justifies what `Subscribe` assumes: request IDs
are unique and never refused for being over the limit. `XorFec` uses a network
that loses and reorders datagrams, which is what `Delivery` provides.

What makes the code hard is in `hazards` of `PROJECT.json`: calls that are
cancelled while their answer is under way, messages that cross on the two
directions of the control stream, data that overtakes control messages, request
IDs written out of order, doubling of a limit at its edges, handlers that are
answered by goroutines of their own, streams that are cut in the middle of a
length, and FEC blocks whose packets arrive in any order or not at all.

## Modules

**`RequestIDs`** has the arithmetic of `request_id.go` and of the limit in
`addLocalTrack`. **`RequestFlow`** has two peers, `client` and `server`, and a
FIFO per direction. `phase` says where a peer's control reader and its `Run` are.
Taking an ID (`TakeRequestID`) and writing the request (`WriteRequest`) are
separate steps, as nothing in `Subscribe` orders the writes of concurrent calls.
`AddLocalTrack` includes the `MAX_REQUEST_ID` it sends. The value 100 that
`onClientSetup` sends is the constant `ServerSetupMax`.

**`Subscribe`** has one subscriber and one publisher after the handshake. A
`Subscribe` call goes through `SubscribeCall` (entry in `remoteTracks`),
`SubscribeWrite`, then `SubscribeResponse` or `SubscribeCtxDone`, which race, and
`SubscribeReject`. The publisher's control reader blocks while a handler runs
(`handling`). Accepting or rejecting is two steps, `Answer`, which sets `handled`,
and `Accept` or `Reject`, and may be taken by a goroutine that outlives the
handler. `HandlerReturn` reads `handled` and `RejectUnhandled` rejects what seemed
unanswered. `CloseWithError` is two steps, `CloseCancel` and
`SubscriptionDone`. `SUBSCRIBE_OK` carries alias 0, as in
`acceptSubscriptionWithOptions`. **`SubscriptionContract`** is the abstract
specification: what was asked, what was decided, whether the end was seen.

**`Delivery`** adds objects, numbered in the order they are published. A
datagram is in a set: it may arrive at any time or never. A stream goes from
`opened` over `accepted` to `read`, `ignored` or `eof`; each has a goroutine of
its own. `OpenSubgroup` and `NewSubgroup` are the two halves of `openSubgroup`.

**`Exchanges`** has the request kinds other than subscriptions, with one action
per call and per handler. One peer requests, the other answers; the other
direction is the same code. The request ID that `TRACK_STATUS_REQUEST` and
`TRACK_STATUS` leave unset is 0 here too. `ANNOUNCE_CANCEL` ends the requester's
control reader, as it is sent with the type of `ANNOUNCE`
(`announce_cancel_message.go:29`). A failed `Fetch` sends `FETCH_CANCEL` in any
case. **`Fetch`** adds the stream of a fetch, which is not ordered with the control
stream, the loop `readStreams` that accepts it until a dead control reader has
cancelled the session's context (`StopLoop`), and the buffer it is read into.

**`WireCodec`** has the encodings of numbers, strings, tuples, locations, versions
and parameters, and layouts: a parser is a sequence of steps (take a number, at
least two more bytes, a field that is there when an earlier one has a value) that
`Parse` runs over the bytes of a body. **`WireMessages`** has the `Append` and the
layout of every control message, and the framing. **`Wire`** has a channel, one of
control stream, subgroup stream, fetch stream and datagrams, whose writer and
reader work on bytes; `Reset` cuts a stream. Reading a message or an object is one
step, since the parsers block until it is complete.

**`XorFec`** has symbolic payloads: the set of counters XORed into a payload and
its length. XOR is symmetric difference, so whether recovery is exact does not
depend on byte values; length is kept because padding decides whether a
recovered counter parses.

Modules `MC...` only give constants their values. **`RequestFlowProofs`**,
**`SubscribeInvariant`**, **`SubscribeProofs`**, **`ExchangesInvariant`**,
**`ExchangesProofs`**, **`DeliveryOrder`**, **`DeliveryProofs`** and
**`XorFecProofs`** hold theorems and proofs. Definitions that sit in front of another and have its name
with a suffix (`IDBlockedOffByOne`, `PushOverwrites`, ...) are deliberately wrong
variants; they show that the properties notice such a mistake and are part of no
specification.

## Runs

| Run | Instance | Shows |
| --- | --- | --- |
| `request_flow` | limits 3 and 4, IDs up to 7, SUBSCRIBE and FETCH | setup order, grants honoured and growing, no starvation, blocked requesters are freed |
| `subscribe` | 2 requests, valid and invalid namespaces | at most one answer, agreement of both ends, why a reader may stop, end after acceptance, who owns the tracks that stay in the map; refinement of the contract; calls return, `Close` and the end of a track take effect |
| `delivery` | 1 request with 2 objects and 2 streams, or 2 requests with 1 object, 1 stream and handlers that answer before they return; buffer of 1 | no object reaches another subscription, order per stream, only overflow loses objects of a stream, why a stream or datagram finds no track, stream count |
| `xor_fec` | blocks of 3, base 4, 8 counters, cleanup on every second delivery keeping no old block | recovery is exact, one loss is repaired, a received packet is withheld only on recovery |
| `exchanges` | 2 requests of 4 kinds, 2 valid namespaces and an invalid one, 2 withdrawals, a fetch stream of 2 objects, buffer of 1 | results are the responder's decision, announced means accepted, why a reader may stop, which track status a call learns; a fetch stream is ignored only after the call failed, its objects are read or dropped on a full buffer unless `readStreams` ended first; calls return |
| `wire` | every control message with its optional fields, numbers on both sides of the varint sizes, 2 messages or objects per channel | what is read is what was written, but for the length of an expiry; only a cut or `ANNOUNCE_CANCEL` ends a reader with an error; a reader never waits for the rest of a message |

Six runs have a violation as their expected result. Each states what a comment,
a message or a document of the repository says, and TLC shows a behaviour of the
code that contradicts it:

* `request_flow_hardcoded`: `onClientSetup` grants 100 whatever
  `InitialMaxRequestID` is, so a server with a smaller value refuses requests
  that it granted.
* `subscribe_alias`: `SUBSCRIBE_OK` never carries the track's alias, so the
  second accepted subscription of a session ends in the "internal error:
  duplicate track alias". Worse, when two handlers answer from goroutines of their
  own and the later subscription is accepted first, it takes alias 0 and with it
  the objects of the earlier one; this is why `NoMisrouting` is checked for
  handlers that answer before they return (`Synchronous`).
* `subscribe_cancel`: the late answer to a cancelled `Subscribe` is not dropped;
  it ends the control reader.
* `xor_fec_digits`: a recovered counter with fewer digits than its block's
  longest is padded with zero bytes and does not parse (with base 10: 9 lost in
  the block 8 to 11).
* `exchanges_unannounce`: `Unannounce` reports an unknown namespace exactly
  when it found and deleted the announcement.
* `wire_expires`: the duration in `Expires` of `SUBSCRIBE_OK` is written in
  nanoseconds (`subscribe_ok_message.go:58`) and read in milliseconds (`:87`), so
  the subscriber gets a million times what the handler set with `WithExpires`.
  `ReceivedIsSent` says of this field only that zero, which stands for no expiry,
  stays zero, and nothing else becomes zero.

**Bounds.** Limits 3 and 4 with IDs up to 7 make both peers exhaust and double
their limit; an odd and an even limit are both there because IDs step by 2, and
an off-by-one shows only if the limit is an ID of the requester. Two
subscriptions let one be cancelled or unanswered while the other is established
or ends; they share the control streams, the alias and the control readers, and
nothing else.
Two objects and two streams with a buffer of 1 give an overflow and every order
of two streams and a datagram. A second subscription may be there with one object
on one stream (`OneOrSmall`), which is enough for its data to meet the alias of
the first; `SUBSCRIBE_UPDATE` and failing writes are left out (`DataOnly`) because
they touch no data. The two requests of `exchanges` ask for what `MixedPlans` lists:
any two kinds without a track, or a fetch and another one or a status request;
requests of different kinds share no map, so a second namespace is used only for
two requests of one kind, and only namespaces that some announcement names are
withdrawn. In `wire`, the first message of a channel is any of `AllMessages`
and the second a `MAX_REQUEST_ID` or a `SUBSCRIBE_ERROR`, with the limit of a body
at 310 instead of 65535 bytes: bodies of 300 bytes need both length bytes and
bodies of 600 are refused. Numbers stay below 2^31. Eight counters give two full blocks, a partial one and, in
base 4, a digit boundary inside a block; keeping 0 blocks makes cleanup hit
blocks in use. Deadlock is not checked: every system here may come to rest when
the applications make no more calls, or stops at a bound.

**Fairness.** Weak fairness on the control readers, on the steps of a call or
handler that is under way, and on the handshake: goroutines that can run do run,
and the control streams deliver. Handlers are assumed to return. Nothing obliges
an application to make, cancel or close anything, and no fairness is assumed for
datagrams. `Fetch` adds `readStreams` while it runs, the goroutine of a stream and
an application that keeps reading objects; a stream that was accepted is read
although the session's context is cancelled, since nothing in its goroutine looks
at that context. Liveness properties make an exception for a control reader that has
died, since the calls do not watch the session's context.

## Proofs

**Setup and flow control.** `RequestFlowProofs` proves, for all limits, kinds of request, numbers of requests
and interleavings:

* `Typing`: `TypeOK`.
* `GrantSafety`, `SetupSafety` and `GrantOrder`: every request on a control stream
  is below its receiver's limit, SETUP comes first, grants grow and no control
  reader dies, assuming `ServerSetupMax <= InitialMax["server"]`. That assumption
  is what the hard coded 100 breaks.
* `Supply`: `NoStarvation`, assuming requests are SUBSCRIBE or FETCH, the server
  grants what it enforces and limits are at least 3. With a limit of 2 the
  client takes ID 0, which is below half of the limit, and waits for ever.

None of these invariants is inductive. `FlowInv` adds to `TypeOK`: `PhaseInv`
(which handshake message is where in each phase), `QuietInv` (nothing is sent by
a peer before its SETUP), `GrantInv` (what a requester holds and all grants on
their way are ordered and bounded by the granter's limit) and `RequestInv` (IDs
taken but not written, and requests under way, are below the requester's grant).
`Supply` needs in addition `SupplyInv`: once both peers are open, the granter's
limit is held by the requester or on its way to it (`GrantSupply`), and the last
ID taken is not written yet, on its way, or in the lower half of that limit
(`IDSupply`). Reading a request in the upper half doubles the limit in the same
step, which puts the request in the lower half of the new one
(`SupplyUpperHalf`). There is one lemma per handler, over lemmas on what reading
and writing do to the messages under way (`ReadKeeps`, `WriteKeeps`,
`ReadAndWriteKeeps`).

**Subscriptions.** `SubscribeInvariant` and `SubscribeProofs` prove, for any set of
requests and all interleavings, and from no assumption but that the set is finite
and namespaces are valid or invalid:

* `Typing`: `TypeOK`.
* `Refinement`: `Subscribe` implements `SubscriptionContract` (`ImplementsContract`).
* `SingleAnswer`, `OutcomesAgree`, `Ownership`, `DoneOrder` and `UnknownReasons`:
  the invariants `AtMostOneAnswer`, `Agreement`, `EntriesHaveOwners`, `DoneAfterOk`
  and `UnknownOnlyAfterClose` of the run `subscribe`.

`SubscribeInvariant` starts with lemmas on what a control stream holds about a
request after a message is written or read (`Has`, `Once`, `Before`) and has the
inductive invariant, per request: `StreamInv` (at most
one SUBSCRIBE, which the publisher does not know yet; at most one answer, which the
call has not seen, and SUBSCRIBE_DONE behind it; an accepted track is pending at the
subscriber only while SUBSCRIBE_OK is on its way), `CallInv` (which states of the
call, of the track map and of `responseChan` go together) and `LocalInv` (what the
publisher's state says about the subscriber's). `StepKinds` is the core of the
refinement: a step moves one call, or one local track, or ends one remote track, or
changes nothing the contract speaks of.

**Exchanges and fetches.** `ExchangesInvariant` and `ExchangesProofs` prove, for any
finite set of requests, any namespaces, plans and number of withdrawals:

* `Typing`: `TypeOK`, with at most one answer in a response channel.
* `DecisionReturned`, `AcceptedBeforeAnnounced`, `WithdrawalBeforeUnknown` and
  `StatusAskedFor`: the invariants `ReturnsTheDecision`,
  `AnnouncedWasAccepted`, `UnknownOnlyAfterWithdrawal` and
  `StatusWasAskedFor` of the run `exchanges`.
* `FetchImplementsExchanges`: with fetch streams every execution is still one of
  `Exchanges`, so all of these hold with data under way. `FetchTyping` and
  `IgnoredOnlyIfFailed` are `FetchTypeOK` and `IgnoredOnlyAfterFailure`.

`ExchangesInv` has `MessageInv` (a message names a request and carries the kind and
namespace of its call, or, for a track status, ID 0) and per request `StreamInv` (it
goes out once, before any FETCH_CANCEL, and is answered once), `CallInv` (what waits
in the response channel and what the call was told is what was decided) and
`HeldInv` (which entries of the two sides' maps go together, and what withdrawals
and cancellations may have removed). `CauseInv` says that every UNANNOUNCE and every
track status under way goes back to a call, `StatusInv` that the entry of a status
request stays and that no request goes out before request 0, to which all statuses
are answered, and `RemovedInv` that the responder holds what it accepted until it
is removed. `UnknownOnlyAfterWithdrawal` is inductive only
together with these: the reader that meets an unknown request is several messages
behind the call that removed it. For fetches, `FetchInv` says that a stream belongs
to a FETCH that was sent.

**Delivery.** `DeliveryOrder` and `DeliveryProofs` prove, for any finite set of
requests and any number of objects, streams and any buffer capacity:

* `DeliveryImplementsSubscribe`: every execution of `Delivery` is one of
  `Subscribe`, so the theorems on subscriptions hold with data under way.
* `DataTyping`, `StreamsStayOrdered`, `LossIsOverflow` and `CountRace`: `DataTypeOK`,
  `StreamOrder`, `OnlyOverflowDrops` and `StreamCountIsClose` of the run `delivery`.
* `RoutedToItsTrack`: `NoMisrouting` for any number of subscriptions, in executions
  in which handlers answer before they return (`[]Synchronous`, the constraint of
  the run `delivery` for two subscriptions). Without that hypothesis it is false, as the
  run `subscribe_alias` explains.
* `UnknownHasReason`: `UnknownOnlyWithReason` for any number of subscriptions and
  any handlers. One of its reasons is an alias other than 0: SUBSCRIBE_OK carries
  alias 0, so the alias of a second track leads nowhere however late its data come.

The order of a stream is inductive with what is still on the stream: `OrderInv`
says that what a track received of a stream is rising, and behind it what the stream
holds. `LossInv` follows an object from the stream over the buffer to the reader.
`CountInv` relates the streams opened, the `openSubgroup` calls under way and the
count a close has read. `TrackInv` says that streams and datagrams carry the alias
of the accepted track they were sent on. Where that alias leads is a question to
the control plane: `AliasInv` (local aliases come from the sequence, installed ones
are 0) and `RouteInv` (with synchronous handlers the first SUBSCRIBE_OK on the
stream is that of the first subscription if it was accepted, so that alias 0 leads to
that track or to none) answer it in `SubscribeProofs`, and `TargetInv` is then
inductive. For `UnknownHasReason` it is `InstalledInv`: while the control reader
lives, alias 0 leads somewhere as soon as any track is open.

**XOR FEC.** `XorFecProofs` proves, for every block size, base, cleanup interval and
number of counters, and every loss and order of datagrams:

* `FecTyping`: `TypeOK`.
* `OneLossRepaired` and `WithheldForRecovery`: `OneLossIsRepaired` and
  `WithheldOnlyOnRecovery` of the run `xor_fec`.
* `RecoveryExact`: `RecoveryIsExact` for block sizes above 1. With blocks of one
  packet TryDecode drops the block when its packet arrives, and then recovers that
  packet again from the parity packet; `xor.Config` does not exclude it.

`XorInv` has: `EncInv` and `SentInv` (what is sent is determined by block and number,
so that a datagram is its block's packet or parity packet), `HeldInv` (what a block
holds has arrived, and its count is right), `RecoveredInv` (a recovery uses up the
one parity packet of its block, so there is no second one), `PhaseInv` (a block that
was not cleaned up is gathering, with everything that arrived and not enough to
recover, or complete, or repaired) and `HandedInv` (all packets that arrived were
handed on, or all but one of a repaired block). The algebra is in `XorOfPackets` and
`XorLeavesMissing`: the XOR of different packets has exactly their counters, and the
parity XORed with all packets but one leaves that one.

Only model-checked: liveness (fairness and `ENABLED` are out of the prover's reach)
and `Wire` (its parsers are folds over sequences of bytes, about which the prover has
no induction). All other safety properties of the passing runs are theorems.

## Assumptions of the model

* Handlers other than those of subscriptions answer before they return, and
  applications close only tracks they
  accepted and send only on accepted tracks, from one goroutine per track.
* A failing write of the control stream is modelled where the code's reaction
  leaves state behind: `Subscribe`, and the four calls of `Exchanges`.
* Both peers run this code: versions agree, and messages are well formed (which
  `Wire` shows of what this code writes).
* The receive loops may process what has already arrived after the session's
  context was cancelled.
* A block size of 1 is allowed by `xor.Config` but makes every parity packet a
  copy of its data packet that is delivered once more; the runs use 3.

## Seen while modelling

Besides the six findings, the modules carry behaviour that no comment or test of
the repository contradicts, and that a reader of the code may want to know:

* Data that arrive before their SUBSCRIBE_OK is processed are lost: a stream is
  ignored, and a datagram ends the datagram loop and with it the session.
  `UnknownOnlyWithReason` lists this reason. The test for it,
  `receives_objects_before_susbcribe_ok` in `session_test.go`, is skipped.
* `ANNOUNCE_CANCEL` has the type of `ANNOUNCE` (`announce_cancel_message.go:29`);
  `ReceivedIsSent` and `ErrorsComeFromOutside` say nothing of what follows one.
* All status requests and their answers have request ID 0. With several calls under
  way, request 0 gets whatever status comes first and the others none; when request
  0 is of another kind, the answer ends the control reader. `StatusWasAskedFor` says
  that nothing worse happens.
* A rejected announcement stays pending at the responder, and a later UNANNOUNCE or
  `AnnounceCancel` of its namespace removes that entry first.
* When FETCH_OK is processed just before a `Fetch` call notices that its context has
  ended, the track stays in `remoteTracks`.
* A rejected `Fetch` sends `FETCH_CANCEL`, which finds no track at the publisher and
  ends its control reader; `UnknownOnlyAfterWithdrawal` lists this reason.
* `parseLength` and `parseLengthReader` (`kvp_list.go`) do not get past an object
  extension. The library writes none.
* `ObjectDatagramMessage.Parse` leaves the extensions in the payload, and subgroup
  types 0x0a and 0x0b never take the subgroup ID from the first object. The library
  writes neither.

## Not modelled

* `PUBLISH` and its answers, the token of the authorization parameter and
  `AppendDatagramStatus`: `internal/wire` has types for them that the session does
  not use.
* The validation of setup parameters (path, authorization) and version negotiation,
  and the sender of `GOAWAY`, which does not exist; its receiver only calls the
  handler.
* `Close` and a failing connection: they end all goroutines at once.
* Reed-Solomon (`fec/reed-solomon`): block buffers around an external library, used
  by a demo without a network.
* The QUIC and WebTransport adapters, logging and qlog, message types and the
  example programs' command lines, which have no behaviour of their own beyond
  what the modules assume of streams and datagrams.
