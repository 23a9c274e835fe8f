--------------------------- MODULE DeliveryProofs ---------------------------
(***************************************************************************)
(* Safety of Delivery for any finite set of requests and any bounds: its   *)
(* types, what SUBSCRIBE_DONE counts and where aliases lead, and with      *)
(* DeliveryOrder the theorems.                                             *)
(***************************************************************************)
EXTENDS DeliveryOrder, SubscribeProofs, FiniteSetTheorems

\* The number of streams is bounded with the openSubgroup calls under way.
SizeInv == DataTypeOK /\ Len(streams) + Cardinality(opening) <= MaxStreams

\* The close that reads the count is behind the last openSubgroup, or races with one.
CountInv(r) ==
    /\ local[r] = "closed" => closing[r] = "yes"
    /\ closing[r] # "no" => localCtx[r] # "live" /\ local[r] \in {"open", "closed"}
    /\ closing[r] = "yes" => \/ count[r] = doneCount[r]
                             \/ count[r] = doneCount[r] + 1 /\ r \notin opening

-----------------------------------------------------------------------------
\* Types

\* The openSubgroup calls under way are as many as the streams they may open.
LEMMA OpeningSize ==
    ASSUME DataTypeOK
    PROVE  /\ Cardinality(opening) \in Nat
           /\ \A r : r \notin opening => Cardinality(opening \cup {r}) = Cardinality(opening) + 1
           /\ \A r \in opening : Cardinality(opening \ {r}) = Cardinality(opening) - 1
<1>1. IsFiniteSet(opening)
  BY RequestsAssumption, FS_Subset DEF DataTypeOK
<1>. QED  BY <1>1, FS_CardinalityType, FS_AddElement, FS_RemoveElement

LEMMA SizeIsType == SizeInv => TypeInv
BY OpeningSize, LenProperties, DeliveryAssumption DEF SizeInv, TypeInv, DataTypeOK

LEMMA DataTypeInductive ==
    ASSUME TypeOK, SizeInv, [DataNext]_allVars
    PROVE  SizeInv'
<1>0. /\ DataTypeOK /\ Len(streams) + Cardinality(opening) <= MaxStreams
      /\ Cardinality(opening) \in Nat /\ Len(streams) \in Nat /\ MaxStreams \in Nat
  BY OpeningSize, LenProperties, DeliveryAssumption DEF SizeInv, DataTypeOK
<1>1. CASE UNCHANGED allVars
  BY <1>0, <1>1 DEF allVars, dataVars, SizeInv, DataTypeOK
<1>2. CASE ControlStep
  <2>1. doneCount' \in [Requests -> Nat]
    BY <1>0, <1>2 DEF ControlStep, DataTypeOK
  <2>. QED  BY <1>0, <1>2, <2>1 DEF ControlStep, SizeInv, DataTypeOK
<1>3. CASE \E r \in Requests : SendDatagram(r)
  <2>1. PICK r \in Requests : SendDatagram(r)
    BY <1>3
  <2>2. Publish(r, 0) /\ 0 \in 0..MaxStreams
    BY <1>0, <2>1 DEF SendDatagram
  <2>3. published' \in Seq([track : Requests, stream : 0..MaxStreams]) /\ Len(published) + 1 \in Objects
    BY <1>0, <2>2, PublishType
  <2>4. [alias |-> localAlias[r], obj |-> Len(published) + 1] \in Datagram
    BY <2>3 DEF Datagram, TypeOK
  <2>5. dgrams' \subseteq Datagram
    BY <1>0, <2>1, <2>4 DEF SendDatagram, DataTypeOK
  <2>. QED  BY <1>0, <2>1, <2>3, <2>5 DEF SendDatagram, SizeInv, DataTypeOK
<1>4. CASE \E r \in Requests : OpenSubgroup(r)
  <2>1. PICK r \in Requests : OpenSubgroup(r)
    BY <1>4
  <2>2. Len(streams) + Cardinality(opening') <= MaxStreams /\ opening' \subseteq Requests
    <3>1. opening' = opening \cup {r} /\ r \notin opening /\ Len(streams) + Cardinality(opening) < MaxStreams
      BY <2>1 DEF OpenSubgroup
    <3>2. Cardinality(opening') = Cardinality(opening) + 1
      BY <1>0, <3>1, OpeningSize
    <3>. QED  BY <1>0, <3>1, <3>2 DEF DataTypeOK
  <2>. QED  BY <1>0, <2>1, <2>2 DEF OpenSubgroup, SizeInv, DataTypeOK
<1>5. CASE \E r \in Requests : NewSubgroup(r)
  <2>1. PICK r \in Requests : NewSubgroup(r)
    BY <1>5
  <2>2. streams' \in Seq(Stream) /\ Len(streams') <= Len(streams) + 1
    BY <1>0, <2>1, NewEffect
  <2>3. Cardinality(opening') = Cardinality(opening) - 1 /\ opening' \subseteq Requests
    BY <1>0, <2>1, OpeningSize DEF NewSubgroup, DataTypeOK
  <2>4. count' \in [Requests -> Nat]
    <3>1. count' = count \/ count' = [count EXCEPT ![r] = count[r] + 1]
      BY Zenon, <2>1 DEF NewSubgroup
    <3>2. count \in [Requests -> Nat] /\ count[r] + 1 \in Nat
      BY <1>0 DEF DataTypeOK
    <3>3. CASE count' = [count EXCEPT ![r] = count[r] + 1]
      BY Zenon, <3>2, <3>3, FunctionChange
    <3>. QED  BY <3>1, <3>2, <3>3
  <2>5. Len(streams') + Cardinality(opening') <= MaxStreams
    <3>1. Len(streams') \in Nat
      BY <2>2, LenProperties
    <3>. QED  BY <1>0, <2>2, <2>3, <3>1
  <2>. QED  BY <1>0, <2>1, <2>2, <2>3, <2>4, <2>5 DEF NewSubgroup, SizeInv, DataTypeOK
<1>6. CASE \E r \in Requests : ReadObject(r)
  <2>1. PICK r \in Requests : ReadObject(r)
    BY <1>6
  <2>2. UNCHANGED <<published, opening, count, doneCount, dgrams, streams, loop, dropped>>
    BY <2>1 DEF ReadObject
  <2>3. /\ buffer \in [Requests -> Seq(Objects)] /\ (\A q \in Requests : Len(buffer[q]) <= BufferCap)
        /\ read \in [Requests -> Seq(Objects)] /\ readErr \in [Requests -> {"none", "ErrSubscribeDone", "Canceled"}]
    BY <1>0 DEF DataTypeOK
  <2>4. CASE ReadObjectEnds(r)
    BY <1>0, <2>2, <2>3, <2>4 DEF ReadObjectEnds, SizeInv, DataTypeOK
  <2>5. CASE ReadObjectTakes(r)
    <3>1. buffer[r] # <<>> /\ buffer' = [buffer EXCEPT ![r] = Tail(buffer[r])]
      BY <2>5 DEF ReadObjectTakes
    <3>2. /\ Tail(buffer[r]) \in Seq(Objects) /\ Head(buffer[r]) \in Objects
          /\ Len(Tail(buffer[r])) = Len(buffer[r]) - 1 /\ Len(buffer[r]) \in Nat
      BY <2>3, <3>1, Taken
    <3>3. buffer' \in [Requests -> Seq(Objects)] /\ \A q \in Requests : Len(buffer'[q]) <= BufferCap
      <4>1. Len(buffer[r]) - 1 <= BufferCap
        BY <2>3, <3>2, DeliveryAssumption
      <4>. QED  BY <2>3, <3>1, <3>2, <4>1
    <3>4. Append(read[r], Head(buffer[r])) \in Seq(Objects)
      BY <2>3, <3>2, Appended
    <3>5. /\ read' \in [Requests -> Seq(Objects)]
          /\ readErr' \in [Requests -> {"none", "ErrSubscribeDone", "Canceled"}]
      BY <2>3, <2>5, <3>4 DEF ReadObjectTakes
    <3>. QED  BY <1>0, <2>2, <3>3, <3>5 DEF SizeInv, DataTypeOK
  <2>. QED  BY <2>1, <2>4, <2>5 DEF ReadObject
<1>7. CASE \E i \in 1..Len(streams) : WriteObject(i)
  <2>1. PICK i \in 1..Len(streams) : WriteObject(i)
    BY <1>7
  <2>2. /\ streams' \in Seq(Stream) /\ Len(streams') = Len(streams)
        /\ i \in 0..MaxStreams /\ Publish(streams[i].track, i)
    BY <2>1, SizeIsType, WriteEffect DEF Changes
  <2>3. published' \in Seq([track : Requests, stream : 0..MaxStreams])
    BY <1>0, <2>2, StreamType, PublishType
  <2>. QED  BY <1>0, <2>1, <2>2, <2>3 DEF WriteObject, SizeInv, DataTypeOK
<1>8. CASE \E i \in 1..Len(streams) : CloseSubgroup(i) \/ AcceptUniStream(i) \/ HandleUniStream(i)
  <2>1. PICK i \in 1..Len(streams) : CloseSubgroup(i) \/ AcceptUniStream(i) \/ HandleUniStream(i)
    BY <1>8
  <2>2. streams' \in Seq(Stream) /\ Len(streams') = Len(streams)
    BY <1>0, <2>1, CloseEffect, AcceptEffect, HandleEffect DEF Changes
  <2>3. UNCHANGED <<published, opening, count, doneCount, dgrams, loop, buffer, read, readErr, dropped>>
    BY <2>1 DEF CloseSubgroup, AcceptUniStream, HandleUniStream
  <2>. QED  BY <1>0, <2>2, <2>3 DEF SizeInv, DataTypeOK
<1>9. CASE \E i \in 1..Len(streams) : ReadStream(i)
  <2>1. PICK i \in 1..Len(streams) : ReadStream(i)
    BY <1>9
  <2>2. streams' \in Seq(Stream) /\ Len(streams') = Len(streams)
    BY <1>0, <2>1, ReadEffect DEF Changes
  <2>3. /\ buffer' \in [Requests -> Seq(Objects)] /\ \A q \in Requests : Len(buffer'[q]) <= BufferCap
        /\ dropped' \subseteq Objects
    <3>1. CASE UNCHANGED <<buffer, dropped>>
      BY <1>0, <3>1 DEF DataTypeOK
    <3>2. CASE streams[i].sent # <<>> /\ \E r \in streams[i].to : Push(r, Head(streams[i].sent))
      <4>1. Head(streams[i].sent) \in Objects /\ streams[i].to \subseteq Requests
        BY <1>0, <3>2, StreamType, Taken
      <4>. QED  BY <1>0, <3>2, <4>1, PushType
    <3>. QED  BY <1>0, <2>1, <3>1, <3>2, ReadEffect
  <2>. QED  BY <1>0, <2>1, <2>2, <2>3 DEF ReadStream, SizeInv, DataTypeOK
<1>10. CASE \E d \in dgrams : ReceiveDatagram(d)
  <2>1. PICK d \in dgrams : ReceiveDatagram(d)
    BY <1>10
  <2>2. /\ UNCHANGED <<published, opening, count, doneCount, streams, read, readErr>>
        /\ dgrams' \subseteq dgrams
    BY <2>1 DEF ReceiveDatagram
  <2>3. d.obj \in Objects
    BY <1>0 DEF DataTypeOK, Datagram
  <2>4. CASE FindByTrackAlias(d.alias) = {}
    BY <1>0, <2>1, <2>2, <2>4 DEF ReceiveDatagram, SizeInv, DataTypeOK, Loops
  <2>5. CASE FindByTrackAlias(d.alias) # {}
    <3>1. (\E r \in FindByTrackAlias(d.alias) : Push(r, d.obj)) /\ loop' = loop
      BY <2>1, <2>5 DEF ReceiveDatagram
    <3>2. /\ buffer' \in [Requests -> Seq(Objects)] /\ \A q \in Requests : Len(buffer'[q]) <= BufferCap
          /\ dropped' \subseteq Objects
      BY <1>0, <2>3, <3>1, AliasType, PushType
    <3>. QED  BY <1>0, <2>2, <3>1, <3>2 DEF SizeInv, DataTypeOK
  <2>. QED  BY <2>4, <2>5
<1>11. CASE \E l \in Loops : StopLoop(l)
  BY <1>0, <1>11 DEF StopLoop, SizeInv, DataTypeOK
<1>. QED  BY Zenon, DataSteps, <1>1, <1>2, <1>3, <1>4, <1>5, <1>6, <1>7, <1>8, <1>9, <1>10, <1>11

-----------------------------------------------------------------------------
\* The number of streams

LEMMA CountInductive ==
    ASSUME SubscribeInv, DataTypeOK, [DataNext]_allVars, NEW r \in Requests, CountInv(r)
    PROVE  CountInv(r)'
<1>0. /\ TypeOK /\ (\A x \in Requests : RequestInv(x)) /\ TrackMove(r)
      /\ count \in [Requests -> Nat] /\ doneCount \in [Requests -> Nat] /\ closing[r] \in {"no", "cancelled", "yes"}
  BY TrackMoves, ControlSteps DEF SubscribeInv, DataTypeOK, TypeOK
<1>1. CASE ControlStep
  <2>1. /\ count' = count /\ opening' = opening
        /\ doneCount'[r] = IF closing[r] = "cancelled" /\ closing'[r] = "yes" THEN count[r] ELSE doneCount[r]
    BY <1>1 DEF ControlStep
  <2>. QED  BY <1>0, <2>1 DEF CountInv, TrackMove
<1>2. ASSUME UNCHANGED <<local, closing, localCtx, count, doneCount>>, r \in opening' => r \in opening
      PROVE  CountInv(r)'
  BY <1>2 DEF CountInv
<1>3. CASE \E s \in Requests : OpenSubgroup(s)
  <2>1. PICK s \in Requests : OpenSubgroup(s)
    BY <1>3
  <2>2. UNCHANGED <<local, closing, localCtx, count, doneCount>>
    BY <2>1 DEF OpenSubgroup, vars, pubVars
  <2>3. opening' = opening \cup {s} /\ localCtx[s] = "live"
    BY <2>1 DEF OpenSubgroup, Closed
  <2>. QED  BY <2>2, <2>3 DEF CountInv
<1>4. CASE \E s \in Requests : NewSubgroup(s)
  <2>1. PICK s \in Requests : NewSubgroup(s)
    BY <1>4
  <2>2. UNCHANGED <<local, closing, localCtx, doneCount>>
    BY <2>1 DEF NewSubgroup, vars, pubVars
  <2>3. /\ s \in opening /\ opening' = opening \ {s}
        /\ count' = count \/ count' = [count EXCEPT ![s] = count[s] + 1]
    BY Zenon, <2>1 DEF NewSubgroup
  <2>4. CASE r = s
    BY <1>0, <2>2, <2>3, <2>4 DEF CountInv
  <2>5. CASE r # s
    BY <1>0, <2>2, <2>3, <2>5 DEF CountInv
  <2>. QED  BY <2>4, <2>5
<1>5. \/ ControlStep
      \/ UNCHANGED <<vars, opening, count, doneCount>>
      \/ \E s \in Requests : OpenSubgroup(s) \/ NewSubgroup(s)
  BY Zenon, DataSteps DEF allVars, dataVars, SendDatagram, ReadObject, ReceiveDatagram, WriteObject,
      CloseSubgroup, AcceptUniStream, HandleUniStream, ReadStream, StopLoop
<1>6. CASE UNCHANGED <<vars, opening, count, doneCount>>
  BY <1>2, <1>6 DEF vars, pubVars
<1>. QED  BY <1>1, <1>3, <1>4, <1>5, <1>6

LEMMA CountIsClose ==
    ASSUME DataTypeOK, \A r \in Requests : CountInv(r)
    PROVE  StreamCountIsClose
<1> SUFFICES ASSUME NEW r \in Requests, local[r] = "closed"
             PROVE  doneCount[r] <= count[r] /\ count[r] <= doneCount[r] + 1
  BY DEF StreamCountIsClose
<1>1. count[r] \in Nat /\ doneCount[r] \in Nat
  BY DEF DataTypeOK
<1>. QED  BY <1>1 DEF CountInv

-----------------------------------------------------------------------------
\* Delivery implements Subscribe, and its invariant holds

DataInv == SizeInv /\ OrderInv /\ LossInv /\ AliasInv /\ TrackInv /\ \A r \in Requests : CountInv(r)

LEMMA DataInitially == DataInit => DataInv
<1> SUFFICES ASSUME DataInit PROVE DataInv
  OBVIOUS
<1>1. Len(streams) = 0 /\ Len(published) = 0 /\ Cardinality(opening) = 0
  BY FS_EmptySet DEF DataInit
<1>2. SizeInv
  <2>1. DataTypeOK
    BY DeliveryAssumption DEF DataInit, DataTypeOK
  <2>. QED  BY <1>1, <2>1, DeliveryAssumption DEF SizeInv
<1>3. \A r \in Requests : Received(r) = <<>>
  BY DEF DataInit, Received
<1>4. OrderInv
  <2>1. \A P : Within(<<>>, P) /\ Ordered(<<>>, P)
    BY DEF Within, Ordered
  <2>2. 1..0 = {} /\ dgrams = {}
    BY DEF DataInit
  <2>. QED  BY Zenon, <1>1, <1>3, <2>1, <2>2 DEF OrderInv, ReceivedInv
<1>5. LossInv
  BY <1>1 DEF LossInv, OnlyOverflowDrops
<1>6. \A r \in Requests : CountInv(r)
  BY DEF DataInit, Init, CountInv
<1>7. AliasInv
  BY DEF DataInit, Init, AliasInv
<1>8. TrackInv
  BY DEF DataInit, TrackInv
<1>. QED  BY <1>2, <1>4, <1>5, <1>6, <1>7, <1>8 DEF DataInv

\* Objects, streams and datagrams do not touch the control plane: every
\* execution of Delivery is one of Subscribe, so the theorems on subscriptions
\* hold with data under way.
THEOREM DeliveryImplementsSubscribe == DataSpec => Spec
<1>1. DataInit => Init
  BY DEF DataInit
<1>. QED  BY <1>1, ControlSteps, PTL DEF DataSpec, Spec

\* Accepted tracks stay, with their alias.
LEMMA AcceptedStays ==
    ASSUME SubscribeInv, [DataNext]_allVars
    PROVE  Steady
<1>1. TypeOK /\ (\A x \in Requests : RequestInv(x)) /\ [Next]_vars
  BY ControlSteps DEF SubscribeInv
<1> SUFFICES ASSUME NEW r \in Requests, local[r] \in {"open", "closed"}
             PROVE  local'[r] \in {"open", "closed"} /\ localAlias'[r] = localAlias[r]
  BY Zenon DEF Steady, Accepted
<1>2. local[r] # "none" /\ local[r] \in AcceptedStates
  BY DEF AcceptedStates
<1>. QED  BY <1>1, <1>2, AliasStays DEF AcceptedStates

LEMMA DataInvariance == DataSpec => []DataInv
<1>1. SubscribeInv /\ DataInv /\ [DataNext]_allVars => DataInv'
  <2> SUFFICES ASSUME SubscribeInv, DataInv, [DataNext]_allVars PROVE DataInv'
    OBVIOUS
  <2>1. /\ TypeOK /\ SizeInv /\ TypeInv /\ DataTypeOK /\ OrderInv /\ LossInv /\ AliasInv /\ TrackInv
        /\ \A r \in Requests : RequestInv(r) /\ CountInv(r)
    BY SizeIsType DEF SubscribeInv, DataInv, SizeInv
  <2>2. SizeInv'
    BY <2>1, DataTypeInductive
  <2>3. OrderInv'
    BY <2>1, <2>2, OrderInductive DEF SizeInv
  <2>4. LossInv'
    BY <2>1, LossInductive
  <2>5. \A r \in Requests : CountInv(r)'
    BY <2>1, CountInductive
  <2>6. AliasInv'
    BY <2>1, ControlSteps, AliasInductive
  <2>7. TrackInv'
    BY <2>1, AcceptedStays, TrackInductive
  <2>. QED  BY <2>2, <2>3, <2>4, <2>5, <2>6, <2>7 DEF DataInv
<1>. QED  BY <1>1, DataInitially, DeliveryImplementsSubscribe, InvIsInvariant, PTL DEF DataSpec

\* Buffers never exceed their capacity, and everything else has its type.
THEOREM DataTyping == DataSpec => []DataTypeOK
<1>1. DataInv => DataTypeOK
  BY DEF DataInv, SizeInv
<1>. QED  BY <1>1, DataInvariance, PTL

\* RemoteTrack.readStream, push and ReadObject keep the order of a stream: what
\* the reader of a track gets of it is in the order it was written, without
\* repetition, for any number of streams, tracks and datagrams.
THEOREM StreamsStayOrdered == DataSpec => []StreamOrder
<1>1. DataInv => StreamOrder
  BY OrderIsStreamOrder DEF DataInv
<1>. QED  BY <1>1, DataInvariance, PTL

\* Between the goroutine that reads a stream and ReadObject an object is lost
\* only by push on a full buffer or by a read after SUBSCRIBE_DONE.
THEOREM LossIsOverflow == DataSpec => []OnlyOverflowDrops
<1>1. DataInv => OnlyOverflowDrops
  BY DEF DataInv, LossInv
<1>. QED  BY <1>1, DataInvariance, PTL

\* However openSubgroup and CloseWithError are interleaved, the StreamCount of
\* SUBSCRIBE_DONE is at most one short of the streams the track counted.
THEOREM CountRace == DataSpec => []StreamCountIsClose
<1>1. DataInv => StreamCountIsClose
  BY CountIsClose DEF DataInv, SizeInv
<1>. QED  BY <1>1, DataInvariance, PTL

-----------------------------------------------------------------------------
\* Routing

\* An alias that leads somewhere is 0, and leads to the track that has it.
LEMMA AliasesRoute ==
    ASSUME AliasInv, RouteInv
    PROVE  Routed
<1> SUFFICES ASSUME NEW r \in Requests, Accepted(r), NEW q \in FindByTrackAlias(localAlias[r]) PROVE q = r
  BY DEF Routed
<1>1. localAlias[r] \in DOMAIN aliasTo /\ aliasTo[localAlias[r]] = q
  BY DEF FindByTrackAlias
<1>2. localAlias[r] = 0
  BY Zenon, <1>1 DEF AliasInv
<1>3. Leads(r)
  BY <1>2 DEF RouteInv, FirstInv, Accepted, AcceptedStates
<1>. QED  BY <1>1, <1>2, <1>3 DEF Leads

\* Where handlers answer before they return, no object reaches the reader of
\* another track: the aliases of onSubscribe, which SUBSCRIBE_OK does not carry,
\* and those that onSubscribeOk installs agree wherever they lead to a track.
THEOREM RoutedToItsTrack == DataSpec /\ []Synchronous => []NoMisrouting
<1>1. DataInit => RouteInv /\ TargetInv
  <2> SUFFICES ASSUME DataInit PROVE RouteInv /\ TargetInv
    OBVIOUS
  <2>1. RouteInv
    BY DEF DataInit, Init, RouteInv, FirstInv, AcceptedStates
  <2>2. \A r \in Requests : Received(r) = <<>>
    BY DEF DataInit, Received
  <2>3. TargetInv
    BY <2>2 DEF DataInit, TargetInv, NoMisrouting
  <2>. QED  BY <2>1, <2>3
<1>2. /\ SubscribeInv /\ DataInv /\ DataInv' /\ Synchronous /\ Synchronous' /\ RouteInv /\ TargetInv
      /\ [DataNext]_allVars
      => RouteInv' /\ TargetInv'
  <2> SUFFICES ASSUME SubscribeInv, DataInv, DataInv', Synchronous, Synchronous', RouteInv, TargetInv,
                      [DataNext]_allVars
               PROVE  RouteInv' /\ TargetInv'
    OBVIOUS
  <2>1. /\ TypeOK /\ TypeInv /\ OrderInv /\ AliasInv /\ TrackInv
        /\ \A r \in Requests : RequestInv(r)
    BY SizeIsType DEF SubscribeInv, DataInv
  <2>2. DataTypeOK'
    BY DEF DataInv, SizeInv
  <2>3. RouteInv'
    BY <2>1, ControlSteps, RouteInductive
  <2>4. TargetInv'
    BY <2>1, <2>2, AliasesRoute, TargetInductive
  <2>. QED  BY <2>3, <2>4
<1>3. TargetInv => NoMisrouting
  BY DEF TargetInv
<1>. QED  BY <1>1, <1>2, <1>3, DataInvariance, DeliveryImplementsSubscribe, InvIsInvariant, PTL DEF DataSpec

\* Alias 0 leads to a track once a SUBSCRIBE_OK has been processed.
LEMMA FirstReached ==
    ASSUME TypeOK, \A r \in Requests : RequestInv(r), InstalledInv
    PROVE  Reached
<1> SUFFICES ASSUME NEW r \in Requests, Accepted(r), localAlias[r] = 0, ~NotYetKnown(r)
             PROVE  FindByTrackAlias(0) # {}
  BY DEF Reached
<1>1. /\ remote[r] \in {"pending", "open"} /\ reader["subscriber"] = "reading"
      /\ ~\E k \in 1..Len(toSub) : toSub[k].type = "SUBSCRIBE_OK" /\ toSub[k].id = r
  BY DEF NotYetKnown, TypeOK
<1>2. remote[r] # "pending"
  <2>1. ~Has(toSub, {"SUBSCRIBE_OK"}, r)
    BY <1>1 DEF Has, Is
  <2>2. StreamInv(r)
    BY DEF RequestInv
  <2>. QED  BY <2>1, <2>2 DEF StreamInv, Accepted, AcceptedStates
<1>3. 0 \in DOMAIN aliasTo
  BY <1>1, <1>2 DEF InstalledInv
<1>4. aliasTo[0] \in Requests /\ remote[aliasTo[0]] = "open"
  BY <1>3 DEF InstalledInv, TypeOK
<1>. QED  BY <1>3, <1>4 DEF FindByTrackAlias

\* For any number of subscriptions, readSubgroupStream ignores a stream, and
\* receiveDatagram ends its loop on an unknown alias, only if the stream or the
\* datagram overtook SUBSCRIBE_OK, the subscription was given up, the control
\* reader died or the alias is one that no SUBSCRIBE_OK carries, whatever is
\* lost, delayed or reordered.
THEOREM UnknownHasReason == DataSpec => UnknownOnlyWithReason
<1> DEFINE Reason ==
      /\ \A i \in 1..Len(streams) :
            streams'[i].state = "ignored" =>
               streams[i].state = "ignored" \/ streams[i].alias # 0 \/ NotYetKnown(streams[i].track)
      /\ loop'["datagrams"] = "errUnknownTrackAlias" /\ loop["datagrams"] = "running" =>
            \A d \in dgrams \ dgrams' : d.alias # 0 \/ NotYetKnown(published[d.obj].track)
<1>1. DataInit => InstalledInv
  BY DEF DataInit, Init, InstalledInv
<1>2. SubscribeInv /\ DataInv /\ InstalledInv /\ [DataNext]_allVars => InstalledInv' /\ Reason
  <2> SUFFICES ASSUME SubscribeInv, DataInv, InstalledInv, [DataNext]_allVars PROVE InstalledInv' /\ Reason
    OBVIOUS
  <2>1. /\ TypeOK /\ TypeInv /\ OrderInv /\ AliasInv /\ TrackInv
        /\ \A r \in Requests : RequestInv(r)
    BY SizeIsType DEF SubscribeInv, DataInv
  <2>2. InstalledInv'
    BY Zenon, <2>1, ControlSteps, InstalledInductive
  <2>3. Reached
    BY Zenon, <2>1, FirstReached
  <2>4. Reason
    BY <2>1, <2>3, UnknownStep
  <2>. QED  BY <2>2, <2>4
<1>3. Reason => [Reason]_allVars
  OBVIOUS
<1> HIDE DEF Reason
<1>4. DataSpec => [][Reason]_allVars
  BY <1>1, <1>2, <1>3, DataInvariance, DeliveryImplementsSubscribe, InvIsInvariant, PTL DEF DataSpec
<1>. QED  BY <1>4 DEF UnknownOnlyWithReason, Reason
=============================================================================
