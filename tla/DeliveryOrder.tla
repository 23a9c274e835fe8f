---------------------------- MODULE DeliveryOrder ----------------------------
(***************************************************************************)
(* What streams hold and tracks receive in Delivery: the objects of a      *)
(* stream stay in order, are lost only to a full buffer, and reach the     *)
(* track their alias led to, for any finite set of requests and any bounds.*)
(***************************************************************************)
EXTENDS Delivery, SequenceTheorems, TLAPS

\* The number of streams is bounded.
TypeInv == DataTypeOK /\ Len(streams) <= MaxStreams

\* The object numbers q holds: all published in P, all of stream i, rising; those
\* of one stream in order; those of stream i less than the ones s holds.
Within(q, P) == \A k \in 1..Len(q) : q[k] \in 1..Len(P)
From(q, i, P) == \A k \in 1..Len(q) : P[q[k]].stream = i
Rising(q) == \A j, k \in 1..Len(q) : j < k => q[j] < q[k]
Ordered(q, P) == \A j, k \in 1..Len(q) :
    j < k /\ P[q[j]].stream = P[q[k]].stream /\ P[q[j]].stream # 0 => q[j] < q[k]
Behind(q, s, i, P) == \A k \in 1..Len(q), l \in 1..Len(s) : P[q[k]].stream = i => q[k] < s[l]

\* The objects of a stream that are under way and those that have been received
\* are in the order they were written, the latter first.
SentInv(i) ==
    /\ Within(streams[i].sent, published) /\ From(streams[i].sent, i, published) /\ Rising(streams[i].sent)
ReceivedInv(r) == Within(Received(r), published) /\ Ordered(Received(r), published)
BehindInv(r, i) == Behind(Received(r), streams[i].sent, i, published)
OrderInv ==
    /\ \A n \in 1..Len(published) : published[n].stream <= Len(streams)
    /\ \A i \in 1..Len(streams) : SentInv(i)
    /\ \A r \in Requests : ReceivedInv(r)
    /\ \A r \in Requests, i \in 1..Len(streams) : BehindInv(r, i)
    /\ \A d \in dgrams : d.obj \in 1..Len(published) /\ published[d.obj].stream = 0

\* A stream leads to no track before its header is parsed.
UnparsedInv(i) == streams[i].state \in {"opened", "accepted"} => streams[i].to = {}
LossInv == (\A i \in 1..Len(streams) : UnparsedInv(i)) /\ OnlyOverflowDrops

-----------------------------------------------------------------------------
\* Sequences

LEMMA Extended ==
    ASSUME NEW S, NEW q \in Seq(S), NEW x \in S
    PROVE  /\ Append(q, x) \in Seq(S)
           /\ Len(q) \in Nat /\ Len(Append(q, x)) = Len(q) + 1
           /\ \A i \in 1..Len(q) : Append(q, x)[i] = q[i]
           /\ Append(q, x)[Len(q) + 1] = x
BY AppendProperties, LenProperties

LEMMA Shortened ==
    ASSUME NEW S, NEW q \in Seq(S), q # <<>>
    PROVE  /\ Tail(q) \in Seq(S) /\ Head(q) \in S /\ Head(q) = q[1]
           /\ Len(q) \in Nat \ {0} /\ Len(Tail(q)) = Len(q) - 1
           /\ \A i \in 1..Len(Tail(q)) : i + 1 \in 1..Len(q) /\ Tail(q)[i] = q[i + 1]
<1>1. /\ Tail(q) \in Seq(S) /\ Head(q) \in S /\ Head(q) = q[1]
      /\ Len(q) \in Nat \ {0} /\ Len(Tail(q)) = Len(q) - 1
  BY HeadTailProperties, LenProperties, EmptySeq
<1>2. \A i \in 1..Len(Tail(q)) : i + 1 \in 1..Len(q) /\ Tail(q)[i] = q[i + 1]
  BY <1>1, HeadTailProperties
<1>. QED  BY <1>1, <1>2

LEMMA Joined ==
    ASSUME NEW S, NEW p \in Seq(S), NEW q \in Seq(S)
    PROVE  /\ p \o q \in Seq(S) /\ Len(p) \in Nat /\ Len(q) \in Nat /\ Len(p \o q) = Len(p) + Len(q)
           /\ \A k \in 1..Len(p) : (p \o q)[k] = p[k]
           /\ \A k \in 1..Len(q) : (p \o q)[Len(p) + k] = q[k]
<1>1. p \o q \in Seq(S) /\ Len(p) \in Nat /\ Len(q) \in Nat /\ Len(p \o q) = Len(p) + Len(q)
  BY ConcatProperties, LenProperties
<1>2. \A k \in 1..Len(p) + Len(q) : (p \o q)[k] = IF k <= Len(p) THEN p[k] ELSE q[k - Len(p)]
  BY ConcatProperties
<1>3. ASSUME NEW k \in 1..Len(p) PROVE (p \o q)[k] = p[k]
  BY <1>1, <1>2
<1>4. ASSUME NEW k \in 1..Len(q) PROVE (p \o q)[Len(p) + k] = q[k]
  <2>1. Len(p) + k \in 1..Len(p) + Len(q) /\ ~(Len(p) + k <= Len(p)) /\ (Len(p) + k) - Len(p) = k
    BY <1>1
  <2>. QED  BY <1>2, <2>1
<1>. QED  BY <1>1, <1>3, <1>4

\* What a track has received after an object is put into its buffer, and after
\* ReadObject takes one from it.
Lengthens(p, q, b, x) == b = Append(q, x) => p \o b = Append(p \o q, x)

LEMMA JoinedAppend ==
    ASSUME NEW S, NEW p \in Seq(S), NEW q \in Seq(S), NEW b, NEW x \in S
    PROVE  Lengthens(p, q, b, x)
<1>1. ASSUME b = Append(q, x) PROVE p \o b = Append(p \o q, x)
  BY <1>1, ConcatAssociative, AppendIsConcat, Joined, Extended
<1>. QED  BY <1>1 DEF Lengthens

LEMMA JoinedMove ==
    ASSUME NEW S, NEW p \in Seq(S), NEW q \in Seq(S), q # <<>>
    PROVE  Append(p, Head(q)) \o Tail(q) = p \o q
<1>1. Head(q) \in S /\ Tail(q) \in Seq(S) /\ <<Head(q)>> \in Seq(S)
  BY HeadTailProperties
<1>2. q = <<Head(q)>> \o Tail(q)
  BY HeadTailProperties
<1>3. Append(p, Head(q)) = p \o <<Head(q)>>
  BY <1>1, AppendIsConcat
<1>. QED  BY <1>1, <1>2, <1>3, ConcatAssociative

LEMMA JoinedDrop ==
    ASSUME NEW S, NEW p \in Seq(S), NEW q \in Seq(S), q # <<>>, NEW k \in 1..Len(p \o Tail(q))
    PROVE  LET l == IF k <= Len(p) THEN k ELSE k + 1
           IN  l \in 1..Len(p \o q) /\ (p \o Tail(q))[k] = (p \o q)[l]
<1>1. /\ Tail(q) \in Seq(S) /\ Len(q) \in Nat \ {0} /\ Len(Tail(q)) = Len(q) - 1 /\ Len(p) \in Nat
      /\ \A i \in 1..Len(Tail(q)) : i + 1 \in 1..Len(q) /\ Tail(q)[i] = q[i + 1]
  BY Shortened, LenProperties
<1>2. Len(p \o q) = Len(p) + Len(q) /\ Len(p \o Tail(q)) = Len(p) + Len(q) - 1
  BY <1>1, Joined
<1>3. CASE k <= Len(p)
  <2>1. (p \o Tail(q))[k] = p[k] /\ (p \o q)[k] = p[k]
    BY <1>1, <1>3, Joined
  <2>. QED  BY <1>1, <1>2, <1>3, <2>1
<1>4. CASE ~(k <= Len(p))
  <2> DEFINE i == k - Len(p)
  <2>1. i \in 1..Len(Tail(q)) /\ i + 1 \in 1..Len(q) /\ Len(p) + i = k /\ Len(p) + (i + 1) = k + 1
    BY <1>1, <1>2, <1>4
  <2>2. (p \o Tail(q))[k] = Tail(q)[i] /\ (p \o q)[k + 1] = q[i + 1]
    BY <1>1, <2>1, Joined
  <2>. QED  BY <1>1, <1>2, <1>4, <2>1, <2>2
<1>. QED  BY <1>3, <1>4

-----------------------------------------------------------------------------
\* Types

\* A change of one field of one stream.
LEMMA StreamChange ==
    ASSUME NEW q \in Seq(Stream), NEW i \in 1..Len(q), NEW s \in Stream, NEW p, p = [q EXCEPT ![i] = s]
    PROVE  p \in Seq(Stream) /\ Len(p) = Len(q) /\ p[i] = s /\ \A j \in 1..Len(q) : j # i => p[j] = q[j]
BY ExceptSeq

\* Of the streams, step A changes stream i only, and of that stream only the
\* objects it holds, its state and its end.
Changes(i) ==
    /\ streams' \in Seq(Stream) /\ Len(streams') = Len(streams)
    /\ \A j \in 1..Len(streams) : j # i => streams'[j] = streams[j]
    /\ streams'[i].track = streams[i].track /\ streams'[i].alias = streams[i].alias

LEMMA SentChange ==
    ASSUME streams \in Seq(Stream), NEW i \in 1..Len(streams), NEW q \in Seq(Objects),
           streams' = [streams EXCEPT ![i].sent = q]
    PROVE  /\ Changes(i) /\ streams'[i].sent = q /\ streams'[i].fin = streams[i].fin
           /\ streams'[i].state = streams[i].state /\ streams'[i].to = streams[i].to
<1> DEFINE s == [streams[i] EXCEPT !.sent = q]
<1>1. streams[i] \in Stream
  BY ElementOfSeq
<1>2. /\ s \in Stream /\ s.sent = q /\ s.fin = streams[i].fin /\ s.state = streams[i].state /\ s.to = streams[i].to
      /\ s.track = streams[i].track /\ s.alias = streams[i].alias
  BY Zenon, <1>1 DEF Stream
<1>3. streams' = [streams EXCEPT ![i] = s]
  OBVIOUS
<1>. QED  BY <1>2, <1>3, StreamChange DEF Changes

LEMMA FinChange ==
    ASSUME streams \in Seq(Stream), NEW i \in 1..Len(streams), NEW f \in BOOLEAN,
           streams' = [streams EXCEPT ![i].fin = f]
    PROVE  /\ Changes(i) /\ streams'[i].sent = streams[i].sent
           /\ streams'[i].state = streams[i].state /\ streams'[i].to = streams[i].to
<1> DEFINE s == [streams[i] EXCEPT !.fin = f]
<1>1. streams[i] \in Stream
  BY ElementOfSeq
<1>2. /\ s \in Stream /\ s.sent = streams[i].sent /\ s.state = streams[i].state /\ s.to = streams[i].to
      /\ s.track = streams[i].track /\ s.alias = streams[i].alias
  BY Zenon, <1>1 DEF Stream
<1>3. streams' = [streams EXCEPT ![i] = s]
  OBVIOUS
<1>. QED  BY <1>2, <1>3, StreamChange DEF Changes

LEMMA StateChange ==
    ASSUME streams \in Seq(Stream), NEW i \in 1..Len(streams),
           NEW st \in {"opened", "accepted", "read", "ignored", "eof"},
           streams' = [streams EXCEPT ![i].state = st]
    PROVE  /\ Changes(i) /\ streams'[i].sent = streams[i].sent
           /\ streams'[i].state = st /\ streams'[i].to = streams[i].to
<1> DEFINE s == [streams[i] EXCEPT !.state = st]
<1>1. streams[i] \in Stream
  BY ElementOfSeq
<1>2. /\ s \in Stream /\ s.sent = streams[i].sent /\ s.state = st /\ s.to = streams[i].to
      /\ s.track = streams[i].track /\ s.alias = streams[i].alias
  BY Zenon, <1>1 DEF Stream
<1>3. streams' = [streams EXCEPT ![i] = s]
  OBVIOUS
<1>. QED  BY <1>2, <1>3, StreamChange DEF Changes

Retargets(p, q, i, T) ==
    /\ p \in Seq(Stream) /\ Len(p) = Len(q) /\ \A j \in 1..Len(q) : j # i => p[j] = q[j]
    /\ p[i].sent = q[i].sent /\ p[i].state = q[i].state /\ p[i].to = T
    /\ p[i].track = q[i].track /\ p[i].alias = q[i].alias

LEMMA TargetField ==
    ASSUME NEW q \in Seq(Stream), NEW i \in 1..Len(q), NEW T \in SUBSET Requests,
           NEW p, p = [q EXCEPT ![i].to = T]
    PROVE  Retargets(p, q, i, T)
<1> DEFINE t == [q[i] EXCEPT !.to = T]
<1>1. q[i] \in Stream
  BY ElementOfSeq
<1>2. /\ t \in Stream /\ t.sent = q[i].sent /\ t.state = q[i].state /\ t.to = T
      /\ t.track = q[i].track /\ t.alias = q[i].alias
  BY Zenon, <1>1 DEF Stream
<1>3. p = [q EXCEPT ![i] = t]
  OBVIOUS
<1>. QED  BY <1>2, <1>3, StreamChange DEF Retargets

LEMMA TargetChange ==
    ASSUME streams \in Seq(Stream), NEW i \in 1..Len(streams), NEW T \in SUBSET Requests,
           NEW st \in {"opened", "accepted", "read", "ignored", "eof"},
           NEW q, q = [streams EXCEPT ![i].state = st], streams' = [q EXCEPT ![i].to = T]
    PROVE  /\ Changes(i) /\ streams'[i].sent = streams[i].sent
           /\ streams'[i].state = st /\ streams'[i].to = T
<1> DEFINE s == [streams[i] EXCEPT !.state = st]
<1>1. streams[i] \in Stream
  BY ElementOfSeq
<1>2. /\ s \in Stream /\ s.sent = streams[i].sent /\ s.state = st
      /\ s.track = streams[i].track /\ s.alias = streams[i].alias
  BY Zenon, <1>1 DEF Stream
<1>3. q = [streams EXCEPT ![i] = s]
  OBVIOUS
<1>4. q \in Seq(Stream) /\ Len(q) = Len(streams) /\ q[i] = s /\ \A j \in 1..Len(streams) : j # i => q[j] = streams[j]
  BY <1>2, <1>3, StreamChange
<1> HIDE DEF s
<1>5. q \in Seq(Stream) /\ i \in 1..Len(q)
  BY <1>4
<1>6. Retargets(streams', q, i, T)
  BY Zenon, <1>5, TargetField
<1>. QED  BY <1>2, <1>4, <1>6 DEF Changes, Retargets

LEMMA FunctionChange ==
    ASSUME NEW D, NEW T, NEW f \in [D -> T], NEW x \in D, NEW y \in T, NEW g, g = [f EXCEPT ![x] = y]
    PROVE  g \in [D -> T]
OBVIOUS

\* push keeps to the capacity of the buffer.
LEMMA PushType ==
    ASSUME DataTypeOK, NEW r \in Requests, NEW obj \in Objects, Push(r, obj)
    PROVE  /\ buffer' \in [Requests -> Seq(Objects)] /\ \A q \in Requests : Len(buffer'[q]) <= BufferCap
           /\ dropped' \subseteq Objects
<1>1. /\ buffer \in [Requests -> Seq(Objects)] /\ (\A q \in Requests : Len(buffer[q]) <= BufferCap)
      /\ dropped \subseteq Objects
  BY DEF DataTypeOK
<1>2. CASE Len(buffer[r]) < BufferCap
  <2>1. buffer' = [buffer EXCEPT ![r] = Append(buffer[r], obj)] /\ dropped' = dropped
    BY <1>2 DEF Push
  <2>2. /\ Append(buffer[r], obj) \in Seq(Objects) /\ Len(Append(buffer[r], obj)) = Len(buffer[r]) + 1
        /\ Len(buffer[r]) \in Nat
    BY <1>1, Extended
  <2>3. Len(buffer[r]) + 1 <= BufferCap
    BY <1>2, <2>2, DeliveryAssumption
  <2>. QED  BY <1>1, <2>1, <2>2, <2>3
<1>3. CASE ~(Len(buffer[r]) < BufferCap)
  BY <1>1, <1>3 DEF Push
<1>. QED  BY <1>2, <1>3

\* A new object has the next number.
LEMMA PublishType ==
    ASSUME DataTypeOK, NEW r \in Requests, NEW i \in 0..MaxStreams, Publish(r, i)
    PROVE  /\ published' \in Seq([track : Requests, stream : 0..MaxStreams])
           /\ Len(published) \in Nat /\ Len(published') = Len(published) + 1
           /\ Len(published) + 1 \in Objects
           /\ \A n \in 1..Len(published) : published'[n] = published[n]
           /\ published'[Len(published) + 1] = [track |-> r, stream |-> i]
<1>1. published \in Seq([track : Requests, stream : 0..MaxStreams]) /\ Len(published) < MaxObjects
  BY DEF DataTypeOK, Publish
<1>2. published' = Append(published, [track |-> r, stream |-> i])
  BY DEF Publish
<1>3. [track |-> r, stream |-> i] \in [track : Requests, stream : 0..MaxStreams]
  OBVIOUS
<1>4. Len(published) \in Nat
  BY <1>1, LenProperties
<1>. QED  BY <1>1, <1>2, <1>3, <1>4, Extended, DeliveryAssumption DEF Objects

LEMMA AliasType ==
    ASSUME NEW a
    PROVE  FindByTrackAlias(a) \subseteq Requests
BY DEF FindByTrackAlias

\* The steps of the control streams and their readers are those of Subscribe.
LEMMA ControlSteps == [DataNext]_allVars => [Next]_vars
BY Zenon DEF allVars, DataNext, ControlStep, SendDatagram, OpenSubgroup, NewSubgroup, ReadObject, WriteObject,
    CloseSubgroup, Receives, AcceptUniStream, HandleUniStream, ReadStream, ReceiveDatagram, StopLoop

\* The kinds of data steps.
LEMMA DataSteps ==
    ASSUME [DataNext]_allVars
    PROVE  \/ UNCHANGED allVars
           \/ ControlStep
           \/ \E r \in Requests : SendDatagram(r)
           \/ \E r \in Requests : OpenSubgroup(r)
           \/ \E r \in Requests : NewSubgroup(r)
           \/ \E r \in Requests : ReadObject(r)
           \/ \E i \in 1..Len(streams) : WriteObject(i)
           \/ \E i \in 1..Len(streams) : CloseSubgroup(i)
           \/ \E i \in 1..Len(streams) : AcceptUniStream(i)
           \/ \E i \in 1..Len(streams) : HandleUniStream(i)
           \/ \E i \in 1..Len(streams) : ReadStream(i)
           \/ \E d \in dgrams : ReceiveDatagram(d)
           \/ \E l \in Loops : StopLoop(l)
BY Zenon DEF DataNext, Receives

\* What the steps of a stream do to it.
LEMMA StreamType ==
    ASSUME DataTypeOK, NEW i \in 1..Len(streams)
    PROVE  /\ streams \in Seq(Stream) /\ Len(streams) \in Nat /\ streams[i] \in Stream
           /\ streams[i].track \in Requests /\ streams[i].alias \in Nat /\ streams[i].sent \in Seq(Objects)
           /\ streams[i].to \subseteq Requests
<1>1. streams \in Seq(Stream) /\ Len(streams) \in Nat /\ streams[i] \in Stream
  BY ElementOfSeq, LenProperties DEF DataTypeOK
<1>. QED  BY <1>1 DEF Stream

LEMMA WriteEffect ==
    ASSUME TypeInv, NEW i \in 1..Len(streams), WriteObject(i)
    PROVE  /\ Changes(i) /\ streams'[i].sent = Append(streams[i].sent, Len(published) + 1)
           /\ streams'[i].state = streams[i].state /\ streams'[i].to = streams[i].to
           /\ i \in 0..MaxStreams /\ Publish(streams[i].track, i) /\ Len(published) + 1 \in Objects
<1>1. i \in 0..MaxStreams
  BY StreamType, DeliveryAssumption DEF TypeInv
<1>2. Publish(streams[i].track, i) /\ streams' = [streams EXCEPT ![i].sent = Append(streams[i].sent, Len(published) + 1)]
  BY DEF WriteObject
<1>3. Len(published) + 1 \in Objects
  BY Zenon, <1>1, <1>2, StreamType, PublishType DEF TypeInv
<1>4. streams \in Seq(Stream) /\ Append(streams[i].sent, Len(published) + 1) \in Seq(Objects)
  BY Zenon, <1>3, StreamType, Extended DEF TypeInv
<1>. QED  BY Zenon, <1>1, <1>2, <1>3, <1>4, SentChange

LEMMA CloseEffect ==
    ASSUME DataTypeOK, NEW i \in 1..Len(streams), CloseSubgroup(i)
    PROVE  /\ Changes(i) /\ streams'[i].sent = streams[i].sent
           /\ streams'[i].state = streams[i].state /\ streams'[i].to = streams[i].to
BY Zenon, StreamType, FinChange DEF CloseSubgroup

LEMMA AcceptEffect ==
    ASSUME DataTypeOK, NEW i \in 1..Len(streams), AcceptUniStream(i)
    PROVE  /\ Changes(i) /\ streams'[i].sent = streams[i].sent
           /\ streams[i].state = "opened" /\ streams'[i].state = "accepted" /\ streams'[i].to = streams[i].to
BY Zenon, StreamType, StateChange DEF AcceptUniStream

LEMMA HandleEffect ==
    ASSUME DataTypeOK, NEW i \in 1..Len(streams), HandleUniStream(i)
    PROVE  /\ Changes(i) /\ streams'[i].sent = streams[i].sent /\ streams[i].state = "accepted"
           /\ streams'[i].to = FindByTrackAlias(streams[i].alias)
           /\ streams'[i].state = IF FindByTrackAlias(streams[i].alias) = {} THEN "ignored" ELSE "read"
<1> DEFINE T == FindByTrackAlias(streams[i].alias)
           st == IF T = {} THEN "ignored" ELSE "read"
           q == [streams EXCEPT ![i].state = st]
<1>1. streams[i].state = "accepted" /\ streams' = [streams EXCEPT ![i].state = st, ![i].to = T]
  BY Zenon DEF HandleUniStream
<1>2. T \in SUBSET Requests /\ st \in {"opened", "accepted", "read", "ignored", "eof"}
  BY AliasType
<1>3. streams \in Seq(Stream)
  BY StreamType
<1> HIDE DEF T, st
<1>4. streams' = [q EXCEPT ![i].to = T]
  BY Zenon, <1>1
<1>5. Changes(i) /\ streams'[i].sent = streams[i].sent /\ streams'[i].state = st /\ streams'[i].to = T
  BY Zenon, <1>2, <1>3, <1>4, TargetChange
<1>. QED  BY Zenon, <1>1, <1>5 DEF T, st

LEMMA ReadEffect ==
    ASSUME DataTypeOK, NEW i \in 1..Len(streams), ReadStream(i)
    PROVE  /\ Changes(i) /\ streams'[i].to = streams[i].to /\ streams[i].state = "read"
           /\ \/ /\ streams[i].sent # <<>> /\ streams'[i].sent = Tail(streams[i].sent)
                 /\ streams'[i].state = "read"
                 /\ \E r \in streams[i].to : Push(r, Head(streams[i].sent))
              \/ /\ streams'[i].sent = streams[i].sent /\ streams'[i].state = "eof"
                 /\ UNCHANGED <<buffer, dropped>>
<1>1. streams[i].state = "read" /\ streams \in Seq(Stream) /\ streams[i].sent \in Seq(Objects)
  BY StreamType DEF ReadStream
<1>2. CASE streams[i].sent # <<>>
  <2>1. /\ streams' = [streams EXCEPT ![i].sent = Tail(streams[i].sent)]
        /\ \E r \in streams[i].to : Push(r, Head(streams[i].sent))
    BY Zenon, <1>2 DEF ReadStream
  <2>2. Tail(streams[i].sent) \in Seq(Objects)
    BY <1>1, <1>2, Shortened
  <2>. QED  BY Zenon, <1>1, <1>2, <2>1, <2>2, SentChange
<1>3. CASE ~(streams[i].sent # <<>>)
  <2>1. streams' = [streams EXCEPT ![i].state = "eof"] /\ UNCHANGED <<buffer, dropped>>
    BY Zenon, <1>3 DEF ReadStream
  <2>. QED  BY Zenon, <1>1, <2>1, StateChange
<1>. QED  BY <1>2, <1>3

NewStream(r) == [track |-> r, alias |-> localAlias[r], sent |-> <<>>, fin |-> FALSE, state |-> "opened", to |-> {}]

LEMMA NewEffect ==
    ASSUME TypeOK, DataTypeOK, NEW r \in Requests, NewSubgroup(r)
    PROVE  /\ streams' \in Seq(Stream) /\ Len(streams) \in Nat
           /\ \/ streams' = streams
              \/ /\ Len(streams') = Len(streams) + 1 /\ streams'[Len(streams) + 1] = NewStream(r)
                 /\ \A j \in 1..Len(streams) : streams'[j] = streams[j]
<1>1. streams' = streams \/ streams' = Append(streams, NewStream(r))
  BY Zenon DEF NewSubgroup, NewStream
<1>2. streams \in Seq(Stream) /\ NewStream(r) \in Stream
  BY DEF DataTypeOK, TypeOK, NewStream, Stream
<1>. QED  BY <1>1, <1>2, Extended, LenProperties

-----------------------------------------------------------------------------
\* Order

\* Q holds what P holds, and more.
Extends(P, Q) == Len(P) \in Nat /\ Len(Q) \in Nat /\ Len(P) <= Len(Q) /\ \A n \in 1..Len(P) : Q[n] = P[n]

LEMMA Grown ==
    ASSUME NEW P, NEW Q, Extends(P, Q), NEW q, Within(q, P)
    PROVE  /\ Within(q, Q) /\ (Ordered(q, P) => Ordered(q, Q))
           /\ \A i : From(q, i, P) => From(q, i, Q)
           /\ \A i, s : Behind(q, s, i, P) => Behind(q, s, i, Q)
<1>1. Within(q, Q)
  BY DEF Within, Extends
<1>2. \A k \in 1..Len(q) : Q[q[k]] = P[q[k]]
  BY DEF Within, Extends
<1>3. Ordered(q, P) => Ordered(q, Q)
  BY Zenon, <1>2 DEF Ordered
<1>4. \A i : From(q, i, P) => From(q, i, Q)
  BY Zenon, <1>2 DEF From
<1>5. \A i, s : Behind(q, s, i, P) => Behind(q, s, i, Q)
  BY Zenon, <1>2 DEF Behind
<1>. QED  BY <1>1, <1>3, <1>4, <1>5

\* An object pushed behind those of its stream.
LEMMA PushedOrder ==
    ASSUME NEW P, NEW q \in Seq(Objects), NEW x \in Objects, x \in 1..Len(P), Within(q, P), Ordered(q, P),
           P[x].stream = 0 \/ \A k \in 1..Len(q) : P[q[k]].stream = P[x].stream => q[k] < x
    PROVE  Within(Append(q, x), P) /\ Ordered(Append(q, x), P)
<1> DEFINE a == Append(q, x)
<1>1. /\ Len(q) \in Nat /\ Len(a) = Len(q) + 1
      /\ (\A k \in 1..Len(q) : a[k] = q[k]) /\ a[Len(q) + 1] = x
  BY Extended
<1> HIDE DEF a
<1>2. Within(a, P)
  BY <1>1 DEF Within
<1>3. ASSUME NEW j \in 1..Len(a), NEW k \in 1..Len(a), j < k,
             P[a[j]].stream = P[a[k]].stream, P[a[j]].stream # 0
      PROVE  a[j] < a[k]
  <2>1. j \in 1..Len(q) /\ a[j] = q[j]
    BY <1>1, <1>3
  <2>2. CASE k \in 1..Len(q)
    BY <1>1, <1>3, <2>1, <2>2 DEF Ordered
  <2>3. CASE k = Len(q) + 1
    BY <1>1, <1>3, <2>1, <2>3
  <2>. QED  BY <1>1, <2>2, <2>3
<1>4. Ordered(a, P)
  BY <1>3 DEF Ordered
<1>. QED  BY <1>2, <1>4 DEF a

LEMMA PushedBehind ==
    ASSUME NEW P, NEW q \in Seq(Objects), NEW x \in Objects, NEW s, NEW i, Behind(q, s, i, P),
           P[x].stream = i => \A l \in 1..Len(s) : x < s[l]
    PROVE  Behind(Append(q, x), s, i, P)
<1> DEFINE a == Append(q, x)
<1>1. /\ Len(q) \in Nat /\ Len(a) = Len(q) + 1
      /\ (\A k \in 1..Len(q) : a[k] = q[k]) /\ a[Len(q) + 1] = x
  BY Extended
<1> HIDE DEF a
<1>2. ASSUME NEW k \in 1..Len(a), NEW l \in 1..Len(s), P[a[k]].stream = i
      PROVE  a[k] < s[l]
  <2>1. CASE k \in 1..Len(q)
    BY <1>1, <1>2, <2>1 DEF Behind
  <2>2. CASE k = Len(q) + 1
    BY <1>1, <1>2, <2>2
  <2>. QED  BY <1>1, <2>1, <2>2
<1>. QED  BY <1>2 DEF Behind, a

\* One object taken out of q leaves p.
Thinned(p, q, n) ==
    \A k \in 1..Len(p) : LET l == IF k <= n THEN k ELSE k + 1 IN l \in 1..Len(q) /\ p[k] = q[l]

LEMMA ThinnedOrder ==
    ASSUME NEW P, NEW p, NEW q, NEW n \in Nat, Len(p) \in Nat, Thinned(p, q, n)
    PROVE  /\ Within(q, P) => Within(p, P)
           /\ Ordered(q, P) => Ordered(p, P)
           /\ \A s, i : Behind(q, s, i, P) => Behind(p, s, i, P)
<1> DEFINE f(k) == IF k <= n THEN k ELSE k + 1
<1>1. \A k \in 1..Len(p) : f(k) \in 1..Len(q) /\ p[k] = q[f(k)]
  BY DEF Thinned
<1>2. \A j, k \in 1..Len(p) : j < k => f(j) < f(k)
  OBVIOUS
<1> HIDE DEF f
<1>3. Within(q, P) => Within(p, P)
  BY <1>1 DEF Within
<1>4. Ordered(q, P) => Ordered(p, P)
  BY <1>1, <1>2 DEF Ordered
<1>5. \A s, i : Behind(q, s, i, P) => Behind(p, s, i, P)
  BY <1>1 DEF Behind
<1>. QED  BY <1>3, <1>4, <1>5

\* The first object of a stream is less than the others.
LEMMA TailOrder ==
    ASSUME NEW P, NEW s \in Seq(Objects), s # <<>>, Within(s, P), Rising(s)
    PROVE  /\ Head(s) \in 1..Len(P)
           /\ Within(Tail(s), P) /\ Rising(Tail(s))
           /\ \A l \in 1..Len(Tail(s)) : Head(s) < Tail(s)[l]
           /\ \A i : From(s, i, P) => From(Tail(s), i, P) /\ P[Head(s)].stream = i
<1> DEFINE t == Tail(s)
<1>1. /\ Head(s) = s[1] /\ Len(s) \in Nat \ {0} /\ Len(t) = Len(s) - 1
      /\ \A i \in 1..Len(t) : i + 1 \in 1..Len(s) /\ t[i] = s[i + 1]
  BY Shortened
<1>2. 1 \in 1..Len(s)
  BY <1>1
<1> HIDE DEF t
<1>3. Head(s) \in 1..Len(P) /\ Within(t, P)
  BY <1>1, <1>2 DEF Within
<1>4. Rising(t) /\ \A l \in 1..Len(t) : Head(s) < t[l]
  <2>1. \A j, k \in 1..Len(s) : j < k => s[j] < s[k]
    BY Zenon DEF Rising
  <2>2. ASSUME NEW j \in 1..Len(t), NEW k \in 1..Len(t), j < k PROVE t[j] < t[k]
    <3>1. j + 1 \in 1..Len(s) /\ k + 1 \in 1..Len(s) /\ j + 1 < k + 1
      BY <1>1, <2>2
    <3>. QED  BY Zenon, <1>1, <2>1, <3>1
  <2>3. ASSUME NEW l \in 1..Len(t) PROVE Head(s) < t[l]
    <3>1. l + 1 \in 1..Len(s) /\ 1 < l + 1
      BY <1>1
    <3>. QED  BY Zenon, <1>1, <1>2, <2>1, <3>1
  <2>. QED  BY Zenon, <2>2, <2>3 DEF Rising
<1>5. ASSUME NEW i, From(s, i, P) PROVE From(t, i, P) /\ P[Head(s)].stream = i
  BY <1>1, <1>2, <1>5 DEF From
<1>. QED  BY <1>3, <1>4, <1>5 DEF t

LEMMA TailBehind ==
    ASSUME NEW P, NEW s \in Seq(Objects), s # <<>>, NEW q, NEW i, Behind(q, s, i, P)
    PROVE  Behind(q, Tail(s), i, P) /\ \A k \in 1..Len(q) : P[q[k]].stream = i => q[k] < Head(s)
<1> DEFINE t == Tail(s)
<1>1. /\ Head(s) = s[1] /\ Len(s) \in Nat \ {0} /\ Len(t) = Len(s) - 1
      /\ \A k \in 1..Len(t) : k + 1 \in 1..Len(s) /\ t[k] = s[k + 1]
  BY Shortened
<1>2. 1 \in 1..Len(s)
  BY <1>1
<1> HIDE DEF t
<1>3. Behind(q, t, i, P) /\ \A k \in 1..Len(q) : P[q[k]].stream = i => q[k] < Head(s)
  BY <1>1, <1>2 DEF Behind
<1>. QED  BY <1>3 DEF t

\* The number of a new object is greater than all others.
LEMMA WrittenOrder ==
    ASSUME NEW P, NEW Q, Extends(P, Q), Len(Q) = Len(P) + 1, Len(P) + 1 \in Objects,
           NEW s \in Seq(Objects), NEW i, Q[Len(P) + 1].stream = i,
           Within(s, P), From(s, i, P), Rising(s)
    PROVE  /\ Within(Append(s, Len(P) + 1), Q) /\ From(Append(s, Len(P) + 1), i, Q)
           /\ Rising(Append(s, Len(P) + 1))
           /\ \A q : Within(q, P) /\ Behind(q, s, i, P) => Behind(q, Append(s, Len(P) + 1), i, Q)
<1> DEFINE x == Len(P) + 1
           a == Append(s, x)
<1>1. /\ Len(s) \in Nat /\ Len(a) = Len(s) + 1
      /\ (\A k \in 1..Len(s) : a[k] = s[k]) /\ a[Len(s) + 1] = x
  BY Extended
<1>2. Len(P) \in Nat
  BY DEF Extends
<1>3. Within(s, Q) /\ From(s, i, Q)
  BY Grown
<1> HIDE DEF a
<1>4. Within(a, Q)
  BY <1>1, <1>2, <1>3 DEF Within
<1>5. From(a, i, Q)
  BY <1>1, <1>3 DEF From
<1>6. ASSUME NEW j \in 1..Len(a), NEW k \in 1..Len(a), j < k PROVE a[j] < a[k]
  <2>1. j \in 1..Len(s) /\ a[j] = s[j] /\ s[j] \in 1..Len(P)
    BY <1>1, <1>6 DEF Within
  <2>2. CASE k \in 1..Len(s)
    BY <1>1, <1>6, <2>1, <2>2 DEF Rising
  <2>3. CASE k = Len(s) + 1
    BY <1>1, <1>2, <2>1, <2>3
  <2>. QED  BY <1>1, <2>2, <2>3
<1>7. ASSUME NEW q, Within(q, P), Behind(q, s, i, P) PROVE Behind(q, a, i, Q)
  <2>1. Behind(q, s, i, Q) /\ \A k \in 1..Len(q) : q[k] < x
    BY <1>2, <1>7, Grown DEF Within
  <2>. QED  BY <1>1, <2>1 DEF Behind
<1>. QED  BY <1>4, <1>5, <1>6, <1>7 DEF a, Rising

\* What push and ReadObject do to what the tracks have received.
LEMMA ReceivedType ==
    ASSUME DataTypeOK, NEW r \in Requests
    PROVE  Received(r) \in Seq(Objects) /\ read[r] \in Seq(Objects) /\ buffer[r] \in Seq(Objects)
BY Joined DEF DataTypeOK, Received

LEMMA PushReceives ==
    ASSUME DataTypeOK, NEW r \in Requests, NEW obj \in Objects, Push(r, obj), read' = read
    PROVE  /\ \A q \in Requests : q # r => Received(q)' = Received(q)
           /\ \/ Received(r)' = Append(Received(r), obj) /\ dropped' = dropped
              \/ Received(r)' = Received(r) /\ dropped' = dropped \cup {obj}
<1>1. buffer \in [Requests -> Seq(Objects)]
  BY DEF DataTypeOK
<1>2. CASE Len(buffer[r]) < BufferCap
  <2>1. buffer' = [buffer EXCEPT ![r] = Append(buffer[r], obj)] /\ dropped' = dropped
    BY <1>2 DEF Push
  <2>2. buffer'[r] = Append(buffer[r], obj) /\ \A q \in Requests : q # r => buffer'[q] = buffer[q]
    BY <1>1, <2>1
  <2>3. Received(r)' = Append(Received(r), obj)
    <3>1. read[r] \in Seq(Objects) /\ buffer[r] \in Seq(Objects)
      BY ReceivedType
    <3>2. Received(r)' = read[r] \o buffer'[r] /\ Received(r) = read[r] \o buffer[r]
      BY DEF Received
    <3>3. Lengthens(read[r], buffer[r], buffer'[r], obj)
      BY Zenon, <3>1, JoinedAppend
    <3>. QED  BY Zenon, <2>2, <3>2, <3>3 DEF Lengthens
  <2>. QED  BY Zenon, <2>1, <2>2, <2>3 DEF Received
<1>3. CASE ~(Len(buffer[r]) < BufferCap)
  BY Zenon, <1>3 DEF Push, Received
<1>. QED  BY <1>2, <1>3

LEMMA ReadReceives ==
    ASSUME DataTypeOK, NEW r \in Requests, ReadObject(r)
    PROVE  /\ \A q \in Requests : q # r => Received(q)' = Received(q) /\ readErr'[q] = readErr[q]
           /\ \/ Received(r)' = Received(r) /\ readErr[r] = "none"
              \/ Thinned(Received(r)', Received(r), Len(read[r])) /\ readErr'[r] = "Canceled"
<1>1. /\ buffer \in [Requests -> Seq(Objects)] /\ read \in [Requests -> Seq(Objects)]
      /\ readErr \in [Requests -> {"none", "ErrSubscribeDone", "Canceled"}]
  BY DEF DataTypeOK
<1>2. readErr[r] = "none"
  BY DEF ReadObject
<1>3. CASE ReadObjectEnds(r)
  <2>1. UNCHANGED <<buffer, read>> /\ \A q \in Requests : q # r => readErr'[q] = readErr[q]
    BY <1>1, <1>3 DEF ReadObjectEnds
  <2>. QED  BY Zenon, <1>2, <2>1 DEF Received
<1>4. CASE ReadObjectTakes(r)
  <2>1. buffer[r] # <<>> /\ buffer' = [buffer EXCEPT ![r] = Tail(buffer[r])]
    BY <1>4 DEF ReadObjectTakes
  <2>2. buffer'[r] = Tail(buffer[r]) /\ \A q \in Requests : q # r => buffer'[q] = buffer[q]
    BY <1>1, <2>1
  <2>3. CASE remoteDone[r]
    <3>1. read' = read /\ readErr'[r] = "Canceled" /\ \A q \in Requests : q # r => readErr'[q] = readErr[q]
      BY <1>1, <1>4, <2>3 DEF ReadObjectTakes
    <3>2. Thinned(read[r] \o Tail(buffer[r]), read[r] \o buffer[r], Len(read[r]))
      BY <1>1, <2>1, JoinedDrop DEF Thinned
    <3>. QED  BY Zenon, <2>2, <3>1, <3>2 DEF Received
  <2>4. CASE ~remoteDone[r]
    <3>1. read' = [read EXCEPT ![r] = Append(read[r], Head(buffer[r]))] /\ readErr' = readErr
      BY <1>4, <2>4 DEF ReadObjectTakes
    <3>2. read'[r] = Append(read[r], Head(buffer[r])) /\ \A q \in Requests : q # r => read'[q] = read[q]
      BY <1>1, <3>1
    <3>3. Append(read[r], Head(buffer[r])) \o Tail(buffer[r]) = read[r] \o buffer[r]
      BY <1>1, <2>1, JoinedMove
    <3>. QED  BY Zenon, <1>2, <2>2, <3>1, <3>2, <3>3 DEF Received
  <2>. QED  BY <2>3, <2>4
<1>. QED  BY <1>3, <1>4 DEF ReadObject

\* A step that changes neither what the streams hold nor what was received.
Quiet ==
    /\ UNCHANGED published /\ dgrams' \subseteq dgrams
    /\ Len(streams') = Len(streams) /\ \A i \in 1..Len(streams) : streams'[i].sent = streams[i].sent
    /\ \A r \in Requests : Received(r)' = Received(r)

LEMMA QuietOrder ==
    ASSUME OrderInv, Quiet
    PROVE  OrderInv'
BY Zenon DEF OrderInv, Quiet, SentInv, ReceivedInv, BehindInv

LEMMA QuietSteps ==
    ASSUME DataTypeOK
    PROVE  /\ UNCHANGED allVars => Quiet
           /\ ControlStep => Quiet
           /\ \A r \in Requests : OpenSubgroup(r) => Quiet
           /\ \A i \in 1..Len(streams) : CloseSubgroup(i) => Quiet
           /\ \A i \in 1..Len(streams) : AcceptUniStream(i) => Quiet
           /\ \A i \in 1..Len(streams) : HandleUniStream(i) => Quiet
           /\ \A l : StopLoop(l) => Quiet
<1>1. ASSUME UNCHANGED <<published, streams, buffer, read>>, dgrams' \subseteq dgrams PROVE Quiet
  BY Zenon, <1>1 DEF Quiet, Received
<1>2. ASSUME NEW i \in 1..Len(streams), Changes(i), streams'[i].sent = streams[i].sent,
             UNCHANGED <<published, dgrams, buffer, read>>
      PROVE  Quiet
  BY Zenon, <1>2 DEF Quiet, Received, Changes
<1>3. UNCHANGED allVars => Quiet
  BY <1>1 DEF allVars, dataVars
<1>4. ControlStep => Quiet
  BY <1>1 DEF ControlStep
<1>5. \A r \in Requests : OpenSubgroup(r) => Quiet
  BY <1>1 DEF OpenSubgroup
<1>6. ASSUME NEW i \in 1..Len(streams), CloseSubgroup(i) PROVE Quiet
  BY Zenon, <1>2, <1>6, CloseEffect DEF CloseSubgroup
<1>7. ASSUME NEW i \in 1..Len(streams), AcceptUniStream(i) PROVE Quiet
  BY Zenon, <1>2, <1>7, AcceptEffect DEF AcceptUniStream
<1>8. ASSUME NEW i \in 1..Len(streams), HandleUniStream(i) PROVE Quiet
  <2>1. UNCHANGED <<published, dgrams, buffer, read>>
    BY <1>8 DEF HandleUniStream
  <2>. QED  BY <1>2, <1>8, <2>1, HandleEffect
<1>9. \A l : StopLoop(l) => Quiet
  BY <1>1 DEF StopLoop
<1>. QED  BY <1>3, <1>4, <1>5, <1>6, <1>7, <1>8, <1>9

\* A track that receives object obj of stream i, which holds the objects s behind it.
LEMMA PushOrder ==
    ASSUME DataTypeOK, OrderInv, NEW r \in Requests, NEW obj \in Objects, Push(r, obj), read' = read,
           UNCHANGED published, obj \in 1..Len(published),
           \/ published[obj].stream = 0
           \/ \A k \in 1..Len(Received(r)) :
                 published[Received(r)[k]].stream = published[obj].stream => Received(r)[k] < obj
    PROVE  /\ \A q \in Requests : ReceivedInv(q)'
           /\ \A q \in Requests : \A s, i :
                 Behind(Received(q), s, i, published) /\ (published[obj].stream = i => \A l \in 1..Len(s) : obj < s[l])
                    => Behind(Received(q)', s, i, published)
<1>1. \A q \in Requests : Received(q) \in Seq(Objects) /\ ReceivedInv(q)
  BY ReceivedType DEF OrderInv
<1>2. \A q \in Requests : Received(q)' = Received(q) \/ (q = r /\ Received(q)' = Append(Received(q), obj))
  <2>1. /\ \A q \in Requests : q # r => Received(q)' = Received(q)
        /\ Received(r)' = Append(Received(r), obj) \/ Received(r)' = Received(r)
    BY PushReceives
  <2>. QED  BY Zenon, <2>1
<1>3. Within(Append(Received(r), obj), published) /\ Ordered(Append(Received(r), obj), published)
  BY Zenon, <1>1, PushedOrder DEF ReceivedInv
<1>4. ASSUME NEW q \in Requests PROVE ReceivedInv(q)'
  BY Zenon, <1>1, <1>2, <1>3 DEF ReceivedInv
<1>5. ASSUME NEW q \in Requests, NEW s, NEW i, Behind(Received(q), s, i, published),
             published[obj].stream = i => \A l \in 1..Len(s) : obj < s[l]
      PROVE  Behind(Received(q)', s, i, published)
  <2>1. Behind(Append(Received(q), obj), s, i, published)
    BY Zenon, <1>1, <1>5, PushedBehind
  <2>. QED  BY Zenon, <1>2, <1>5, <2>1
<1>. QED  BY Zenon, <1>4, <1>5

LEMMA OrderInductive ==
    ASSUME TypeOK, TypeInv, DataTypeOK', OrderInv, [DataNext]_allVars
    PROVE  OrderInv'
<1>0. /\ DataTypeOK /\ Len(published) \in Nat /\ Len(streams) \in Nat
      /\ \A n \in 1..Len(published) : published[n].stream \in Nat
  <2>1. DataTypeOK /\ Len(published) \in Nat /\ Len(streams) \in Nat
    BY LenProperties DEF TypeInv, DataTypeOK
  <2>2. \A n \in 1..Len(published) : published[n] \in [track : Requests, stream : 0..MaxStreams]
    BY Zenon, <2>1, ElementOfSeq DEF DataTypeOK
  <2>. QED  BY <2>1, <2>2, DeliveryAssumption
<1>1. CASE Quiet
  BY <1>1, QuietOrder
<1>2. CASE \E r \in Requests : SendDatagram(r)
  <2>1. PICK r \in Requests : SendDatagram(r)
    BY <1>2
  <2>2. Publish(r, 0) /\ 0 \in 0..MaxStreams /\ UNCHANGED <<streams, buffer, read>>
    BY DeliveryAssumption, <2>1 DEF SendDatagram
  <2>3. /\ Extends(published, published') /\ Len(published') = Len(published) + 1
        /\ published'[Len(published) + 1].stream = 0
    <3>1. /\ Len(published') = Len(published) + 1 /\ \A n \in 1..Len(published) : published'[n] = published[n]
          /\ published'[Len(published) + 1] = [track |-> r, stream |-> 0]
      BY <1>0, <2>2, PublishType
    <3>. QED  BY <1>0, <3>1 DEF Extends
  <2>4. \A n \in 1..Len(published') : published'[n].stream <= Len(streams')
    BY <1>0, <2>2, <2>3 DEF Extends, OrderInv
  <2>5. ASSUME NEW i \in 1..Len(streams') PROVE SentInv(i)'
    BY Zenon, <2>2, <2>3, <2>5, Grown DEF OrderInv, SentInv
  <2>6. ASSUME NEW q \in Requests PROVE ReceivedInv(q)'
    <3>1. Received(q)' = Received(q)
      BY Zenon, <2>2 DEF Received
    <3>. QED  BY Zenon, <2>3, <3>1, Grown DEF OrderInv, ReceivedInv
  <2>7. ASSUME NEW q \in Requests, NEW i \in 1..Len(streams') PROVE BehindInv(q, i)'
    <3>1. Received(q)' = Received(q) /\ streams' = streams
      BY Zenon, <2>2 DEF Received
    <3>2. Within(Received(q), published) /\ Behind(Received(q), streams[i].sent, i, published)
      BY Zenon, <2>7, <3>1 DEF OrderInv, ReceivedInv, BehindInv
    <3>3. Behind(Received(q), streams[i].sent, i, published')
      BY Zenon, <2>3, <3>2, Grown
    <3>. QED  BY Zenon, <3>1, <3>3 DEF BehindInv
  <2>8. ASSUME NEW d \in dgrams' PROVE d.obj \in 1..Len(published') /\ published'[d.obj].stream = 0
    <3>1. CASE d \in dgrams
      BY <1>0, <2>3, <3>1 DEF Extends, OrderInv
    <3>2. CASE d \notin dgrams
      <4>1. d.obj = Len(published) + 1
        BY <2>1, <2>8, <3>2 DEF SendDatagram
      <4>. QED  BY <1>0, <2>3, <4>1
    <3>. QED  BY <3>1, <3>2
  <2>. QED  BY Zenon, <2>4, <2>5, <2>6, <2>7, <2>8 DEF OrderInv
<1>3. CASE \E r \in Requests : NewSubgroup(r)
  <2>1. PICK r \in Requests : NewSubgroup(r)
    BY <1>3
  <2>2. UNCHANGED <<published, dgrams, buffer, read>>
    BY <2>1 DEF NewSubgroup
  <2>3. CASE streams' = streams
    BY <1>1, <2>2, <2>3 DEF Quiet, Received
  <2>4. CASE streams' # streams
    <3>1. /\ Len(streams') = Len(streams) + 1 /\ streams'[Len(streams) + 1].sent = <<>>
          /\ \A j \in 1..Len(streams) : streams'[j] = streams[j]
      <4>1. /\ Len(streams') = Len(streams) + 1 /\ streams'[Len(streams) + 1] = NewStream(r)
            /\ \A j \in 1..Len(streams) : streams'[j] = streams[j]
        BY <1>0, <2>1, <2>4, NewEffect
      <4>. QED  BY <4>1 DEF NewStream
    <3>2. \A j \in 1..Len(streams') : streams'[j].sent = <<>> \/ (j \in 1..Len(streams) /\ streams'[j] = streams[j])
      <4> SUFFICES ASSUME NEW j \in 1..Len(streams')
                   PROVE  streams'[j].sent = <<>> \/ (j \in 1..Len(streams) /\ streams'[j] = streams[j])
        OBVIOUS
      <4>1. j = Len(streams) + 1 \/ j \in 1..Len(streams)
        BY <1>0, <3>1
      <4>. QED  BY Zenon, <3>1, <4>1
    <3>3. \A q, i, P : Within(<<>>, P) /\ From(<<>>, i, P) /\ Rising(<<>>) /\ Behind(q, <<>>, i, P)
      BY DEF Within, From, Rising, Behind
    <3>4. \A n \in 1..Len(published') : published'[n].stream <= Len(streams')
      BY <1>0, <2>2, <3>1 DEF OrderInv
    <3>5. ASSUME NEW i \in 1..Len(streams') PROVE SentInv(i)'
      BY Zenon, <2>2, <3>2, <3>3, <3>5 DEF OrderInv, SentInv
    <3>6. ASSUME NEW q \in Requests PROVE ReceivedInv(q)'
      BY Zenon, <2>2 DEF OrderInv, ReceivedInv, Received
    <3>7. ASSUME NEW q \in Requests, NEW i \in 1..Len(streams') PROVE BehindInv(q, i)'
      BY Zenon, <2>2, <3>2, <3>3, <3>7 DEF OrderInv, BehindInv, Received
    <3>. QED  BY Zenon, <2>2, <3>4, <3>5, <3>6, <3>7 DEF OrderInv
  <2>. QED  BY <2>3, <2>4
<1>4. CASE \E i \in 1..Len(streams) : WriteObject(i)
  <2>1. PICK i \in 1..Len(streams) : WriteObject(i)
    BY <1>4
  <2>2. /\ Publish(streams[i].track, i) /\ i \in 0..MaxStreams /\ Len(published) + 1 \in Objects
        /\ streams'[i].sent = Append(streams[i].sent, Len(published) + 1)
        /\ Len(streams') = Len(streams) /\ \A j \in 1..Len(streams) : j # i => streams'[j] = streams[j]
    BY <2>1, WriteEffect DEF Changes
  <2>3. UNCHANGED <<dgrams, buffer, read>>
    BY <2>1 DEF WriteObject
  <2>4. /\ Extends(published, published') /\ Len(published') = Len(published) + 1
        /\ published'[Len(published) + 1].stream = i
    <3>1. /\ Len(published') = Len(published) + 1 /\ \A n \in 1..Len(published) : published'[n] = published[n]
          /\ published'[Len(published) + 1] = [track |-> streams[i].track, stream |-> i]
      BY Zenon, <1>0, <2>2, StreamType, PublishType
    <3>. QED  BY <1>0, <3>1 DEF Extends
  <2>5. \A n \in 1..Len(published') : published'[n].stream <= Len(streams')
    BY <1>0, <2>2, <2>4 DEF Extends, OrderInv
  <2>6. streams[i].sent \in Seq(Objects) /\ SentInv(i)
    BY <1>0, StreamType DEF OrderInv
  <2>7. /\ Within(streams'[i].sent, published') /\ From(streams'[i].sent, i, published') /\ Rising(streams'[i].sent)
        /\ \A q : Within(q, published) /\ Behind(q, streams[i].sent, i, published)
                     => Behind(q, streams'[i].sent, i, published')
    BY <2>2, <2>4, <2>6, WrittenOrder DEF SentInv
  <2>8. ASSUME NEW j \in 1..Len(streams') PROVE SentInv(j)'
    <3>1. CASE j = i
      BY Zenon, <2>7, <3>1 DEF SentInv
    <3>2. CASE j # i
      BY Zenon, <2>2, <2>4, <2>8, <3>2, Grown DEF OrderInv, SentInv
    <3>. QED  BY <3>1, <3>2
  <2>9. ASSUME NEW q \in Requests PROVE ReceivedInv(q)'
    BY Zenon, <2>3, <2>4, Grown DEF OrderInv, ReceivedInv, Received
  <2>10. ASSUME NEW q \in Requests, NEW j \in 1..Len(streams') PROVE BehindInv(q, j)'
    <3>1. /\ Received(q)' = Received(q) /\ Within(Received(q), published)
          /\ Behind(Received(q), streams[j].sent, j, published)
      BY Zenon, <2>2, <2>3, <2>10 DEF OrderInv, ReceivedInv, BehindInv, Received
    <3>2. CASE j = i
      BY Zenon, <2>7, <3>1, <3>2 DEF BehindInv
    <3>3. CASE j # i
      <4>1. streams'[j] = streams[j]
        BY <2>2, <2>10, <3>3
      <4>2. Behind(Received(q), streams[j].sent, j, published')
        BY <2>4, <3>1, Grown
      <4>. QED  BY Zenon, <3>1, <4>1, <4>2 DEF BehindInv
    <3>. QED  BY <3>2, <3>3
  <2>11. \A d \in dgrams' : d.obj \in 1..Len(published') /\ published'[d.obj].stream = 0
    BY <1>0, <2>3, <2>4 DEF Extends, OrderInv
  <2>. QED  BY Zenon, <2>5, <2>8, <2>9, <2>10, <2>11 DEF OrderInv
<1>5. CASE \E r \in Requests : ReadObject(r)
  <2>1. PICK r \in Requests : ReadObject(r)
    BY <1>5
  <2>2. UNCHANGED <<published, dgrams, streams>>
    BY <2>1 DEF ReadObject
  <2>3. CASE \A q \in Requests : Received(q)' = Received(q)
    BY Zenon, <1>1, <2>2, <2>3 DEF Quiet
  <2>4. CASE Thinned(Received(r)', Received(r), Len(read[r])) /\ \A q \in Requests : q # r => Received(q)' = Received(q)
    <3>1. Len(Received(r)') \in Nat /\ Len(read[r]) \in Nat
      <4>1. Received(r)' \in Seq(Objects)
        <5>1. read'[r] \in Seq(Objects) /\ buffer'[r] \in Seq(Objects)
          BY DEF DataTypeOK
        <5>. QED  BY <5>1, Joined DEF Received
      <4>. QED  BY <1>0, <4>1, ReceivedType, LenProperties
    <3>2. /\ Within(Received(r), published) => Within(Received(r)', published)
          /\ Ordered(Received(r), published) => Ordered(Received(r)', published)
          /\ \A s, i : Behind(Received(r), s, i, published) => Behind(Received(r)', s, i, published)
      BY Zenon, <2>4, <3>1, ThinnedOrder
    <3>3. ASSUME NEW q \in Requests PROVE ReceivedInv(q)'
      BY Zenon, <2>2, <2>4, <3>2 DEF OrderInv, ReceivedInv
    <3>4. ASSUME NEW q \in Requests, NEW i \in 1..Len(streams') PROVE BehindInv(q, i)'
      BY Zenon, <2>2, <2>4, <3>2, <3>4 DEF OrderInv, BehindInv
    <3>. QED  BY Zenon, <2>2, <3>3, <3>4 DEF OrderInv, SentInv
  <2>. QED  BY <1>0, <2>1, <2>3, <2>4, ReadReceives
<1>6. CASE \E d \in dgrams : ReceiveDatagram(d)
  <2>1. PICK d \in dgrams : ReceiveDatagram(d)
    BY <1>6
  <2>2. UNCHANGED <<published, streams, read>> /\ dgrams' \subseteq dgrams
    BY <2>1 DEF ReceiveDatagram
  <2>3. CASE UNCHANGED buffer
    BY Zenon, <1>1, <2>2, <2>3 DEF Quiet, Received
  <2>4. CASE \E r \in FindByTrackAlias(d.alias) : Push(r, d.obj)
    <3>1. PICK r \in Requests : Push(r, d.obj)
      BY <2>4, AliasType
    <3>2. d.obj \in Objects /\ d.obj \in 1..Len(published) /\ published[d.obj].stream = 0
      BY <1>0 DEF OrderInv, DataTypeOK, Datagram
    <3>3. \A q \in Requests : ReceivedInv(q)'
      BY Zenon, <1>0, <2>2, <3>1, <3>2, PushOrder
    <3>4. ASSUME NEW q \in Requests, NEW i \in 1..Len(streams') PROVE BehindInv(q, i)'
      <4>1. published[d.obj].stream # i
        BY <1>0, <2>2, <3>2
      <4>2. Behind(Received(q), streams[i].sent, i, published)
        BY <2>2, <3>4 DEF OrderInv, BehindInv
      <4>3. Behind(Received(q)', streams[i].sent, i, published)
        BY Zenon, <1>0, <2>2, <3>1, <3>2, <4>1, <4>2, PushOrder
      <4>. QED  BY Zenon, <2>2, <4>3 DEF BehindInv
    <3>. QED  BY Zenon, <2>2, <3>3, <3>4 DEF OrderInv, SentInv
  <2>. QED  BY Zenon, <2>1, <2>3, <2>4 DEF ReceiveDatagram
<1>7. CASE \E i \in 1..Len(streams) : ReadStream(i)
  <2>1. PICK i \in 1..Len(streams) : ReadStream(i)
    BY <1>7
  <2>2. UNCHANGED <<published, dgrams, read>>
    BY <2>1 DEF ReadStream
  <2>3. Changes(i)
    BY <1>0, <2>1, ReadEffect
  <2>4. CASE streams'[i].sent = streams[i].sent /\ UNCHANGED buffer
    BY Zenon, <1>1, <2>2, <2>3, <2>4 DEF Quiet, Received, Changes
  <2>5. CASE /\ streams[i].sent # <<>> /\ streams'[i].sent = Tail(streams[i].sent)
             /\ \E r \in streams[i].to : Push(r, Head(streams[i].sent))
    <3> DEFINE obj == Head(streams[i].sent)
    <3>1. PICK r \in Requests : Push(r, obj)
      BY <1>0, <2>5, StreamType
    <3>2. streams[i].sent \in Seq(Objects) /\ SentInv(i) /\ obj \in Objects
      BY <1>0, <2>5, StreamType, Shortened DEF OrderInv
    <3>3. /\ obj \in 1..Len(published) /\ published[obj].stream = i
          /\ Within(streams'[i].sent, published) /\ From(streams'[i].sent, i, published) /\ Rising(streams'[i].sent)
          /\ \A l \in 1..Len(streams'[i].sent) : obj < streams'[i].sent[l]
      <4>1. /\ obj \in 1..Len(published) /\ Within(Tail(streams[i].sent), published) /\ Rising(Tail(streams[i].sent))
            /\ \A l \in 1..Len(Tail(streams[i].sent)) : obj < Tail(streams[i].sent)[l]
        BY Zenon, <2>5, <3>2, TailOrder DEF SentInv
      <4>2. From(Tail(streams[i].sent), i, published) /\ published[obj].stream = i
        BY <2>5, <3>2, TailOrder DEF SentInv
      <4>. QED  BY Zenon, <2>5, <4>1, <4>2
    <3>4. ASSUME NEW q \in Requests
          PROVE  /\ Behind(Received(q), streams'[i].sent, i, published)
                 /\ \A k \in 1..Len(Received(q)) :
                       published[Received(q)[k]].stream = published[obj].stream => Received(q)[k] < obj
      <4>1. Behind(Received(q), streams[i].sent, i, published)
        BY DEF OrderInv, BehindInv
      <4>2. /\ Behind(Received(q), Tail(streams[i].sent), i, published)
            /\ \A k \in 1..Len(Received(q)) : published[Received(q)[k]].stream = i => Received(q)[k] < obj
        BY Zenon, <2>5, <3>2, <4>1, TailBehind
      <4>. QED  BY Zenon, <2>5, <3>3, <4>2
    <3> HIDE DEF obj
    <3>5. ASSUME NEW j \in 1..Len(streams') PROVE SentInv(j)'
      BY Zenon, <2>2, <2>3, <3>3, <3>5 DEF OrderInv, SentInv, Changes
    <3>6. \A q \in Requests : ReceivedInv(q)'
      BY Zenon, <1>0, <2>2, <3>1, <3>2, <3>3, <3>4, PushOrder
    <3>7. ASSUME NEW q \in Requests, NEW j \in 1..Len(streams') PROVE BehindInv(q, j)'
      <4>1. /\ Behind(Received(q), streams'[j].sent, j, published)
            /\ published[obj].stream = j => \A l \in 1..Len(streams'[j].sent) : obj < streams'[j].sent[l]
        BY Zenon, <2>3, <3>3, <3>4, <3>7 DEF OrderInv, BehindInv, Changes
      <4>2. Behind(Received(q)', streams'[j].sent, j, published)
        BY Zenon, <1>0, <2>2, <3>1, <3>2, <3>3, <3>4, <4>1, PushOrder
      <4>. QED  BY Zenon, <2>2, <4>2 DEF BehindInv
    <3>8. \A n \in 1..Len(published') : published'[n].stream <= Len(streams')
      BY <2>2, <2>3 DEF OrderInv, Changes
    <3>. QED  BY Zenon, <2>2, <3>5, <3>6, <3>7, <3>8 DEF OrderInv
  <2>. QED  BY Zenon, <1>0, <2>1, <2>4, <2>5, ReadEffect
<1>. QED  BY Zenon, <1>0, DataSteps, QuietSteps, <1>1, <1>2, <1>3, <1>4, <1>5, <1>6, <1>7

\* The objects of a stream reach ReadObject in the order they were written.
LEMMA OrderIsStreamOrder == OrderInv => StreamOrder
BY Zenon DEF OrderInv, ReceivedInv, Ordered, StreamOrder

-----------------------------------------------------------------------------
\* Loss

Holds(q, n) == \E k \in 1..Len(q) : q[k] = n
\* The reader of track r has object n, or an error instead.
Served(r, n) == Holds(Received(r), n) \/ readErr[r] = "Canceled"
\* Object n of stream i is not lost but by push.
Kept(n, i) == Holds(streams[i].sent, n) \/ n \in dropped \/ \E r \in streams[i].to : Served(r, n)
KeptInv == \A n \in 1..Len(published) : published[n].stream # 0 => Kept(n, published[n].stream)

LEMMA KeptIsOnlyOverflow == KeptInv <=> OnlyOverflowDrops
BY Zenon DEF KeptInv, Kept, Served, Holds, OnlyOverflowDrops

LEMMA AppendHolds ==
    ASSUME NEW S, NEW q \in Seq(S), NEW x \in S, NEW n
    PROVE  Holds(q, n) \/ n = x => Holds(Append(q, x), n)
BY Extended DEF Holds

LEMMA TailHolds ==
    ASSUME NEW S, NEW q \in Seq(S), q # <<>>, NEW n, Holds(q, n)
    PROVE  n = Head(q) \/ Holds(Tail(q), n)
<1>1. /\ Head(q) = q[1] /\ Len(q) \in Nat \ {0} /\ Len(Tail(q)) = Len(q) - 1
      /\ \A i \in 1..Len(Tail(q)) : i + 1 \in 1..Len(q) /\ Tail(q)[i] = q[i + 1]
  BY Shortened
<1>2. PICK k \in 1..Len(q) : q[k] = n
  BY DEF Holds
<1>3. CASE k = 1
  BY <1>1, <1>2, <1>3
<1>4. CASE k # 1
  <2>1. k - 1 \in 1..Len(Tail(q)) /\ (k - 1) + 1 = k
    BY <1>1, <1>4
  <2>2. Tail(q)[k - 1] = n
    BY <1>1, <1>2, <2>1
  <2>. QED  BY <2>1, <2>2 DEF Holds
<1>. QED  BY <1>3, <1>4

\* What was published stays; a new object is that of a datagram or of a stream.
LEMMA PublishedGrows ==
    ASSUME TypeInv, [DataNext]_allVars
    PROVE  /\ Extends(published, published')
           /\ \A n \in 1..Len(published') : \/ n \in 1..Len(published)
                                            \/ published'[n].stream = 0
                                            \/ \E i \in 1..Len(streams) :
                                                  /\ WriteObject(i) /\ published'[n].stream = i
                                                  /\ n = Len(published) + 1
<1>0. DataTypeOK /\ Len(published) \in Nat
  BY LenProperties DEF TypeInv, DataTypeOK
<1>1. CASE UNCHANGED published
  BY <1>0, <1>1 DEF Extends
<1>2. ASSUME NEW r \in Requests, NEW i \in 0..MaxStreams, Publish(r, i)
      PROVE  /\ Extends(published, published')
             /\ \A n \in 1..Len(published') :
                   n \in 1..Len(published) \/ (n = Len(published) + 1 /\ published'[n].stream = i)
  <2>1. /\ Len(published') = Len(published) + 1 /\ \A n \in 1..Len(published) : published'[n] = published[n]
        /\ published'[Len(published) + 1] = [track |-> r, stream |-> i]
    BY <1>0, <1>2, PublishType
  <2>2. published'[Len(published) + 1].stream = i
    BY <2>1
  <2>. QED  BY <1>0, <2>1, <2>2 DEF Extends
<1>3. CASE \E r \in Requests : SendDatagram(r)
  <2>1. 0 \in 0..MaxStreams /\ \E r \in Requests : Publish(r, 0)
    BY <1>3, DeliveryAssumption DEF SendDatagram
  <2>. QED  BY Zenon, <1>2, <2>1
<1>4. CASE \E i \in 1..Len(streams) : WriteObject(i)
  <2>1. PICK i \in 1..Len(streams) : WriteObject(i)
    BY <1>4
  <2>2. i \in 0..MaxStreams /\ Publish(streams[i].track, i) /\ streams[i].track \in Requests
    BY <1>0, <2>1, WriteEffect, StreamType
  <2>. QED  BY Zenon, <1>2, <2>1, <2>2
<1>5. \/ UNCHANGED published
      \/ \E r \in Requests : SendDatagram(r)
      \/ \E i \in 1..Len(streams) : WriteObject(i)
  BY Zenon, DataSteps DEF allVars, dataVars, ControlStep, OpenSubgroup, NewSubgroup, ReadObject, ReceiveDatagram,
      CloseSubgroup, AcceptUniStream, HandleUniStream, ReadStream, StopLoop
<1>. QED  BY <1>1, <1>3, <1>4, <1>5

\* What a reader has got stays, and what push dropped.
LEMMA ServedStays ==
    ASSUME TypeInv, OrderInv, [DataNext]_allVars, NEW r \in Requests, NEW n
    PROVE  (Served(r, n) => Served(r, n)') /\ dropped \subseteq dropped'
<1>0. DataTypeOK /\ Received(r) \in Seq(Objects)
  BY ReceivedType DEF TypeInv
<1>1. CASE UNCHANGED <<buffer, read, readErr, dropped>>
  BY Zenon, <1>1 DEF Served, Received
<1>2. ASSUME NEW q \in Requests, NEW obj \in Objects, Push(q, obj), UNCHANGED <<read, readErr>>
      PROVE  (Served(r, n) => Served(r, n)') /\ dropped \subseteq dropped'
  <2>1. Received(r)' = Received(r) \/ Received(r)' = Append(Received(r), obj)
    <3>1. /\ \A p \in Requests : p # q => Received(p)' = Received(p)
          /\ Received(q)' = Append(Received(q), obj) \/ Received(q)' = Received(q)
      BY <1>0, <1>2, PushReceives
    <3>. QED  BY Zenon, <3>1
  <2>2. dropped' = dropped \/ dropped' = dropped \cup {obj}
    BY Zenon, <1>0, <1>2, PushReceives
  <2>3. Holds(Received(r), n) => Holds(Append(Received(r), obj), n)
    BY <1>0, <1>2, AppendHolds
  <2>4. Served(r, n) => Served(r, n)'
    BY Zenon, <1>2, <2>1, <2>3 DEF Served
  <2>. QED  BY <2>2, <2>4
<1>3. CASE \E q \in Requests : ReadObject(q)
  <2>1. PICK q \in Requests : ReadObject(q)
    BY <1>3
  <2>2. dropped' = dropped
    BY <2>1 DEF ReadObject
  <2>3. \/ Received(r)' = Received(r) /\ (readErr[r] = "none" \/ readErr'[r] = readErr[r])
        \/ readErr'[r] = "Canceled"
    BY Zenon, <1>0, <2>1, ReadReceives
  <2>. QED  BY <2>2, <2>3 DEF Served
<1>4. CASE \E d \in dgrams : ReceiveDatagram(d)
  <2>1. PICK d \in dgrams : ReceiveDatagram(d)
    BY <1>4
  <2>2. UNCHANGED <<read, readErr>> /\ d.obj \in Objects
    BY <1>0, <2>1 DEF ReceiveDatagram, DataTypeOK, Datagram
  <2>3. UNCHANGED <<buffer, dropped>> \/ \E q \in Requests : Push(q, d.obj)
    BY Zenon, <2>1, AliasType DEF ReceiveDatagram
  <2>. QED  BY Zenon, <1>1, <1>2, <2>2, <2>3
<1>5. CASE \E i \in 1..Len(streams) : ReadStream(i)
  <2>1. PICK i \in 1..Len(streams) : ReadStream(i)
    BY <1>5
  <2>2. UNCHANGED <<read, readErr>>
    BY <2>1 DEF ReadStream
  <2>3. CASE UNCHANGED <<buffer, dropped>>
    BY <1>1, <2>2, <2>3
  <2>4. CASE streams[i].sent # <<>> /\ \E q \in streams[i].to : Push(q, Head(streams[i].sent))
    <3>1. streams[i].to \subseteq Requests /\ Head(streams[i].sent) \in Objects
      BY <1>0, <2>4, StreamType, Shortened
    <3>. QED  BY Zenon, <1>2, <2>2, <2>4, <3>1
  <2>. QED  BY Zenon, <1>0, <2>1, <2>3, <2>4, ReadEffect
<1>6. \/ UNCHANGED <<buffer, read, readErr, dropped>>
      \/ \E q \in Requests : ReadObject(q)
      \/ \E d \in dgrams : ReceiveDatagram(d)
      \/ \E i \in 1..Len(streams) : ReadStream(i)
  BY Zenon, DataSteps DEF allVars, dataVars, ControlStep, SendDatagram, OpenSubgroup, NewSubgroup, WriteObject,
      CloseSubgroup, AcceptUniStream, HandleUniStream, StopLoop
<1>. QED  BY <1>1, <1>3, <1>4, <1>5, <1>6

\* A stream keeps its tracks once it has some, and its objects but for the one
\* that ReadStream hands to push.
LEMMA StreamStays ==
    ASSUME TypeOK, TypeInv, [DataNext]_allVars, NEW i \in 1..Len(streams), UnparsedInv(i)
    PROVE  /\ i \in 1..Len(streams') /\ UnparsedInv(i)'
           /\ streams[i].to \subseteq streams'[i].to
           /\ \A n : Holds(streams[i].sent, n) => Kept(n, i)'
<1>0. DataTypeOK /\ streams[i].sent \in Seq(Objects) /\ Len(streams) \in Nat
  BY StreamType DEF TypeInv
<1>1. ASSUME i \in 1..Len(streams'), streams'[i] = streams[i]
      PROVE  /\ i \in 1..Len(streams') /\ UnparsedInv(i)' /\ streams[i].to \subseteq streams'[i].to
             /\ \A n : Holds(streams[i].sent, n) => Kept(n, i)'
  BY Zenon, <1>1 DEF Kept, UnparsedInv
<1>2. CASE UNCHANGED streams
  BY <1>1, <1>2
<1>3. CASE \E r \in Requests : NewSubgroup(r)
  <2>1. i \in 1..Len(streams') /\ streams'[i] = streams[i]
    BY <1>0, <1>3, NewEffect
  <2>. QED  BY <1>1, <2>1
<1>4. ASSUME NEW j \in 1..Len(streams), Changes(j), j # i
      PROVE  i \in 1..Len(streams') /\ streams'[i] = streams[i]
  BY <1>4 DEF Changes
<1>5. CASE WriteObject(i)
  <2>1. /\ Len(streams') = Len(streams) /\ streams'[i].state = streams[i].state /\ streams'[i].to = streams[i].to
        /\ streams'[i].sent = Append(streams[i].sent, Len(published) + 1) /\ Len(published) + 1 \in Objects
    BY <1>5, WriteEffect DEF Changes
  <2>2. \A n : Holds(streams[i].sent, n) => Holds(streams'[i].sent, n)
    BY Zenon, <1>0, <2>1, AppendHolds
  <2>. QED  BY Zenon, <2>1, <2>2 DEF Kept, UnparsedInv
<1>6. CASE CloseSubgroup(i) \/ AcceptUniStream(i)
  <2>1. /\ Len(streams') = Len(streams) /\ streams'[i].to = streams[i].to /\ streams'[i].sent = streams[i].sent
        /\ streams'[i].state = streams[i].state \/ streams[i].state = "opened"
    BY <1>0, <1>6, CloseEffect, AcceptEffect DEF Changes
  <2>. QED  BY Zenon, <2>1 DEF Kept, UnparsedInv
<1>7. CASE HandleUniStream(i)
  <2>1. /\ Len(streams') = Len(streams) /\ streams[i].state = "accepted" /\ streams'[i].sent = streams[i].sent
        /\ streams'[i].state = "ignored" \/ streams'[i].state = "read"
    BY <1>0, <1>7, HandleEffect DEF Changes
  <2>. QED  BY <2>1 DEF Kept, UnparsedInv
<1>8. CASE ReadStream(i)
  <2>1. /\ Len(streams') = Len(streams) /\ streams'[i].to = streams[i].to
        /\ streams'[i].state = "read" \/ streams'[i].state = "eof"
    BY <1>0, <1>8, ReadEffect DEF Changes
  <2>2. ASSUME NEW n, Holds(streams[i].sent, n) PROVE Kept(n, i)'
    <3>1. CASE streams'[i].sent = streams[i].sent
      BY <2>2, <3>1 DEF Kept
    <3>2. CASE /\ streams[i].sent # <<>> /\ streams'[i].sent = Tail(streams[i].sent)
               /\ \E r \in streams[i].to : Push(r, Head(streams[i].sent))
      <4>1. CASE Holds(streams'[i].sent, n)
        BY <4>1 DEF Kept
      <4>2. CASE n = Head(streams[i].sent)
        <5>1. PICK r \in streams[i].to : Push(r, n)
          BY <3>2, <4>2
        <5>2. r \in Requests /\ n \in Objects /\ read' = read
          BY <1>0, <1>8, <3>2, <4>2, StreamType, Shortened DEF ReadStream
        <5>3. \/ Received(r)' = Append(Received(r), n)
              \/ n \in dropped'
          BY <1>0, <5>1, <5>2, PushReceives
        <5>4. Holds(Append(Received(r), n), n)
          BY <1>0, <5>2, ReceivedType, AppendHolds
        <5>. QED  BY Zenon, <2>1, <5>1, <5>3, <5>4 DEF Kept, Served
      <4>. QED  BY <1>0, <2>2, <3>2, <4>1, <4>2, TailHolds
    <3>. QED  BY Zenon, <1>0, <1>8, <3>1, <3>2, ReadEffect
  <2>. QED  BY <2>1, <2>2 DEF UnparsedInv
<1>9. \/ UNCHANGED streams
      \/ \E r \in Requests : NewSubgroup(r)
      \/ \E j \in 1..Len(streams) : WriteObject(j) \/ CloseSubgroup(j) \/ AcceptUniStream(j)
                                    \/ HandleUniStream(j) \/ ReadStream(j)
  BY Zenon, DataSteps DEF allVars, dataVars, ControlStep, SendDatagram, OpenSubgroup, ReadObject, ReceiveDatagram,
      StopLoop
<1>10. ASSUME NEW j \in 1..Len(streams),
              WriteObject(j) \/ CloseSubgroup(j) \/ AcceptUniStream(j) \/ HandleUniStream(j) \/ ReadStream(j)
       PROVE  Changes(j)
  BY <1>0, <1>10, WriteEffect, CloseEffect, AcceptEffect, HandleEffect, ReadEffect
<1>. QED  BY Zenon, <1>1, <1>2, <1>3, <1>4, <1>5, <1>6, <1>7, <1>8, <1>9, <1>10

LEMMA LossInductive ==
    ASSUME TypeOK, TypeInv, OrderInv, LossInv, [DataNext]_allVars
    PROVE  LossInv'
<1>0. /\ DataTypeOK /\ Len(published) \in Nat /\ Len(streams) \in Nat
      /\ \A n \in 1..Len(published) : published[n] \in [track : Requests, stream : 0..MaxStreams]
  BY Zenon, LenProperties, ElementOfSeq DEF TypeInv, DataTypeOK
<1>1. ASSUME NEW i \in 1..Len(streams') PROVE UnparsedInv(i)'
  <2>1. CASE i \in 1..Len(streams)
    BY <2>1, StreamStays DEF LossInv
  <2>2. CASE i \notin 1..Len(streams)
    <3>1. \E r \in Requests : NewSubgroup(r) /\ streams' # streams
      <4>1. Len(streams') # Len(streams)
        BY <1>1, <2>2
      <4>2. \A j \in 1..Len(streams) : Changes(j) => FALSE
        BY <4>1 DEF Changes
      <4>. QED  BY Zenon, <1>0, <4>1, <4>2, DataSteps, WriteEffect, CloseEffect, AcceptEffect, HandleEffect, ReadEffect
                DEF allVars, dataVars, ControlStep, SendDatagram, OpenSubgroup, ReadObject, ReceiveDatagram, StopLoop
    <3>2. PICK r \in Requests : NewSubgroup(r)
      BY <3>1
    <3>3. Len(streams') = Len(streams) + 1 /\ streams'[Len(streams) + 1] = NewStream(r)
      BY <1>0, <3>1, <3>2, NewEffect
    <3>4. i = Len(streams) + 1
      BY <1>0, <1>1, <2>2, <3>3
    <3>. QED  BY <3>3, <3>4 DEF UnparsedInv, NewStream
  <2>. QED  BY <2>1, <2>2
<1>2. ASSUME NEW n, NEW i \in 1..Len(streams), Kept(n, i) PROVE Kept(n, i)'
  <2>1. /\ streams[i].to \subseteq streams'[i].to /\ streams[i].to \subseteq Requests
        /\ Holds(streams[i].sent, n) => Kept(n, i)'
    BY <1>0, StreamStays, StreamType DEF LossInv
  <2>2. (n \in dropped => n \in dropped') /\ \A r \in Requests : Served(r, n) => Served(r, n)'
    <3>1. streams[i].track \in Requests
      BY <1>0, StreamType
    <3>. QED  BY Zenon, <3>1, ServedStays
  <2>. QED  BY Zenon, <1>2, <2>1, <2>2 DEF Kept
<1>3. ASSUME NEW n \in 1..Len(published'), published'[n].stream # 0
      PROVE  Kept(n, published[n].stream)'
  <2>1. CASE n \in 1..Len(published)
    <3>1. published'[n] = published[n]
      BY <2>1, PublishedGrows DEF Extends
    <3>2. published[n].stream \in 1..Len(streams)
      BY <1>0, <1>3, <2>1, <3>1, DeliveryAssumption DEF OrderInv
    <3>3. PICK i \in 1..Len(streams) : i = published[n].stream
      BY <3>2
    <3>4. Kept(n, i)
      BY <1>3, <2>1, <3>1, <3>3, KeptIsOnlyOverflow DEF LossInv, KeptInv
    <3>5. Kept(n, i)'
      BY <1>2, <3>4
    <3>. QED  BY Zenon, <3>1, <3>3, <3>5
  <2>2. CASE n \notin 1..Len(published)
    <3>1. PICK i \in 1..Len(streams) :
             /\ WriteObject(i) /\ published'[n].stream = i /\ n = Len(published) + 1
      BY <1>3, <2>2, PublishedGrows
    <3>2. streams'[i].sent = Append(streams[i].sent, n) /\ n \in Objects /\ streams[i].sent \in Seq(Objects)
      BY <1>0, <3>1, WriteEffect, StreamType
    <3>3. Holds(streams'[i].sent, n)
      BY <3>2, AppendHolds
    <3>. QED  BY Zenon, <3>1, <3>3 DEF Kept
  <2>. QED  BY <2>1, <2>2
<1>4. KeptInv'
  BY <1>3 DEF KeptInv
<1>5. OnlyOverflowDrops'
  BY <1>4 DEF KeptInv, Kept, Served, Holds, OnlyOverflowDrops
<1>. QED  BY <1>1, <1>5 DEF LossInv


-----------------------------------------------------------------------------
\* Where objects go

\* What is sent on a track that was accepted, and the alias it is sent under.
HeaderInv(i) == Accepted(streams[i].track) /\ streams[i].alias = localAlias[streams[i].track]
ObjectInv(n) ==
    /\ Accepted(published[n].track)
    /\ published[n].stream # 0 => streams[published[n].stream].track = published[n].track
TrackInv ==
    /\ \A r \in opening : Accepted(r)
    /\ \A i \in 1..Len(streams) : HeaderInv(i)
    /\ \A n \in 1..Len(published) : ObjectInv(n)
    /\ \A d \in dgrams : d.alias = localAlias[published[d.obj].track]

\* A stream leads to its own track only.
TargetInv == (\A i \in 1..Len(streams) : streams[i].to \subseteq {streams[i].track}) /\ NoMisrouting

\* What the control plane is asked for: accepted tracks stay, with their alias,
\* and an alias leads to no other track than the accepted one it belongs to.
Steady == \A r \in Requests : Accepted(r) => Accepted(r)' /\ localAlias'[r] = localAlias[r]
Routed == \A r \in Requests : Accepted(r) => FindByTrackAlias(localAlias[r]) \subseteq {r}

LEMMA StreamMoves ==
    ASSUME TypeOK, TypeInv, [DataNext]_allVars
    PROVE  /\ Len(streams) \in Nat /\ Len(streams') \in Nat /\ Len(streams) <= Len(streams')
           /\ \A i \in 1..Len(streams) : streams'[i].track = streams[i].track /\ streams'[i].alias = streams[i].alias
           /\ \A i \in 1..Len(streams') : i \in 1..Len(streams) \/ \E r \in opening : streams'[i] = NewStream(r)
<1>0. DataTypeOK /\ Len(streams) \in Nat
  BY LenProperties DEF TypeInv, DataTypeOK
<1>1. CASE UNCHANGED streams
  BY <1>0, <1>1
<1>2. ASSUME NEW j \in 1..Len(streams), Changes(j)
      PROVE  /\ Len(streams') = Len(streams)
             /\ \A i \in 1..Len(streams) : streams'[i].track = streams[i].track /\ streams'[i].alias = streams[i].alias
  BY Zenon, <1>2 DEF Changes
<1>3. ASSUME NEW j \in 1..Len(streams),
             WriteObject(j) \/ CloseSubgroup(j) \/ AcceptUniStream(j) \/ HandleUniStream(j) \/ ReadStream(j)
      PROVE  Changes(j)
  BY <1>0, <1>3, WriteEffect, CloseEffect, AcceptEffect, HandleEffect, ReadEffect
<1>4. ASSUME NEW r \in Requests, NewSubgroup(r)
      PROVE  \/ UNCHANGED streams
             \/ /\ Len(streams') = Len(streams) + 1 /\ streams'[Len(streams) + 1] = NewStream(r) /\ r \in opening
                /\ \A i \in 1..Len(streams) : streams'[i] = streams[i]
  <2>1. r \in opening
    BY <1>4 DEF NewSubgroup
  <2>. QED  BY <1>0, <1>4, <2>1, NewEffect
<1>5. \/ UNCHANGED streams
      \/ \E r \in Requests : NewSubgroup(r)
      \/ \E j \in 1..Len(streams) : WriteObject(j) \/ CloseSubgroup(j) \/ AcceptUniStream(j)
                                    \/ HandleUniStream(j) \/ ReadStream(j)
  BY Zenon, DataSteps DEF allVars, dataVars, ControlStep, SendDatagram, OpenSubgroup, ReadObject, ReceiveDatagram,
      StopLoop
<1>6. CASE \E r \in Requests : NewSubgroup(r)
  <2>1. PICK r \in Requests : NewSubgroup(r)
    BY <1>6
  <2>2. CASE /\ Len(streams') = Len(streams) + 1 /\ streams'[Len(streams) + 1] = NewStream(r) /\ r \in opening
             /\ \A i \in 1..Len(streams) : streams'[i] = streams[i]
    BY <1>0, <2>2
  <2>. QED  BY <1>1, <1>4, <2>1, <2>2
<1>7. CASE \E j \in 1..Len(streams) : Changes(j)
  BY <1>0, <1>2, <1>7
<1>. QED  BY Zenon, <1>1, <1>3, <1>5, <1>6, <1>7

LEMMA ObjectMoves ==
    ASSUME TypeInv, [DataNext]_allVars, TrackInv
    PROVE  /\ Len(published) \in Nat /\ \A n \in 1..Len(published) : published'[n] = published[n]
           /\ \A n \in 1..Len(published') :
                 \/ n \in 1..Len(published)
                 \/ published'[n].stream = 0 /\ published'[n].track \in Requests /\ Accepted(published'[n].track)
                 \/ \E i \in 1..Len(streams) : published'[n].stream = i /\ published'[n].track = streams[i].track
<1>0. DataTypeOK /\ Len(published) \in Nat
  BY LenProperties DEF TypeInv, DataTypeOK
<1>1. CASE UNCHANGED published
  BY <1>0, <1>1
<1>2. ASSUME NEW r \in Requests, NEW i \in 0..MaxStreams, Publish(r, i)
      PROVE  /\ \A n \in 1..Len(published) : published'[n] = published[n]
             /\ \A n \in 1..Len(published') :
                   n \in 1..Len(published) \/ (published'[n].track = r /\ published'[n].stream = i)
  <2>1. /\ Len(published') = Len(published) + 1 /\ \A n \in 1..Len(published) : published'[n] = published[n]
        /\ published'[Len(published) + 1] = [track |-> r, stream |-> i]
    BY <1>0, <1>2, PublishType
  <2>2. published'[Len(published) + 1].track = r /\ published'[Len(published) + 1].stream = i
    BY <2>1
  <2>. QED  BY <1>0, <2>1, <2>2
<1>3. CASE \E r \in Requests : SendDatagram(r)
  <2>1. PICK r \in Requests : SendDatagram(r)
    BY <1>3
  <2>2. 0 \in 0..MaxStreams /\ Publish(r, 0) /\ Accepted(r)
    BY <2>1, DeliveryAssumption DEF SendDatagram
  <2>3. /\ \A n \in 1..Len(published) : published'[n] = published[n]
        /\ \A n \in 1..Len(published') : n \in 1..Len(published) \/ (published'[n].track = r /\ published'[n].stream = 0)
    BY Zenon, <1>2, <2>2
  <2>. QED  BY SMT, <1>0, <2>2, <2>3
<1>4. CASE \E i \in 1..Len(streams) : WriteObject(i)
  <2>1. PICK i \in 1..Len(streams) : WriteObject(i)
    BY <1>4
  <2>2. i \in 0..MaxStreams /\ Publish(streams[i].track, i) /\ streams[i].track \in Requests
    BY <1>0, <2>1, WriteEffect, StreamType
  <2>3. /\ \A n \in 1..Len(published) : published'[n] = published[n]
        /\ \A n \in 1..Len(published') :
              n \in 1..Len(published) \/ (published'[n].track = streams[i].track /\ published'[n].stream = i)
    BY Zenon, <1>2, <2>2
  <2>. QED  BY SMT, <1>0, <2>1, <2>3
<1>5. \/ UNCHANGED published
      \/ \E r \in Requests : SendDatagram(r)
      \/ \E i \in 1..Len(streams) : WriteObject(i)
  BY Zenon, DataSteps DEF allVars, dataVars, ControlStep, OpenSubgroup, NewSubgroup, ReadObject, ReceiveDatagram,
      CloseSubgroup, AcceptUniStream, HandleUniStream, ReadStream, StopLoop
<1>. QED  BY <1>1, <1>3, <1>4, <1>5

LEMMA DatagramMoves ==
    ASSUME TypeInv, [DataNext]_allVars, NEW d \in dgrams'
    PROVE  \/ d \in dgrams
           \/ d.obj = Len(published) + 1 /\ d.alias = localAlias'[published'[d.obj].track]
<1>0. DataTypeOK
  BY DEF TypeInv
<1>1. CASE \E r \in Requests : SendDatagram(r)
  <2>1. PICK r \in Requests : SendDatagram(r)
    BY <1>1
  <2>2. 0 \in 0..MaxStreams /\ Publish(r, 0) /\ localAlias' = localAlias
    BY <2>1, DeliveryAssumption DEF SendDatagram, vars, pubVars
  <2>3. published'[Len(published) + 1] = [track |-> r, stream |-> 0]
    BY <1>0, <2>2, PublishType
  <2>4. published'[Len(published) + 1].track = r
    BY <2>3
  <2>5. d \in dgrams \/ d = [alias |-> localAlias[r], obj |-> Len(published) + 1]
    BY <2>1 DEF SendDatagram
  <2>. QED  BY <2>2, <2>4, <2>5
<1>2. dgrams' \subseteq dgrams \/ \E r \in Requests : SendDatagram(r)
  BY Zenon, DataSteps DEF allVars, dataVars, ControlStep, OpenSubgroup, NewSubgroup, ReadObject, ReceiveDatagram,
      WriteObject, CloseSubgroup, AcceptUniStream, HandleUniStream, ReadStream, StopLoop
<1>. QED  BY <1>1, <1>2

LEMMA TrackInductive ==
    ASSUME TypeOK, TypeInv, OrderInv, TrackInv, Steady, [DataNext]_allVars
    PROVE  TrackInv'
<1>0. /\ DataTypeOK /\ Len(streams) \in Nat /\ Len(published) \in Nat
      /\ \A n \in 1..Len(published) : published[n].track \in Requests /\ published[n].stream \in Nat
  <2>1. DataTypeOK /\ Len(published) \in Nat /\ Len(streams) \in Nat
    BY LenProperties DEF TypeInv, DataTypeOK
  <2>2. \A n \in 1..Len(published) : published[n] \in [track : Requests, stream : 0..MaxStreams]
    BY Zenon, <2>1, ElementOfSeq DEF DataTypeOK
  <2>. QED  BY <2>1, <2>2, DeliveryAssumption
<1>1. ASSUME NEW r \in opening' PROVE Accepted(r)'
  <2>1. r \in opening \/ (r \in Requests /\ OpenSubgroup(r))
    BY Zenon, <1>1, DataSteps DEF allVars, dataVars, ControlStep, SendDatagram, OpenSubgroup, NewSubgroup, ReadObject,
        ReceiveDatagram, WriteObject, CloseSubgroup, AcceptUniStream, HandleUniStream, ReadStream, StopLoop
  <2>2. opening \subseteq Requests
    BY <1>0 DEF DataTypeOK
  <2>3. r \in Requests /\ Accepted(r)
    BY Zenon, <1>1, <2>1, <2>2 DEF TrackInv, OpenSubgroup
  <2>. QED  BY <2>3 DEF Steady
<1>2. ASSUME NEW i \in 1..Len(streams') PROVE HeaderInv(i)'
  <2>1. CASE i \in 1..Len(streams)
    <3>1. streams[i].track \in Requests /\ streams'[i].track = streams[i].track /\ streams'[i].alias = streams[i].alias
      BY <1>0, <2>1, StreamType, StreamMoves
    <3>2. Accepted(streams[i].track) /\ streams[i].alias = localAlias[streams[i].track]
      BY <2>1 DEF TrackInv, HeaderInv
    <3>3. Accepted(streams[i].track)' /\ localAlias'[streams[i].track] = localAlias[streams[i].track]
      <4>1. ASSUME NEW r \in Requests, Accepted(r) PROVE local'[r] \in {"open", "closed"} /\ localAlias'[r] = localAlias[r]
        BY Zenon, <4>1 DEF Steady, Accepted
      <4>2. local'[streams'[i].track] \in {"open", "closed"} /\ localAlias'[streams'[i].track] = localAlias[streams[i].track]
        BY <3>1, <3>2, <4>1
      <4>. QED  BY <3>1, <4>2 DEF Accepted
    <3>. QED  BY <3>1, <3>2, <3>3 DEF HeaderInv, Accepted
  <2>2. CASE \E r \in opening : streams'[i] = NewStream(r)
    <3>1. PICK r \in opening : streams'[i] = NewStream(r)
      BY <2>2
    <3>2. r \in Requests /\ Accepted(r) /\ streams'[i].track = r /\ streams'[i].alias = localAlias[r]
      <4>1. opening \subseteq Requests
        BY <1>0 DEF DataTypeOK
      <4>2. Accepted(r)
        BY Zenon DEF TrackInv
      <4>3. streams'[i].track = r /\ streams'[i].alias = localAlias[r]
        BY <3>1 DEF NewStream
      <4>. QED  BY <4>1, <4>2, <4>3
    <3>3. Accepted(r)' /\ localAlias'[r] = localAlias[r]
      BY <3>2 DEF Steady
    <3>. QED  BY <3>2, <3>3 DEF HeaderInv, Accepted
  <2>. QED  BY <2>1, <2>2, StreamMoves
<1>3. ASSUME NEW n \in 1..Len(published') PROVE ObjectInv(n)'
  <2>1. CASE n \in 1..Len(published)
    <3>1. published'[n] = published[n] /\ published[n].track \in Requests /\ ObjectInv(n)
      BY <1>0, <2>1, ObjectMoves DEF TrackInv
    <3>2. published[n].stream # 0 => published[n].stream \in 1..Len(streams)
      BY <1>0, <2>1 DEF OrderInv
    <3>3. published[n].stream # 0 => streams'[published[n].stream].track = published[n].track
      BY <3>1, <3>2, StreamMoves DEF ObjectInv
    <3>4. local'[published[n].track] \in {"open", "closed"}
      BY <3>1 DEF ObjectInv, Steady, Accepted
    <3>. QED  BY <3>1, <3>3, <3>4 DEF ObjectInv, Accepted
  <2>2. CASE published'[n].stream = 0 /\ published'[n].track \in Requests /\ Accepted(published'[n].track)
    BY <2>2 DEF Steady, Accepted, ObjectInv
  <2>3. CASE \E i \in 1..Len(streams) : published'[n].stream = i /\ published'[n].track = streams[i].track
    <3>1. PICK i \in 1..Len(streams) : published'[n].stream = i /\ published'[n].track = streams[i].track
      BY <2>3
    <3>2. i \in 1..Len(streams') /\ streams'[i].track = streams[i].track
      BY <1>0, StreamMoves
    <3>3. local'[streams'[i].track] \in {"open", "closed"}
      BY <1>2, <3>2 DEF HeaderInv, Accepted
    <3>. QED  BY <3>1, <3>2, <3>3 DEF ObjectInv, Accepted
  <2>. QED  BY <2>1, <2>2, <2>3, ObjectMoves
<1>4. ASSUME NEW d \in dgrams' PROVE d.alias = localAlias'[published'[d.obj].track]
  <2>1. CASE d \in dgrams
    <3>1. d.obj \in 1..Len(published) /\ d.alias = localAlias[published[d.obj].track]
      BY <2>1 DEF OrderInv, TrackInv
    <3>2. published'[d.obj] = published[d.obj] /\ published[d.obj].track \in Requests /\ Accepted(published[d.obj].track)
      BY Zenon, <1>0, <3>1, ObjectMoves DEF TrackInv, ObjectInv
    <3>3. localAlias'[published[d.obj].track] = localAlias[published[d.obj].track]
      BY <3>2 DEF Steady
    <3>. QED  BY <3>1, <3>2, <3>3
  <2>. QED  BY <2>1, DatagramMoves
<1>. QED  BY Zenon, <1>1, <1>2, <1>3, <1>4 DEF TrackInv

-----------------------------------------------------------------------------
\* Objects of the right track

\* q holds objects of track r only.
Of(q, r, P) == \A k \in 1..Len(q) : P[q[k]].track = r

LEMMA OfGrown ==
    ASSUME NEW P, NEW Q, Extends(P, Q), NEW q, Within(q, P), NEW r, Of(q, r, P)
    PROVE  Of(q, r, Q)
<1>1. \A k \in 1..Len(q) : Q[q[k]] = P[q[k]]
  BY DEF Within, Extends
<1>. QED  BY Zenon, <1>1 DEF Of

LEMMA OfPushed ==
    ASSUME NEW P, NEW q \in Seq(Objects), NEW x \in Objects, NEW r, Of(q, r, P), P[x].track = r
    PROVE  Of(Append(q, x), r, P)
BY Extended DEF Of

LEMMA OfThinned ==
    ASSUME NEW P, NEW p, NEW q, NEW n \in Nat, Thinned(p, q, n), NEW r, Of(q, r, P)
    PROVE  Of(p, r, P)
BY DEF Of, Thinned

LEMMA PushRightly ==
    ASSUME DataTypeOK, NoMisrouting, NEW r \in Requests, NEW obj \in Objects, Push(r, obj), read' = read,
           UNCHANGED published, published[obj].track = r
    PROVE  NoMisrouting'
<1>1. ASSUME NEW q \in Requests PROVE Of(Received(q)', q, published)
  <2>1. Received(q)' = Received(q) \/ (q = r /\ Received(q)' = Append(Received(q), obj))
    BY PushReceives
  <2>2. Of(Received(q), q, published) /\ Received(q) \in Seq(Objects)
    BY ReceivedType DEF NoMisrouting, Of
  <2>3. q = r => Of(Append(Received(q), obj), q, published)
    BY Zenon, <2>2, OfPushed
  <2>. QED  BY Zenon, <2>1, <2>2, <2>3
<1>. QED  BY Zenon, <1>1 DEF NoMisrouting, Of

\* The objects of a stream and the targets of an alias.
LEMMA StreamObject ==
    ASSUME TypeInv, OrderInv, TrackInv, NEW i \in 1..Len(streams), streams[i].sent # <<>>
    PROVE  Head(streams[i].sent) \in Objects /\ published[Head(streams[i].sent)].track = streams[i].track
<1>1. streams[i].sent \in Seq(Objects) /\ SentInv(i)
  BY StreamType DEF TypeInv, OrderInv
<1>2. Head(streams[i].sent) \in 1..Len(published) /\ published[Head(streams[i].sent)].stream = i
  BY <1>1, TailOrder DEF SentInv
<1>3. ObjectInv(Head(streams[i].sent)) /\ i # 0
  BY <1>2 DEF TrackInv
<1>4. Head(streams[i].sent) \in Objects
  BY <1>1, Shortened
<1>. QED  BY <1>2, <1>3, <1>4 DEF ObjectInv

LEMMA DatagramObject ==
    ASSUME TypeInv, OrderInv, TrackInv, NEW d \in dgrams
    PROVE  /\ d.obj \in Objects /\ d.obj \in 1..Len(published) /\ published[d.obj].track \in Requests
           /\ Accepted(published[d.obj].track) /\ d.alias = localAlias[published[d.obj].track]
<1>1. d.obj \in Objects /\ published \in Seq([track : Requests, stream : 0..MaxStreams])
  BY DEF TypeInv, DataTypeOK, Datagram
<1>2. d.obj \in 1..Len(published)
  BY DEF OrderInv
<1>3. published[d.obj] \in [track : Requests, stream : 0..MaxStreams]
  BY Zenon, <1>1, <1>2, ElementOfSeq
<1>4. published[d.obj].track \in Requests
  BY <1>3
<1>. QED  BY <1>1, <1>2, <1>4 DEF TrackInv, ObjectInv

LEMMA TargetStays ==
    ASSUME TypeOK, TypeInv, TrackInv, Routed, \A i \in 1..Len(streams) : streams[i].to \subseteq {streams[i].track},
           [DataNext]_allVars, NEW i \in 1..Len(streams')
    PROVE  streams'[i].to \subseteq {streams'[i].track}
<1>0. DataTypeOK
  BY DEF TypeInv
<1>1. CASE \E r \in opening : streams'[i] = NewStream(r)
  BY <1>1 DEF NewStream
<1>2. CASE i \in 1..Len(streams)
  <2>1. streams'[i].track = streams[i].track
    BY <1>2, StreamMoves
  <2>2. CASE streams'[i].to = streams[i].to
    BY <1>2, <2>1, <2>2
  <2>3. CASE HandleUniStream(i)
    <3>1. streams'[i].to = FindByTrackAlias(streams[i].alias)
      BY <1>0, <1>2, <2>3, HandleEffect
    <3>2. streams[i].track \in Requests /\ HeaderInv(i)
      BY <1>0, <1>2, StreamType DEF TrackInv
    <3>3. FindByTrackAlias(streams[i].alias) \subseteq {streams[i].track}
      BY <3>2 DEF Routed, HeaderInv
    <3>. QED  BY <2>1, <3>1, <3>3
  <2>4. streams'[i].to = streams[i].to \/ HandleUniStream(i)
    <3>1. CASE UNCHANGED streams
      BY <3>1
    <3>2. CASE \E r \in Requests : NewSubgroup(r)
      BY <1>0, <1>2, <3>2, NewEffect
    <3>3. ASSUME NEW j \in 1..Len(streams), Changes(j), streams'[j].to = streams[j].to
          PROVE  streams'[i].to = streams[i].to
      BY Zenon, <1>2, <3>3 DEF Changes
    <3>4. ASSUME NEW j \in 1..Len(streams), WriteObject(j) \/ CloseSubgroup(j) \/ AcceptUniStream(j) \/ ReadStream(j)
          PROVE  Changes(j) /\ streams'[j].to = streams[j].to
      BY <1>0, <3>4, WriteEffect, CloseEffect, AcceptEffect, ReadEffect
    <3>5. ASSUME NEW j \in 1..Len(streams), HandleUniStream(j), j # i PROVE streams'[i].to = streams[i].to
      <4>1. Changes(j)
        BY <1>0, <3>5, HandleEffect
      <4>. QED  BY Zenon, <1>2, <3>5, <4>1 DEF Changes
    <3>6. \/ UNCHANGED streams
          \/ \E r \in Requests : NewSubgroup(r)
          \/ \E j \in 1..Len(streams) : WriteObject(j) \/ CloseSubgroup(j) \/ AcceptUniStream(j) \/ ReadStream(j)
          \/ \E j \in 1..Len(streams) : HandleUniStream(j)
      BY Zenon, DataSteps DEF allVars, dataVars, ControlStep, SendDatagram, OpenSubgroup, ReadObject, ReceiveDatagram,
          StopLoop
    <3>. QED  BY Zenon, <3>1, <3>2, <3>3, <3>4, <3>5, <3>6
  <2>. QED  BY <2>2, <2>3, <2>4
<1>. QED  BY <1>1, <1>2, StreamMoves

LEMMA TargetInductive ==
    ASSUME TypeOK, TypeInv, DataTypeOK', OrderInv, TrackInv, TargetInv, Routed, [DataNext]_allVars
    PROVE  TargetInv'
<1>0. DataTypeOK /\ NoMisrouting /\ \A i \in 1..Len(streams) : streams[i].to \subseteq {streams[i].track}
  BY Zenon DEF TypeInv, TargetInv
<1>1. \A i \in 1..Len(streams') : streams'[i].to \subseteq {streams'[i].track}
  BY Zenon, <1>0, TargetStays
<1> SUFFICES NoMisrouting'
  BY Zenon, <1>1 DEF TargetInv
<1>2. CASE UNCHANGED <<buffer, read>>
  <2>1. ASSUME NEW q \in Requests PROVE Of(Received(q)', q, published')
    <3>1. Of(Received(q), q, published) /\ Within(Received(q), published) /\ Extends(published, published')
      BY Zenon, <1>0, PublishedGrows DEF NoMisrouting, Of, OrderInv, ReceivedInv
    <3>2. Received(q)' = Received(q)
      BY Zenon, <1>2 DEF Received
    <3>. QED  BY Zenon, <3>1, <3>2, OfGrown
  <2>. QED  BY Zenon, <2>1 DEF NoMisrouting, Of
<1>3. CASE \E i \in 1..Len(streams) : ReadStream(i)
  <2>1. PICK i \in 1..Len(streams) : ReadStream(i)
    BY <1>3
  <2>2. UNCHANGED <<published, read>>
    BY <2>1 DEF ReadStream
  <2>3. CASE streams[i].sent # <<>> /\ \E r \in streams[i].to : Push(r, Head(streams[i].sent))
    <3>1. PICK r \in streams[i].to : Push(r, Head(streams[i].sent))
      BY <2>3
    <3>2. r \in Requests /\ r = streams[i].track
      BY <1>0, StreamType
    <3>3. Head(streams[i].sent) \in Objects /\ published[Head(streams[i].sent)].track = r
      BY Zenon, <2>3, <3>2, StreamObject
    <3>. QED  BY Zenon, <1>0, <2>2, <3>1, <3>2, <3>3, PushRightly
  <2>. QED  BY <1>0, <1>2, <2>1, <2>2, <2>3, ReadEffect
<1>4. CASE \E d \in dgrams : ReceiveDatagram(d)
  <2>1. PICK d \in dgrams : ReceiveDatagram(d)
    BY <1>4
  <2>2. UNCHANGED <<published, read>>
    BY <2>1 DEF ReceiveDatagram
  <2>3. CASE \E r \in FindByTrackAlias(d.alias) : Push(r, d.obj)
    <3>1. PICK r \in FindByTrackAlias(d.alias) : Push(r, d.obj)
      BY <2>3
    <3>2. d.obj \in Objects /\ r \in Requests /\ r = published[d.obj].track
      BY DatagramObject, AliasType DEF Routed
    <3>. QED  BY Zenon, <1>0, <2>2, <3>1, <3>2, PushRightly
  <2>. QED  BY Zenon, <1>2, <2>1, <2>2, <2>3 DEF ReceiveDatagram
<1>5. CASE \E r \in Requests : ReadObject(r)
  <2>1. PICK r \in Requests : ReadObject(r)
    BY <1>5
  <2>2. UNCHANGED published
    BY <2>1 DEF ReadObject
  <2>3. ASSUME NEW q \in Requests PROVE Of(Received(q)', q, published)
    <3>1. Of(Received(q), q, published)
      BY Zenon, <1>0 DEF NoMisrouting, Of
    <3>2. Len(read[r]) \in Nat
      BY <1>0, ReceivedType, LenProperties
    <3>3. Received(q)' = Received(q) \/ Thinned(Received(q)', Received(q), Len(read[r]))
      BY <1>0, <2>1, ReadReceives
    <3>. QED  BY Zenon, <3>1, <3>2, <3>3, OfThinned
  <2>. QED  BY Zenon, <2>2, <2>3 DEF NoMisrouting, Of
<1>6. \/ UNCHANGED <<buffer, read>>
      \/ \E i \in 1..Len(streams) : ReadStream(i)
      \/ \E d \in dgrams : ReceiveDatagram(d)
      \/ \E r \in Requests : ReadObject(r)
  BY Zenon, DataSteps DEF allVars, dataVars, ControlStep, SendDatagram, OpenSubgroup, NewSubgroup, WriteObject,
      CloseSubgroup, AcceptUniStream, HandleUniStream, StopLoop
<1>. QED  BY <1>2, <1>3, <1>4, <1>5, <1>6

-----------------------------------------------------------------------------
\* Unknown aliases

\* Alias 0 of an accepted track leads to a track, unless its SUBSCRIBE_OK has not
\* been processed.
Reached ==
    \A r \in Requests :
        Accepted(r) => localAlias[r] # 0 \/ NotYetKnown(r) \/ FindByTrackAlias(localAlias[r]) # {}

LEMMA IgnoringStep ==
    ASSUME TypeOK, TypeInv, [DataNext]_allVars, NEW i \in 1..Len(streams),
           streams'[i].state = "ignored", streams[i].state # "ignored"
    PROVE  FindByTrackAlias(streams[i].alias) = {}
<1>0. DataTypeOK
  BY DEF TypeInv
<1>1. UNCHANGED streams => FALSE
  OBVIOUS
<1>2. ASSUME NEW r \in Requests, NewSubgroup(r) PROVE FALSE
  BY <1>0, <1>2, NewEffect
<1>3. ASSUME NEW j \in 1..Len(streams), Changes(j) PROVE j = i
  BY Zenon, <1>3 DEF Changes
<1>4. ASSUME NEW j \in 1..Len(streams), WriteObject(j) \/ CloseSubgroup(j) \/ AcceptUniStream(j) \/ ReadStream(j)
      PROVE  FALSE
  <2>1. /\ Changes(j)
        /\ streams'[j].state = streams[j].state \/ streams'[j].state \in {"accepted", "read", "eof"}
    BY <1>0, <1>4, WriteEffect, CloseEffect, AcceptEffect, ReadEffect
  <2>2. j = i
    BY <1>3, <2>1
  <2>. QED  BY <2>1, <2>2
<1>5. ASSUME NEW j \in 1..Len(streams), HandleUniStream(j) PROVE FindByTrackAlias(streams[i].alias) = {}
  <2>1. /\ Changes(j)
        /\ streams'[j].state = IF FindByTrackAlias(streams[j].alias) = {} THEN "ignored" ELSE "read"
    BY <1>0, <1>5, HandleEffect
  <2>2. j = i
    BY <1>3, <2>1
  <2>. QED  BY <2>1, <2>2
<1>6. \/ UNCHANGED streams
      \/ \E r \in Requests : NewSubgroup(r)
      \/ \E j \in 1..Len(streams) : WriteObject(j) \/ CloseSubgroup(j) \/ AcceptUniStream(j) \/ ReadStream(j)
      \/ \E j \in 1..Len(streams) : HandleUniStream(j)
  BY Zenon, DataSteps DEF allVars, dataVars, ControlStep, SendDatagram, OpenSubgroup, ReadObject, ReceiveDatagram,
      StopLoop
<1>. QED  BY Zenon, <1>1, <1>2, <1>4, <1>5, <1>6

LEMMA EndingStep ==
    ASSUME TypeInv, [DataNext]_allVars, NEW d \in dgrams \ dgrams',
           loop'["datagrams"] = "errUnknownTrackAlias", loop["datagrams"] = "running"
    PROVE  FindByTrackAlias(d.alias) = {}
<1>0. loop \in [Loops -> {"running", "errUnknownTrackAlias", "cancelled"}] /\ "datagrams" \in Loops
  BY DEF TypeInv, DataTypeOK, Loops
<1>1. loop' # loop
  BY <1>0
<1>2. ASSUME NEW l \in Loops, StopLoop(l) PROVE FALSE
  BY <1>0, <1>2 DEF StopLoop
<1>3. ASSUME NEW e \in dgrams, ReceiveDatagram(e) PROVE FindByTrackAlias(d.alias) = {}
  <2>1. e = d /\ FindByTrackAlias(e.alias) = {}
    BY <1>1, <1>3 DEF ReceiveDatagram
  <2>. QED  BY <2>1
<1>4. UNCHANGED loop \/ (\E l \in Loops : StopLoop(l)) \/ (\E e \in dgrams : ReceiveDatagram(e))
  BY Zenon, DataSteps DEF allVars, dataVars, ControlStep, SendDatagram, OpenSubgroup, NewSubgroup, ReadObject,
      WriteObject, CloseSubgroup, AcceptUniStream, HandleUniStream, ReadStream
<1>. QED  BY <1>1, <1>2, <1>3, <1>4

\* A step that ignores a stream or ends the datagram loop takes something that
\* overtook SUBSCRIBE_OK, or has an alias other than 0.
LEMMA UnknownStep ==
    ASSUME TypeOK, TypeInv, OrderInv, TrackInv, Reached, [DataNext]_allVars
    PROVE  /\ \A i \in 1..Len(streams) :
                 streams'[i].state = "ignored" =>
                    streams[i].state = "ignored" \/ streams[i].alias # 0 \/ NotYetKnown(streams[i].track)
           /\ loop'["datagrams"] = "errUnknownTrackAlias" /\ loop["datagrams"] = "running" =>
                 \A d \in dgrams \ dgrams' : d.alias # 0 \/ NotYetKnown(published[d.obj].track)
<1>1. ASSUME NEW i \in 1..Len(streams), streams'[i].state = "ignored", streams[i].state # "ignored"
      PROVE  streams[i].alias # 0 \/ NotYetKnown(streams[i].track)
  <2>1. FindByTrackAlias(streams[i].alias) = {}
    BY Zenon, <1>1, IgnoringStep
  <2>2. streams[i].track \in Requests /\ HeaderInv(i)
    BY StreamType DEF TypeInv, TrackInv
  <2>. QED  BY Zenon, <2>1, <2>2 DEF Reached, HeaderInv
<1>2. ASSUME loop'["datagrams"] = "errUnknownTrackAlias", loop["datagrams"] = "running", NEW d \in dgrams \ dgrams'
      PROVE  d.alias # 0 \/ NotYetKnown(published[d.obj].track)
  <2>1. FindByTrackAlias(d.alias) = {}
    BY Zenon, <1>2, EndingStep
  <2>2. /\ published[d.obj].track \in Requests /\ Accepted(published[d.obj].track)
        /\ d.alias = localAlias[published[d.obj].track]
    BY DatagramObject
  <2>. QED  BY Zenon, <2>1, <2>2 DEF Reached
<1>. QED  BY Zenon, <1>1, <1>2
=============================================================================
