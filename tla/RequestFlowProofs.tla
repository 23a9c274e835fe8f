-------------------------- MODULE RequestFlowProofs --------------------------
(***************************************************************************)
(* Proofs about RequestFlow for every value of the constants: type         *)
(* correctness; that a peer within its grant is never refused and never    *)
(* receives a smaller grant; and that a requester of tracks is not starved *)
(* when every initial limit is at least 3.                                 *)
(***************************************************************************)
EXTENDS RequestFlow, SequenceTheorems, TLAPS

GrantTypes == SetupTypes \cup {"MAX_REQUEST_ID"}

PhasesAre(c, s) == phase["client"] = c /\ phase["server"] = s

\* The joint progress of the two handshakes.
PhaseInv ==
    \/ /\ PhasesAre("start", "handshake")
       /\ ctl["server"] = <<>> /\ ctl["client"] = <<>>
       /\ gen["server"].max = 0 /\ gen["client"].max = 0
    \/ /\ PhasesAre("handshake", "handshake")
       /\ ctl["server"] # <<>> /\ Len(ctl["server"]) = 1
       /\ ctl["server"][1] = Message("CLIENT_SETUP", InitialMax["client"])
       /\ ctl["client"] = <<>>
       /\ gen["server"].max = 0 /\ gen["client"].max = 0
    \/ /\ PhasesAre("handshake", "replying")
       /\ ctl["server"] = <<>> /\ ctl["client"] = <<>>
       /\ gen["server"].max = InitialMax["client"] /\ gen["client"].max = 0
    \/ /\ PhasesAre("handshake", "open")
       /\ ctl["server"] = <<>> /\ ctl["client"] # <<>>
       /\ ctl["client"][1] = Message("SERVER_SETUP", ServerSetupMax)
       /\ gen["server"].max = InitialMax["client"] /\ gen["client"].max = 0
    \/ PhasesAre("open", "open")

\* Before a peer's Run returns it has made no request; until both have
\* returned nobody has raised a limit, and SETUP is the first message if any.
QuietInv ==
    /\ \A p \in Peers : phase[p] # "open" => unsent[p] = {}
    /\ ~PhasesAre("open", "open") =>
          /\ localMax = InitialMax
          /\ \A p \in Peers : \A i \in 1..Len(ctl[p]) : i > 1 => ctl[p][i].type \notin GrantTypes
    /\ PhasesAre("open", "open") =>
          \A p \in Peers : \A i \in 1..Len(ctl[p]) : ctl[p][i].type \notin SetupTypes

\* Every grant, held or under way to p, is within the limit p's peer enforces;
\* grants under way are increasing and above the one held.
GrantInv ==
    \A p \in Peers :
        /\ gen[p].max <= localMax[Other(p)]
        /\ \A i \in 1..Len(ctl[p]) : ctl[p][i].type \in GrantTypes =>
              ctl[p][i].v <= localMax[Other(p)]
        /\ \A i \in 1..Len(ctl[p]) : ctl[p][i].type = "MAX_REQUEST_ID" =>
              ctl[p][i].v > gen[p].max
        /\ \A i, j \in 1..Len(ctl[p]) :
              /\ ctl[p][i].type \in GrantTypes /\ ctl[p][j].type \in GrantTypes /\ i < j
              => ctl[p][i].v < ctl[p][j].v

\* Request IDs taken and under way are within the grant and within the limit.
RequestInv ==
    \A p \in Peers :
        /\ \A id \in unsent[p] : id < gen[p].max
        /\ \A i \in 1..Len(ctl[p]) : ctl[p][i].type \in TrackKinds =>
              ctl[p][i].v < localMax[p]

FlowInv == TypeOK /\ PhaseInv /\ QuietInv /\ GrantInv /\ RequestInv

\* For starvation: once both peers are open the newest grant is held or under
\* way, and the last ID taken is unsent, under way or below half the limit.
GrantUnderWay(p, v) ==
    \E i \in 1..Len(ctl[p]) : ctl[p][i].type = "MAX_REQUEST_ID" /\ ctl[p][i].v = v
RequestUnderWay(p, v) ==
    \E i \in 1..Len(ctl[p]) : ctl[p][i].type \in TrackKinds /\ ctl[p][i].v = v

GrantSupply(p) ==
    gen[p].max = localMax[Other(p)] \/ GrantUnderWay(p, localMax[Other(p)])

IDSupply(p) ==
    \/ gen[p].id = Perspective(p)
    \/ /\ gen[p].id >= 2
       /\ \/ gen[p].id - 2 \in unsent[p]
          \/ RequestUnderWay(Other(p), gen[p].id - 2)
          \/ gen[p].id - 2 < localMax[Other(p)] \div 2

SupplyInv ==
    /\ \A p \in Peers : localMax[p] >= 3
    /\ \A p \in Peers : \A i \in 1..Len(ctl[p]) : ctl[p][i].type # "OTHER"
    /\ PhasesAre("open", "open") => \A p \in Peers : GrantSupply(p)
    /\ \A p \in Peers : IDSupply(p)

-----------------------------------------------------------------------------
\* What the channel operators do to the two control streams.

LEMMA PeerFacts ==
    \A p \in Peers : Other(p) \in Peers /\ Other(p) # p /\ Other(Other(p)) = p
                     /\ \A q \in Peers : q = p \/ q = Other(p)
BY DEF Peers, Other

LEMMA ReadFacts ==
    ASSUME TypeOK, NEW p \in Peers, ctl[p] # <<>>, Read(p)
    PROVE  /\ ctl' \in [Peers -> Seq(Msg)]
           /\ ctl'[Other(p)] = ctl[Other(p)]
           /\ Len(ctl[p]) \in Nat \ {0} /\ Len(ctl'[p]) = Len(ctl[p]) - 1
           /\ \A i \in 1..Len(ctl'[p]) : i + 1 \in 1..Len(ctl[p]) /\ ctl'[p][i] = ctl[p][i + 1]
           /\ Head(ctl[p]) = ctl[p][1] /\ Head(ctl[p]) \in Msg
<1>1. ctl[p] \in Seq(Msg) /\ ctl \in [Peers -> Seq(Msg)] /\ ctl'[p] = Tail(ctl[p])
      /\ ctl'[Other(p)] = ctl[Other(p)]
  BY PeerFacts DEF TypeOK, Read
<1>2. Tail(ctl[p]) \in Seq(Msg) /\ Len(ctl[p]) \in Nat \ {0}
      /\ Len(Tail(ctl[p])) = Len(ctl[p]) - 1 /\ Head(ctl[p]) = ctl[p][1] /\ Head(ctl[p]) \in Msg
  BY <1>1, HeadTailProperties, LenProperties, EmptySeq
<1>3. \A i \in 1..Len(Tail(ctl[p])) : i + 1 \in 1..Len(ctl[p]) /\ Tail(ctl[p])[i] = ctl[p][i + 1]
  BY <1>1, <1>2, HeadTailProperties
<1>4. ctl' \in [Peers -> Seq(Msg)]
  BY <1>1, <1>2 DEF Read
<1>. QED  BY <1>1, <1>2, <1>3, <1>4

LEMMA WriteFacts ==
    ASSUME TypeOK, NEW p \in Peers, NEW m \in Msg, Write(p, m)
    PROVE  LET q == Other(p) IN
           /\ ctl' \in [Peers -> Seq(Msg)]
           /\ ctl'[p] = ctl[p]
           /\ Len(ctl[q]) \in Nat /\ Len(ctl'[q]) = Len(ctl[q]) + 1
           /\ \A i \in 1..Len(ctl[q]) : ctl'[q][i] = ctl[q][i]
           /\ ctl'[q][Len(ctl[q]) + 1] = m
<1>1. ctl[Other(p)] \in Seq(Msg) /\ ctl'[Other(p)] = Append(ctl[Other(p)], m) /\ ctl'[p] = ctl[p]
  BY PeerFacts DEF TypeOK, Write
<1>2. ctl' \in [Peers -> Seq(Msg)]
  BY <1>1, AppendProperties DEF TypeOK, Write
<1>. QED  BY <1>1, <1>2, AppendProperties, LenProperties

LEMMA ReadAndWriteFacts ==
    ASSUME TypeOK, NEW p \in Peers, ctl[p] # <<>>, NEW m \in Msg, ReadAndWrite(p, m)
    PROVE  LET q == Other(p) IN
           /\ ctl' \in [Peers -> Seq(Msg)]
           /\ Len(ctl[p]) \in Nat \ {0} /\ Len(ctl'[p]) = Len(ctl[p]) - 1
           /\ \A i \in 1..Len(ctl'[p]) : i + 1 \in 1..Len(ctl[p]) /\ ctl'[p][i] = ctl[p][i + 1]
           /\ Head(ctl[p]) = ctl[p][1] /\ Head(ctl[p]) \in Msg
           /\ Len(ctl[q]) \in Nat /\ Len(ctl'[q]) = Len(ctl[q]) + 1
           /\ \A i \in 1..Len(ctl[q]) : ctl'[q][i] = ctl[q][i]
           /\ ctl'[q][Len(ctl[q]) + 1] = m
<1>1. /\ ctl[p] \in Seq(Msg) /\ ctl[Other(p)] \in Seq(Msg)
      /\ ctl'[p] = Tail(ctl[p]) /\ ctl'[Other(p)] = Append(ctl[Other(p)], m)
  BY PeerFacts DEF TypeOK, ReadAndWrite
<1>2. Tail(ctl[p]) \in Seq(Msg) /\ Len(ctl[p]) \in Nat \ {0}
      /\ Len(Tail(ctl[p])) = Len(ctl[p]) - 1 /\ Head(ctl[p]) = ctl[p][1] /\ Head(ctl[p]) \in Msg
  BY <1>1, HeadTailProperties, LenProperties, EmptySeq
<1>3. \A i \in 1..Len(Tail(ctl[p])) : i + 1 \in 1..Len(ctl[p]) /\ Tail(ctl[p])[i] = ctl[p][i + 1]
  BY <1>1, <1>2, HeadTailProperties
<1>4. ctl' \in [Peers -> Seq(Msg)]
  BY Zenon, <1>1, <1>2, AppendProperties DEF TypeOK, ReadAndWrite
<1>. QED  BY <1>1, <1>2, <1>3, <1>4, AppendProperties, LenProperties

-----------------------------------------------------------------------------
\* Order on the naturals, for the steps that chain two comparisons.
LEMMA Chain ==
    \A a, b, c \in Nat : (a < b /\ b <= c => a < c) /\ (a <= b /\ b < c => a < c /\ a <= c)
                        /\ (a < b => a <= b) /\ (a < b => b > a)
OBVIOUS

LEMMA MessageType ==
    ASSUME NEW t \in MsgTypes, NEW v \in Nat
    PROVE  Message(t, v) \in Msg /\ Message(t, v).type = t /\ Message(t, v).v = v
BY DEF Message, Msg

LEMMA GeneratorType ==
    ASSUME NEW g \in Generator, NEW v \in Nat
    PROVE  /\ TakeID(g) \in Generator /\ TakeID(g).id = g.id + 2 /\ TakeID(g).max = g.max
           /\ SetMax(g, v) \in Generator /\ SetMax(g, v).id = g.id /\ SetMax(g, v).max = v
BY DEF Generator, TakeID, SetMax

LEMMA TypeInductive == TypeOK /\ [Next]_vars => TypeOK'
<1> SUFFICES ASSUME TypeOK, [Next]_vars PROVE TypeOK'
  OBVIOUS
<1> USE ConstantsType
<1>1. CASE SendClientSetup
  <2>1. "client" \in Peers /\ localMax["client"] \in Nat /\ "CLIENT_SETUP" \in MsgTypes
    BY DEF TypeOK, Peers, MsgTypes, SetupTypes
  <2>2. ctl' \in [Peers -> Seq(Msg)]
    BY <1>1, <2>1, MessageType, WriteFacts DEF SendClientSetup
  <2>. QED  BY Zenon, <1>1, <2>2 DEF SendClientSetup, TypeOK, Phases
<1>2. CASE OnClientSetup
  <2>1. "server" \in Peers /\ ctl["server"] # <<>> /\ Read("server")
    BY <1>2 DEF OnClientSetup, Peers
  <2>2. ctl' \in [Peers -> Seq(Msg)] /\ Head(ctl["server"]).v \in Nat
    BY Zenon, <2>1, ReadFacts DEF Msg
  <2>3. gen' \in [Peers -> Generator]
    <3>1. gen["server"] \in Generator
      BY <2>1 DEF TypeOK
    <3>2. SetMax(gen["server"], Head(ctl["server"]).v) \in Generator
      BY Zenon, <2>2, <3>1, GeneratorType
    <3>. QED  BY Zenon, <1>2, <3>1, <3>2 DEF OnClientSetup, TypeOK
  <2>. QED  BY Zenon, <1>2, <2>2, <2>3 DEF OnClientSetup, TypeOK, Phases
<1>3. CASE SendServerSetup
  <2>1. "server" \in Peers /\ ServerSetupMax \in Nat /\ "SERVER_SETUP" \in MsgTypes
    BY DEF Peers, MsgTypes, SetupTypes
  <2>2. ctl' \in [Peers -> Seq(Msg)]
    BY <1>3, <2>1, MessageType, WriteFacts DEF SendServerSetup
  <2>. QED  BY Zenon, <1>3, <2>2 DEF SendServerSetup, TypeOK, Phases
<1>4. CASE OnServerSetup
  <2>1. "client" \in Peers /\ ctl["client"] # <<>> /\ Read("client")
    BY <1>4 DEF OnServerSetup, Peers
  <2>2. ctl' \in [Peers -> Seq(Msg)] /\ Head(ctl["client"]).v \in Nat
    BY Zenon, <2>1, ReadFacts DEF Msg
  <2>3. gen' \in [Peers -> Generator]
    <3>1. gen["client"] \in Generator
      BY <2>1 DEF TypeOK
    <3>2. SetMax(gen["client"], Head(ctl["client"]).v) \in Generator
      BY Zenon, <2>2, <3>1, GeneratorType
    <3>. QED  BY Zenon, <1>4, <3>1, <3>2 DEF OnServerSetup, TypeOK
  <2>. QED  BY Zenon, <1>4, <2>2, <2>3 DEF OnServerSetup, TypeOK, Phases
<1>5. ASSUME NEW p \in Peers, TakeRequestID(p) PROVE TypeOK'
  <2>1. gen[p] \in Generator /\ gen[p].id \in Nat
    BY DEF TypeOK, Generator
  <2>2. gen' \in [Peers -> Generator]
    BY <1>5, <2>1, GeneratorType DEF TakeRequestID, TypeOK
  <2>. QED  BY <1>5, <2>1, <2>2 DEF TakeRequestID, TypeOK
<1>6. ASSUME NEW p \in Peers, RequestBlocked(p) PROVE TypeOK'
  <2>1. gen[p].max \in Nat /\ "REQUESTS_BLOCKED" \in MsgTypes
    BY DEF TypeOK, Generator, MsgTypes
  <2>2. ctl' \in [Peers -> Seq(Msg)]
    BY <1>6, <2>1, MessageType, WriteFacts DEF RequestBlocked
  <2>. QED  BY <1>6, <2>2 DEF RequestBlocked, TypeOK
<1>7. ASSUME NEW p \in Peers, OnTrackRequest(p) PROVE TypeOK'
  <2> DEFINE m == Head(ctl[p])
  <2>1. ctl[p] # <<>> /\ UNCHANGED <<gen, unsent>>
    BY <1>7 DEF OnTrackRequest
  <2>2. m \in Msg /\ m.v \in Nat /\ localMax[p] \in Nat /\ RaisedLimit(localMax[p]) \in Nat
    <3>1. ctl[p] \in Seq(Msg) /\ localMax[p] \in Nat
      BY DEF TypeOK
    <3>2. m \in Msg
      BY <2>1, <3>1, HeadTailProperties
    <3>. QED  BY <3>1, <3>2 DEF Msg, RaisedLimit
  <2>3. "MAX_REQUEST_ID" \in MsgTypes /\ "TOO_MANY_REQUESTS" \in MsgTypes
    BY DEF MsgTypes
  <2>4. CASE OverLimit(m.v, localMax[p])
    <3>1. RefuseOverLimit(p, m)
      BY <1>7, <2>4 DEF OnTrackRequest
    <3>2. ctl' \in [Peers -> Seq(Msg)]
      BY <2>1, <2>2, <2>3, <3>1, MessageType, ReadFacts, ReadAndWriteFacts DEF RefuseOverLimit
    <3>. QED  BY Zenon, <2>1, <3>1, <3>2 DEF RefuseOverLimit, TypeOK, Phases
  <2>5. CASE ~OverLimit(m.v, localMax[p])
    <3>1. AddLocalTrack(p, m.v)
      BY <1>7, <2>5 DEF OnTrackRequest
    <3>2. ctl' \in [Peers -> Seq(Msg)]
      BY <2>1, <2>2, <2>3, <3>1, MessageType, ReadFacts, ReadAndWriteFacts DEF AddLocalTrack
    <3>3. localMax' \in [Peers -> Nat] /\ phase' = phase
      BY Zenon, <2>2, <3>1 DEF AddLocalTrack, TypeOK
    <3>. QED  BY <2>1, <3>2, <3>3 DEF TypeOK
  <2>. QED  BY <2>4, <2>5
<1>8. ASSUME NEW p \in Peers, OnMaxRequestID(p) PROVE TypeOK'
  <2>1. ctl[p] # <<>> /\ Read(p)
    BY <1>8 DEF OnMaxRequestID, Received
  <2>2. ctl' \in [Peers -> Seq(Msg)] /\ Head(ctl[p]).v \in Nat
    BY Zenon, <2>1, ReadFacts DEF Msg
  <2>3. gen' \in [Peers -> Generator]
    <3>1. gen[p] \in Generator
      BY DEF TypeOK
    <3>2. SetMax(gen[p], Head(ctl[p]).v) \in Generator
      BY Zenon, <2>2, <3>1, GeneratorType
    <3>. QED  BY Zenon, <1>8, <3>2 DEF OnMaxRequestID, TypeOK
  <2>. QED  BY Zenon, <1>8, <2>2, <2>3 DEF OnMaxRequestID, TypeOK, Phases
<1>9. ASSUME NEW p \in Peers, OnOtherMessage(p) PROVE TypeOK'
  <2>1. ctl' \in [Peers -> Seq(Msg)]
    BY <1>9, ReadFacts DEF OnOtherMessage
  <2>. QED  BY <1>9, <2>1 DEF OnOtherMessage, TypeOK
<1>10. ASSUME NEW p \in Peers, NEW id \in unsent[p], NEW kind \in Kinds, WriteRequest(p, id, kind)
       PROVE  TypeOK'
  <2>1. id \in Nat /\ kind \in MsgTypes
    BY DEF TypeOK, MsgTypes
  <2>2. ctl' \in [Peers -> Seq(Msg)]
    BY <1>10, <2>1, MessageType, WriteFacts DEF WriteRequest
  <2>. QED  BY Zenon, <1>10, <2>2 DEF WriteRequest, TypeOK
<1>11. CASE UNCHANGED vars
  BY <1>11 DEF vars, TypeOK
<1>. QED
  BY <1>1, <1>2, <1>3, <1>4, <1>5, <1>6, <1>7, <1>8, <1>9, <1>10, <1>11
  DEF Next, Handshake, ControlReader

\* The state of the two sessions stays well typed under every interleaving of
\* handshake, requests and grants (RequestFlow!TypeOK).
THEOREM Typing == Spec => []TypeOK
<1>1. Init => TypeOK
  BY ConstantsType, EmptySeq DEF Init, TypeOK, Phases, NewGenerator, Generator, Perspective
<1>. QED  BY <1>1, TypeInductive, PTL DEF Spec

-----------------------------------------------------------------------------
\* Safety of the grants, when SERVER_SETUP grants no more than the server's
\* own limit.

\* Only sessions whose handshake is over read anything but SETUP.
LEMMA OpenReader ==
    ASSUME PhaseInv, NEW p \in Peers, phase[p] = "open", ctl[p] # <<>>,
           p = "server" \/ Head(ctl[p]).type \notin SetupTypes
    PROVE  PhasesAre("open", "open")
BY DEF PhaseInv, PhasesAre, Peers

LEMMA FlowInit == ServerSetupMax <= InitialMax["server"] /\ Init => FlowInv
<1> SUFFICES ASSUME ServerSetupMax <= InitialMax["server"], Init PROVE FlowInv
  OBVIOUS
<1>1. TypeOK
  BY ConstantsType, EmptySeq DEF Init, TypeOK, Phases, NewGenerator, Generator, Perspective
<1>2. \A p \in Peers : ctl[p] = <<>> /\ Len(ctl[p]) = 0 /\ unsent[p] = {} /\ gen[p].max = 0
  BY EmptySeq DEF Init, NewGenerator
<1>3. PhaseInv /\ QuietInv
  BY <1>2 DEF Init, PhaseInv, QuietInv, PhasesAre, Peers
<1>4. GrantInv /\ RequestInv
  BY <1>1, <1>2, PeerFacts DEF GrantInv, RequestInv, TypeOK
<1>. QED  BY <1>1, <1>3, <1>4 DEF FlowInv

LEMMA FlowHandshake ==
    ASSUME ServerSetupMax <= InitialMax["server"], FlowInv, Handshake, TypeOK'
    PROVE  PhaseInv' /\ QuietInv' /\ GrantInv' /\ RequestInv'
<1> USE ConstantsType DEF FlowInv
<1>0. "client" \in Peers /\ "server" \in Peers /\ Other("client") = "server"
      /\ Other("server") = "client" /\ \A p \in Peers : p = "client" \/ p = "server"
  BY DEF Peers, Other
<1>1. CASE SendClientSetup
  <2> DEFINE m == Message("CLIENT_SETUP", InitialMax["client"])
  <2>1. PhasesAre("start", "handshake") /\ ctl["server"] = <<>> /\ ctl["client"] = <<>>
        /\ localMax = InitialMax /\ gen["server"].max = 0 /\ gen["client"].max = 0
    BY <1>1 DEF SendClientSetup, PhaseInv, QuietInv, PhasesAre
  <2>2. m \in Msg /\ m.type = "CLIENT_SETUP" /\ m.v = InitialMax["client"]
    BY <1>0, MessageType DEF MsgTypes, SetupTypes
  <2>3. /\ Len(ctl["server"]') = 1 /\ ctl["server"]'[1] = m /\ ctl["client"]' = <<>> /\ ctl["server"]' # <<>>
        /\ Len(ctl["client"]') = 0 /\ PhasesAre("handshake", "handshake")'
    <3>1. ctl["server"]' = Append(<<>>, m) /\ ctl["client"]' = <<>> /\ PhasesAre("handshake", "handshake")'
      BY Zenon, <1>0, <1>1, <2>1 DEF SendClientSetup, Write, TypeOK, PhasesAre
    <3>2. <<>> \in Seq(Msg) /\ Len(<<>>) = 0
      BY EmptySeq
    <3>3. Len(Append(<<>>, m)) = 1 /\ Append(<<>>, m)[1] = m /\ Append(<<>>, m) # <<>>
      <4> HIDE DEF m
      <4>. QED  BY <2>2, <3>2, AppendProperties
    <3>. QED  BY <3>1, <3>2, <3>3
  <2>4. PhaseInv' /\ QuietInv'
    <3>1. UNCHANGED <<gen, localMax, unsent>>
      BY Zenon, <1>1 DEF SendClientSetup
    <3>2. PhaseInv'
      BY <1>0, <2>1, <2>3, <3>1 DEF PhaseInv
    <3>3. \A p \in Peers : \A i \in 1..Len(ctl[p]') : ~(i > 1)
      <4>1. \A n \in {0, 1} : \A i \in 1..n : ~(i > 1)
        OBVIOUS
      <4>2. \A p \in Peers : Len(ctl[p]') \in {0, 1}
        BY Zenon, <1>0, <2>3
      <4>. QED  BY Zenon, <4>1, <4>2
    <3>4. \A p \in Peers : phase[p]' # "open" => unsent[p]' = {}
      BY <1>0, <2>1, <2>3, <3>1 DEF QuietInv, PhasesAre
    <3>5. ~PhasesAre("open", "open")'
      BY <2>3 DEF PhasesAre
    <3>. QED  BY Zenon, <2>1, <3>1, <3>2, <3>3, <3>4, <3>5 DEF QuietInv
  <2>5. GrantInv' /\ RequestInv'
    <3>1. \A p \in Peers : \A i \in 1..Len(ctl[p]') : p = "server" /\ i = 1 /\ ctl[p]'[i] = m
      <4>1. \A i \in 1..Len(ctl["server"]') : i = 1 /\ ctl["server"]'[i] = m
        BY <2>3
      <4>2. \A i \in 1..Len(ctl["client"]') : FALSE
        BY <2>3
      <4>. QED  BY <1>0, <4>1, <4>2
    <3>2. UNCHANGED <<gen, localMax, unsent>>
      BY <1>1 DEF SendClientSetup
    <3>3. GrantInv'
      BY <1>0, <2>1, <2>2, <3>1, <3>2 DEF GrantInv
    <3>4. RequestInv'
      BY <2>2, <3>1, <3>2 DEF RequestInv, TrackKinds
    <3>. QED  BY <3>3, <3>4
  <2>. QED  BY <2>4, <2>5
<1>2. CASE OnClientSetup
  <2>1. PhasesAre("handshake", "handshake") /\ ctl["client"] = <<>>
        /\ ctl["server"] # <<>> /\ Len(ctl["server"]) = 1
        /\ ctl["server"][1] = Message("CLIENT_SETUP", InitialMax["client"])
        /\ localMax = InitialMax /\ gen["server"].max = 0 /\ gen["client"].max = 0
    BY <1>2 DEF OnClientSetup, PhaseInv, QuietInv, PhasesAre
  <2>2. /\ ctl["server"]' = <<>> /\ ctl["client"]' = <<>>
        /\ Len(ctl["server"]') = 0 /\ Len(ctl["client"]') = 0
        /\ Head(ctl["server"]).type = "CLIENT_SETUP" /\ Head(ctl["server"]).v = InitialMax["client"]
    <3>1. ctl["server"]' = Tail(ctl["server"]) /\ ctl["client"]' = <<>> /\ ctl["server"] \in Seq(Msg)
      BY <1>0, <1>2, <2>1 DEF OnClientSetup, Read, TypeOK
    <3>2. Tail(ctl["server"]) = <<>> /\ Head(ctl["server"]) = ctl["server"][1]
      <4>1. Tail(ctl["server"]) \in Seq(Msg) /\ Len(Tail(ctl["server"])) = 0
            /\ Head(ctl["server"]) = ctl["server"][1]
        BY <2>1, <3>1, HeadTailProperties
      <4>. QED  BY Zenon, <4>1, EmptySeq
    <3>. QED  BY <2>1, <3>1, <3>2, EmptySeq DEF Message
  <2>3. Received("server", "CLIENT_SETUP") /\ SetMaxOK(gen["server"], InitialMax["client"])
    BY <1>0, <2>1, <2>2 DEF Received, SetMaxOK
  <2>4. PhasesAre("handshake", "replying")'
    BY <1>0, <1>2, <2>1, <2>2, <2>3 DEF OnClientSetup, TypeOK, PhasesAre
  <2>5. gen["server"]'.max = InitialMax["client"] /\ gen["client"]' = gen["client"]
    BY <1>0, <1>2, <2>1, <2>2, <2>3 DEF OnClientSetup, TypeOK, SetMax
  <2>6. PhaseInv' /\ QuietInv'
    BY ZenonT(40), <1>0, <1>2, <2>1, <2>2, <2>4, <2>5 DEF OnClientSetup, PhaseInv, QuietInv, PhasesAre
  <2>7. GrantInv' /\ RequestInv'
    <3>1. \A p \in Peers : \A i \in 1..Len(ctl[p]') : FALSE
      BY <1>0, <2>2
    <3>2. UNCHANGED localMax /\ UNCHANGED unsent
      BY Zenon, <1>2 DEF OnClientSetup
    <3>3. \A p \in Peers : unsent[p] = {}
      BY <1>0, <2>1 DEF QuietInv, PhasesAre
    <3>4. \A p \in Peers : gen[p]'.max <= localMax[Other(p)]'
      BY <1>0, <2>1, <2>5, <3>2
    <3>5. GrantInv'
      BY Zenon, <3>1, <3>4 DEF GrantInv
    <3>6. RequestInv'
      BY Zenon, <3>1, <3>2, <3>3 DEF RequestInv
    <3>. QED  BY <3>5, <3>6
  <2>. QED  BY <2>6, <2>7
<1>3. CASE SendServerSetup
  <2> DEFINE m == Message("SERVER_SETUP", ServerSetupMax)
  <2>1. PhasesAre("handshake", "replying") /\ ctl["server"] = <<>> /\ ctl["client"] = <<>>
        /\ localMax = InitialMax /\ gen["server"].max = InitialMax["client"] /\ gen["client"].max = 0
    BY <1>3 DEF SendServerSetup, PhaseInv, QuietInv, PhasesAre
  <2>2. m \in Msg /\ m.type = "SERVER_SETUP" /\ m.v = ServerSetupMax
    BY <1>0, MessageType DEF MsgTypes, SetupTypes
  <2>3. /\ Len(ctl["client"]') = 1 /\ ctl["client"]'[1] = m /\ ctl["server"]' = <<>> /\ ctl["client"]' # <<>>
        /\ Len(ctl["server"]') = 0 /\ PhasesAre("handshake", "open")'
    <3>1. ctl["client"]' = Append(<<>>, m) /\ ctl["server"]' = <<>> /\ PhasesAre("handshake", "open")'
      BY Zenon, <1>0, <1>3, <2>1 DEF SendServerSetup, Write, TypeOK, PhasesAre
    <3>2. <<>> \in Seq(Msg) /\ Len(<<>>) = 0
      BY EmptySeq
    <3>3. Len(Append(<<>>, m)) = 1 /\ Append(<<>>, m)[1] = m /\ Append(<<>>, m) # <<>>
      <4> HIDE DEF m
      <4>. QED  BY <2>2, <3>2, AppendProperties
    <3>. QED  BY <3>1, <3>2, <3>3
  <2>4. PhaseInv' /\ QuietInv'
    <3>1. UNCHANGED <<gen, localMax, unsent>>
      BY Zenon, <1>3 DEF SendServerSetup
    <3>2. PhaseInv'
      BY <1>0, <2>1, <2>3, <3>1 DEF PhaseInv
    <3>3. \A p \in Peers : \A i \in 1..Len(ctl[p]') : ~(i > 1)
      <4>1. \A n \in {0, 1} : \A i \in 1..n : ~(i > 1)
        OBVIOUS
      <4>2. \A p \in Peers : Len(ctl[p]') \in {0, 1}
        BY Zenon, <1>0, <2>3
      <4>. QED  BY Zenon, <4>1, <4>2
    <3>4. \A p \in Peers : phase[p]' # "open" => unsent[p]' = {}
      BY <1>0, <2>1, <2>3, <3>1 DEF QuietInv, PhasesAre
    <3>5. ~PhasesAre("open", "open")'
      BY <2>3 DEF PhasesAre
    <3>. QED  BY Zenon, <2>1, <3>1, <3>2, <3>3, <3>4, <3>5 DEF QuietInv
  <2>5. GrantInv' /\ RequestInv'
    <3>1. \A p \in Peers : \A i \in 1..Len(ctl[p]') : p = "client" /\ i = 1 /\ ctl[p]'[i] = m
      <4>1. \A i \in 1..Len(ctl["client"]') : i = 1 /\ ctl["client"]'[i] = m
        BY <2>3
      <4>2. \A i \in 1..Len(ctl["server"]') : FALSE
        BY <2>3
      <4>. QED  BY <1>0, <4>1, <4>2
    <3>2. UNCHANGED <<gen, localMax, unsent>>
      BY <1>3 DEF SendServerSetup
    <3>3. GrantInv'
      BY <1>0, <2>1, <2>2, <3>1, <3>2 DEF GrantInv
    <3>4. RequestInv'
      BY <2>2, <3>1, <3>2 DEF RequestInv, TrackKinds
    <3>. QED  BY <3>3, <3>4
  <2>. QED  BY <2>4, <2>5
<1>4. CASE OnServerSetup
  <2>1. PhasesAre("handshake", "open") /\ ctl["server"] = <<>> /\ ctl["client"] # <<>>
        /\ ctl["client"][1] = Message("SERVER_SETUP", ServerSetupMax)
        /\ localMax = InitialMax /\ gen["server"].max = InitialMax["client"] /\ gen["client"].max = 0
    BY <1>4 DEF OnServerSetup, PhaseInv, QuietInv, PhasesAre
  <2>2. Read("client")
    BY <1>4 DEF OnServerSetup
  <2>3. /\ ctl["server"]' = ctl["server"] /\ Len(ctl["server"]) = 0
        /\ Len(ctl["client"]) \in Nat \ {0} /\ Len(ctl["client"]') = Len(ctl["client"]) - 1
        /\ \A i \in 1..Len(ctl["client"]') : /\ i + 1 \in 1..Len(ctl["client"])
                                             /\ ctl["client"]'[i] = ctl["client"][i + 1]
        /\ Head(ctl["client"]) = ctl["client"][1]
    BY <1>0, <2>1, <2>2, ReadFacts, EmptySeq
  <2>4. ctl["client"][1].type = "SERVER_SETUP" /\ ctl["client"][1].v = ServerSetupMax
    BY <2>1 DEF Message
  <2>5. Received("client", "SERVER_SETUP") /\ SetMaxOK(gen["client"], ServerSetupMax)
    BY <1>0, <2>1, <2>3, <2>4 DEF Received, SetMaxOK
  <2>6. gen["client"]'.max = ServerSetupMax /\ gen["server"]' = gen["server"]
        /\ PhasesAre("open", "open")'
    BY <1>0, <1>4, <2>1, <2>3, <2>4, <2>5 DEF OnServerSetup, TypeOK, SetMax, PhasesAre
  <2>7. \A i \in 1..Len(ctl["client"]') : ctl["client"]'[i].type \notin GrantTypes
    <3>1. TAKE i \in 1..Len(ctl["client"]')
    <3>2. i + 1 \in 1..Len(ctl["client"]) /\ 1 \in 1..Len(ctl["client"]) /\ 1 < i + 1
      BY <2>3
    <3>3. ctl["client"][i + 1].type \notin GrantTypes
      BY <1>0, <2>1, <3>2 DEF QuietInv, PhasesAre
    <3>. QED  BY <2>3, <3>3
  <2>8. UNCHANGED <<localMax, unsent>>
    BY <1>4 DEF OnServerSetup
  <2>9. PhaseInv'
    BY <2>6 DEF PhaseInv
  <2>10. QuietInv'
    BY SMTT(40), <1>0, <2>3, <2>6, <2>7, <2>8 DEF QuietInv, PhasesAre, GrantTypes
  <2>11. GrantInv'
    <3>1. \A p \in Peers : \A i \in 1..Len(ctl[p]') : ctl[p]'[i].type \notin GrantTypes
      <4>1. \A i \in 1..Len(ctl["server"]') : FALSE
        BY <2>3
      <4>. QED  BY <1>0, <2>7, <4>1
    <3>2. \A p \in Peers : gen[p]'.max <= localMax[Other(p)]'
      BY <1>0, <2>1, <2>6, <2>8
    <3>. QED  BY <3>1, <3>2 DEF GrantInv, GrantTypes
  <2>12. RequestInv'
    <3>1. unsent["client"] = {} /\ \A i \in 1..Len(ctl["server"]') : FALSE
      BY <1>0, <2>1, <2>3 DEF QuietInv, PhasesAre
    <3>2. \A i \in 1..Len(ctl["client"]') :
             ctl["client"]'[i].type \in TrackKinds => ctl["client"]'[i].v < localMax["client"]
      BY <1>0, <2>3 DEF RequestInv
    <3>3. \A id \in unsent["server"] : id < gen["server"].max
      BY <1>0 DEF RequestInv
    <3>. QED  BY <1>0, <2>6, <2>8, <3>1, <3>2, <3>3 DEF RequestInv
  <2>. QED  BY <2>9, <2>10, <2>11, <2>12
<1>. QED  BY <1>1, <1>2, <1>3, <1>4 DEF Handshake

LEMMA FlowOpen ==
    ASSUME FlowInv, NEW p \in Peers,
           \/ TakeRequestID(p) \/ RequestBlocked(p) \/ ControlReader(p)
           \/ \E id \in unsent[p], kind \in Kinds : WriteRequest(p, id, kind)
    PROVE  PhaseInv' /\ QuietInv' /\ GrantInv' /\ RequestInv'
<1> DEFINE q == Other(p)
<1>t. TypeOK
  BY DEF FlowInv
<1>h. PhaseInv
  BY DEF FlowInv
<1>q. QuietInv
  BY DEF FlowInv
<1>g. GrantInv
  BY DEF FlowInv
<1>r. RequestInv
  BY DEF FlowInv
<1>0. q \in Peers /\ q # p /\ Other(q) = p /\ \A r \in Peers : r = p \/ r = q
  BY PeerFacts
<1>1. phase[p] = "open" \/ phase[p] \in {"start", "handshake", "replying"}
  BY <1>h DEF PhaseInv, PhasesAre, Peers
<1>2. /\ gen[p] \in Generator /\ gen[q] \in Generator /\ gen[p].max \in Nat /\ gen[q].max \in Nat
      /\ gen[p].id \in Nat /\ localMax[p] \in Nat /\ localMax[q] \in Nat
      /\ ctl[p] \in Seq(Msg) /\ ctl[q] \in Seq(Msg) /\ Len(ctl[p]) \in Nat /\ Len(ctl[q]) \in Nat
      /\ \A i \in 1..Len(ctl[p]) : ctl[p][i].v \in Nat
      /\ \A i \in 1..Len(ctl[q]) : ctl[q][i].v \in Nat
  <2>1. gen[p] \in Generator /\ gen[q] \in Generator /\ localMax[p] \in Nat /\ localMax[q] \in Nat
        /\ ctl[p] \in Seq(Msg) /\ ctl[q] \in Seq(Msg)
    BY <1>t, <1>0 DEF TypeOK
  <2>2. \A s \in Seq(Msg) : Len(s) \in Nat /\ \A i \in 1..Len(s) : s[i].v \in Nat
    <3>1. TAKE s \in Seq(Msg)
    <3>2. Len(s) \in Nat /\ \A i \in 1..Len(s) : s[i] \in Msg
      BY ElementOfSeq, LenProperties
    <3>. QED  BY <3>2 DEF Msg
  <2>. QED  BY <2>1, <2>2 DEF Generator
<1>3. CASE TakeRequestID(p)
  <2>1. phase[p] = "open" /\ gen[p].id < gen[p].max /\ UNCHANGED <<phase, localMax, ctl>>
    BY <1>1, <1>2, <1>3 DEF TakeRequestID, RunReturned, IDBlocked
  <2>2. gen'[p].max = gen[p].max /\ gen'[q] = gen[q]
        /\ unsent'[p] = unsent[p] \cup {gen[p].id} /\ unsent'[q] = unsent[q]
    BY <1>t, <1>0, <1>2, <1>3, GeneratorType DEF TakeRequestID, TypeOK
  <2>3. \A r \in Peers : gen'[r].max = gen[r].max
    BY <1>0, <2>2
  <2>4. PhaseInv'
    BY <1>h, <2>1, <2>3 DEF PhaseInv, PhasesAre, Peers
  <2>5. QuietInv'
    BY <1>q, <1>0, <2>1, <2>2 DEF QuietInv, PhasesAre
  <2>6. GrantInv'
    BY <1>g, <2>1, <2>3 DEF GrantInv
  <2>7. RequestInv'
    BY <1>r, <1>0, <2>1, <2>2 DEF RequestInv
  <2>. QED  BY <2>4, <2>5, <2>6, <2>7
<1>4. ASSUME NEW m \in Msg, phase[p] = "open", Write(p, m), UNCHANGED <<phase, gen, localMax>>,
             unsent'[p] \subseteq unsent[p], unsent'[q] = unsent[q],
             m.type \notin GrantTypes, m.type \in TrackKinds => m.v < gen[p].max
      PROVE  PhaseInv' /\ QuietInv' /\ GrantInv' /\ RequestInv'
  <2>1. /\ ctl'[p] = ctl[p] /\ Len(ctl'[q]) = Len(ctl[q]) + 1
        /\ \A i \in 1..Len(ctl[q]) : ctl'[q][i] = ctl[q][i]
        /\ ctl'[q][Len(ctl[q]) + 1] = m
    BY <1>t, <1>4, WriteFacts
  <2>2. \A i \in 1..Len(ctl'[q]) : \/ i \in 1..Len(ctl[q]) /\ ctl'[q][i] = ctl[q][i]
                                   \/ i = Len(ctl[q]) + 1 /\ ctl'[q][i] = m
    BY <1>2, <2>1
  <2>3. PhaseInv'
    <3>1. CASE PhasesAre("open", "open")
      BY <1>h, <1>4, <3>1 DEF PhaseInv, PhasesAre
    <3>2. CASE ~PhasesAre("open", "open")
      <4>1. p = "server" /\ q = "client" /\ PhasesAre("handshake", "open")
            /\ ctl["server"] = <<>> /\ ctl["client"] # <<>>
            /\ ctl["client"][1] = Message("SERVER_SETUP", ServerSetupMax)
            /\ gen["server"].max = InitialMax["client"] /\ gen["client"].max = 0
        BY <1>h, <1>4, <3>2 DEF PhaseInv, PhasesAre, Peers, Other
      <4>2. 1 \in 1..Len(ctl[q]) /\ ctl'[q] # <<>>
        <5>1. Len(ctl[q]) > 0
          BY <1>2, <4>1, EmptySeq
        <5>. QED  BY <1>2, <2>1, <5>1, EmptySeq
      <4>. QED  BY <1>h, <1>4, <2>1, <4>1, <4>2 DEF PhaseInv, PhasesAre
    <3>. QED  BY <3>1, <3>2
  <2>4. QuietInv'
    <3>1. CASE PhasesAre("open", "open")
      BY Zenon, <1>q, <1>0, <1>4, <2>1, <2>2, <3>1 DEF QuietInv, PhasesAre, GrantTypes
    <3>2. CASE ~PhasesAre("open", "open")
      BY Zenon, <1>q, <1>0, <1>4, <2>1, <2>2, <3>2 DEF QuietInv, PhasesAre
    <3>. QED  BY <3>1, <3>2
  <2>5. GrantInv'
    <3>1. \A i \in 1..Len(ctl'[q]) : ctl'[q][i].type \in GrantTypes =>
             i \in 1..Len(ctl[q]) /\ ctl'[q][i] = ctl[q][i]
      BY Zenon, <1>4, <2>2
    <3>2. \A i \in 1..Len(ctl'[q]) : ctl'[q][i].type = "MAX_REQUEST_ID" => ctl'[q][i].type \in GrantTypes
      BY DEF GrantTypes
    <3>. QED  BY ZenonT(40), <1>g, <1>0, <1>4, <2>1, <3>1, <3>2 DEF GrantInv
  <2>6. RequestInv'
    <3>1. gen[p].max <= localMax[q]
      BY <1>g DEF GrantInv
    <3>2. m.v \in Nat
      BY DEF Msg
    <3>3. \A i \in 1..Len(ctl'[q]) : ctl'[q][i].type \in TrackKinds => ctl'[q][i].v < localMax[q]
      <4>1. SUFFICES ASSUME NEW i \in 1..Len(ctl'[q]), ctl'[q][i].type \in TrackKinds
                     PROVE  ctl'[q][i].v < localMax[q]
        OBVIOUS
      <4>2. CASE i \in 1..Len(ctl[q]) /\ ctl'[q][i] = ctl[q][i]
        BY <1>r, <1>0, <4>1, <4>2 DEF RequestInv
      <4>3. CASE ctl'[q][i] = m
        BY <1>2, <1>4, <3>1, <3>2, <4>1, <4>3
      <4>. QED  BY <2>2, <4>2, <4>3
    <3>4. \A r \in Peers : \A id \in unsent'[r] : id < gen[r].max
      <4>1. \A id \in unsent'[p] : id < gen[p].max
        BY <1>r, <1>4 DEF RequestInv
      <4>2. \A id \in unsent'[q] : id < gen[q].max
        BY <1>r, <1>0, <1>4 DEF RequestInv
      <4>. QED  BY <1>0, <4>1, <4>2
    <3>5. \A i \in 1..Len(ctl'[p]) : ctl'[p][i].type \in TrackKinds => ctl'[p][i].v < localMax[p]
      BY <1>r, <2>1 DEF RequestInv
    <3>. QED  BY <1>r, <1>0, <1>4, <3>3, <3>4, <3>5 DEF RequestInv
  <2>. QED  BY <2>3, <2>4, <2>5, <2>6
<1>5. CASE \E id \in unsent[p], kind \in Kinds : WriteRequest(p, id, kind)
  <2>1. PICK id \in unsent[p], kind \in Kinds : WriteRequest(p, id, kind)
    BY <1>5
  <2>2. id \in Nat /\ kind \in RequestKinds /\ kind \in MsgTypes /\ id < gen[p].max
    <3>1. id \in Nat
      BY <1>t DEF TypeOK
    <3>2. kind \in RequestKinds
      BY ConstantsType
    <3>. QED  BY Zenon, <1>r, <3>1, <3>2 DEF MsgTypes, RequestInv
  <2>3. phase[p] = "open"
    BY <1>q, <2>1 DEF QuietInv
  <2>4. Message(kind, id) \in Msg /\ Message(kind, id).type = kind /\ Message(kind, id).v = id
    BY <2>2, MessageType
  <2>5. unsent'[p] \subseteq unsent[p] /\ unsent'[q] = unsent[q]
        /\ Write(p, Message(kind, id)) /\ UNCHANGED <<phase, gen, localMax>>
    BY <1>t, <1>0, <2>1 DEF WriteRequest, TypeOK
  <2>6. kind \notin GrantTypes
    BY <2>2 DEF RequestKinds, TrackKinds, GrantTypes, SetupTypes
  <2>. QED  BY <1>4, <2>2, <2>3, <2>4, <2>5, <2>6
<1>6. CASE RequestBlocked(p)
  <2> DEFINE m == Message("REQUESTS_BLOCKED", gen[p].max)
  <2>1. m \in Msg /\ m.type = "REQUESTS_BLOCKED"
    BY Zenon, <1>2, MessageType DEF MsgTypes
  <2>2. phase[p] = "open" /\ Write(p, m) /\ UNCHANGED <<phase, gen, localMax, unsent>>
    BY <1>1, <1>6 DEF RequestBlocked, RunReturned
  <2>3. "REQUESTS_BLOCKED" \notin GrantTypes /\ "REQUESTS_BLOCKED" \notin TrackKinds
    BY DEF GrantTypes, SetupTypes, TrackKinds
  <2>. QED  BY <1>4, <2>1, <2>2, <2>3
\* A control reader that leaves the limits alone, but may take a grant.
<1>7. ASSUME PhasesAre("open", "open"), ctl[p] # <<>>, Read(p), UNCHANGED <<phase, localMax, unsent>>,
             gen'[q] = gen[q],
             \/ gen'[p].max = gen[p].max
             \/ Head(ctl[p]).type = "MAX_REQUEST_ID" /\ gen'[p].max = Head(ctl[p]).v
      PROVE  PhaseInv' /\ QuietInv' /\ GrantInv' /\ RequestInv'
  <2>1. /\ ctl'[q] = ctl[q] /\ Len(ctl'[p]) = Len(ctl[p]) - 1 /\ 1 \in 1..Len(ctl[p])
        /\ \A i \in 1..Len(ctl'[p]) : i + 1 \in 1..Len(ctl[p]) /\ ctl'[p][i] = ctl[p][i + 1]
        /\ Head(ctl[p]) = ctl[p][1]
    BY <1>t, <1>7, <1>2, ReadFacts
  <2>2. gen'[p].max \in Nat /\ gen[p].max <= gen'[p].max /\ gen'[p].max <= localMax[q]
    <3>1. gen[p].max <= localMax[q]
      BY <1>g DEF GrantInv
    <3>2. ctl[p][1].type = "MAX_REQUEST_ID" => ctl[p][1].v > gen[p].max /\ ctl[p][1].v <= localMax[q]
      BY <1>g, <2>1 DEF GrantInv, GrantTypes
    <3>3. ctl[p][1].v \in Nat
      BY <1>2, <2>1
    <3>. QED  BY <1>2, <1>7, <2>1, <3>1, <3>2, <3>3
  <2>3. PhaseInv'
    BY <1>h, <1>7 DEF PhaseInv, PhasesAre
  <2>4. QuietInv'
    <3>1. \A i \in 1..Len(ctl'[p]) : ctl'[p][i].type \notin SetupTypes
      <4>1. \A i \in 1..Len(ctl[p]) : ctl[p][i].type \notin SetupTypes
        BY Zenon, <1>q, <1>7 DEF QuietInv
      <4>. QED  BY Zenon, <2>1, <4>1
    <3>2. \A i \in 1..Len(ctl'[q]) : ctl'[q][i].type \notin SetupTypes
      BY <1>q, <1>0, <1>7, <2>1 DEF QuietInv
    <3>. QED  BY Zenon, <1>q, <1>0, <1>7, <3>1, <3>2 DEF QuietInv, PhasesAre
  <2>5. GrantInv'
    <3>1. \A i \in 1..Len(ctl'[p]) : ctl'[p][i].type \in GrantTypes => ctl'[p][i].v <= localMax[q]
      BY Zenon, <1>g, <2>1 DEF GrantInv
    <3>2. \A i \in 1..Len(ctl'[p]) : ctl'[p][i].type = "MAX_REQUEST_ID" => ctl'[p][i].v > gen'[p].max
      <4>1. SUFFICES ASSUME NEW i \in 1..Len(ctl'[p]), ctl'[p][i].type = "MAX_REQUEST_ID"
                     PROVE  ctl'[p][i].v > gen'[p].max
        OBVIOUS
      <4>2. i + 1 \in 1..Len(ctl[p]) /\ ctl'[p][i] = ctl[p][i + 1] /\ 1 < i + 1
        BY <2>1
      <4>3. ctl[p][i + 1].v > gen[p].max
        BY <1>g, <4>1, <4>2 DEF GrantInv
      <4>4. ctl[p][1].type = "MAX_REQUEST_ID" => ctl[p][1].v < ctl[p][i + 1].v
        BY <1>g, <2>1, <4>1, <4>2 DEF GrantInv, GrantTypes
      <4>. QED  BY Zenon, <1>2, <1>7, <2>1, <4>2, <4>3, <4>4
    <3>3. \A i, j \in 1..Len(ctl'[p]) :
              ctl'[p][i].type \in GrantTypes /\ ctl'[p][j].type \in GrantTypes /\ i < j
              => ctl'[p][i].v < ctl'[p][j].v
      <4>1. SUFFICES ASSUME NEW i \in 1..Len(ctl'[p]), NEW j \in 1..Len(ctl'[p]), i < j,
                            ctl'[p][i].type \in GrantTypes, ctl'[p][j].type \in GrantTypes
                     PROVE  ctl'[p][i].v < ctl'[p][j].v
        OBVIOUS
      <4>2. i + 1 \in 1..Len(ctl[p]) /\ j + 1 \in 1..Len(ctl[p]) /\ i + 1 < j + 1
            /\ ctl'[p][i] = ctl[p][i + 1] /\ ctl'[p][j] = ctl[p][j + 1]
        BY <2>1, <4>1
      <4>. QED  BY <1>g, <4>1, <4>2 DEF GrantInv
    <3>. QED  BY Zenon, <1>g, <1>0, <1>7, <2>1, <2>2, <3>1, <3>2, <3>3 DEF GrantInv
  <2>6. RequestInv'
    <3>1. \A id \in unsent[p] : id < gen'[p].max
      <4>1. \A id \in unsent[p] : id \in Nat
        BY <1>t DEF TypeOK
      <4>. QED  BY Zenon, <1>r, <1>2, <2>2, <4>1, Chain DEF RequestInv
    <3>2. \A i \in 1..Len(ctl'[p]) : ctl'[p][i].type \in TrackKinds => ctl'[p][i].v < localMax[p]
      BY <1>r, <2>1 DEF RequestInv
    <3>. QED  BY Zenon, <1>r, <1>0, <1>7, <2>1, <3>1, <3>2 DEF RequestInv
  <2>. QED  BY <2>3, <2>4, <2>5, <2>6
<1>8. CASE OnMaxRequestID(p)
  <2>1. ctl[p] # <<>> /\ Head(ctl[p]).type = "MAX_REQUEST_ID" /\ phase[p] = "open" /\ Read(p)
        /\ UNCHANGED <<localMax, unsent>>
    BY <1>8 DEF OnMaxRequestID, Received
  <2>2. PhasesAre("open", "open")
    BY <1>h, <2>1, OpenReader, HeadTailProperties DEF SetupTypes
  <2>3. 1 \in 1..Len(ctl[p]) /\ Head(ctl[p]) = ctl[p][1]
    BY <1>t, <1>2, <2>1, ReadFacts
  <2>4. Head(ctl[p]).v \in Nat /\ SetMaxOK(gen[p], Head(ctl[p]).v)
    BY <1>g, <1>2, <2>1, <2>3 DEF SetMaxOK, GrantInv
  <2>5. gen' = [gen EXCEPT ![p] = SetMax(gen[p], Head(ctl[p]).v)] /\ UNCHANGED phase
    BY <1>8, <2>4 DEF OnMaxRequestID
  <2>6. gen'[q] = gen[q] /\ gen'[p].max = Head(ctl[p]).v
    <3>1. \A v \in Nat : SetMax(gen[p], v).max = v
      BY <1>2, GeneratorType
    <3>2. gen'[q] = gen[q] /\ gen'[p] = SetMax(gen[p], Head(ctl[p]).v)
      BY <1>t, <1>0, <2>5 DEF TypeOK
    <3>. QED  BY Zenon, <2>4, <3>1, <3>2
  <2>. QED  BY Zenon, <1>7, <2>1, <2>2, <2>5, <2>6
<1>9. CASE OnOtherMessage(p)
  <2>1. ctl[p] # <<>> /\ phase[p] = "open" /\ Read(p) /\ UNCHANGED <<phase, gen, localMax, unsent>>
        /\ Head(ctl[p]).type \notin SetupTypes
    BY <1>9 DEF OnOtherMessage, SetupTypes
  <2>2. PhasesAre("open", "open")
    BY <1>h, <2>1, OpenReader
  <2>3. gen'[q] = gen[q] /\ gen'[p].max = gen[p].max /\ UNCHANGED <<phase, localMax, unsent>>
        /\ ctl[p] # <<>> /\ Read(p)
    BY <2>1
  <2>4. \/ gen'[p].max = gen[p].max
        \/ Head(ctl[p]).type = "MAX_REQUEST_ID" /\ gen'[p].max = Head(ctl[p]).v
    BY <2>3
  <2>. QED  BY Zenon, <1>7, <2>2, <2>3, <2>4
<1>10. CASE OnTrackRequest(p)
  <2> DEFINE id == Head(ctl[p]).v
  <2>1. ctl[p] # <<>> /\ phase[p] = "open" /\ Head(ctl[p]).type \in TrackKinds
        /\ UNCHANGED <<gen, unsent>>
    BY <1>10 DEF OnTrackRequest
  <2>2. PhasesAre("open", "open")
    BY <1>h, <2>1, OpenReader DEF SetupTypes, TrackKinds
  <2>3. Head(ctl[p]) = ctl[p][1] /\ 1 \in 1..Len(ctl[p])
    <3>1. Len(ctl[p]) # 0
      BY <1>2, <2>1, EmptySeq
    <3>. QED  BY <1>2, <2>1, <3>1, HeadTailProperties
  <2>4. id \in Nat /\ id < localMax[p]
    BY <1>r, <1>2, <2>1, <2>3 DEF RequestInv
  <2>5. AddLocalTrack(p, id)
    BY <1>2, <1>10, <2>4 DEF OnTrackRequest, OverLimit
  <2>6. CASE ~RaisesLimit(id, localMax[p])
    <3>1. Read(p) /\ UNCHANGED <<phase, localMax>>
      BY <2>5, <2>6 DEF AddLocalTrack
    <3>2. gen'[q] = gen[q] /\ gen'[p].max = gen[p].max /\ UNCHANGED <<phase, localMax, unsent>>
          /\ ctl[p] # <<>> /\ Read(p)
      BY <2>1, <3>1
    <3>3. \/ gen'[p].max = gen[p].max
          \/ Head(ctl[p]).type = "MAX_REQUEST_ID" /\ gen'[p].max = Head(ctl[p]).v
      BY <3>2
    <3>. QED  BY Zenon, <1>7, <2>2, <3>2, <3>3
  <2>7. CASE RaisesLimit(id, localMax[p])
    <3> DEFINE newMax == RaisedLimit(localMax[p])
               m == Message("MAX_REQUEST_ID", newMax)
    <3>1. newMax \in Nat /\ newMax > localMax[p] /\ m \in Msg /\ m.type = "MAX_REQUEST_ID" /\ m.v = newMax
      <4>1. newMax \in Nat /\ newMax > localMax[p]
        BY <1>2, <2>4 DEF RaisedLimit
      <4>. QED  BY Zenon, <4>1, MessageType DEF MsgTypes
    <3>2. localMax'[p] = newMax /\ localMax'[q] = localMax[q] /\ ReadAndWrite(p, m) /\ UNCHANGED phase
      BY <1>t, <1>0, <2>5, <2>7 DEF AddLocalTrack, TypeOK
    <3> HIDE DEF m, newMax
    <3>3. /\ Len(ctl'[p]) = Len(ctl[p]) - 1
          /\ \A i \in 1..Len(ctl'[p]) : i + 1 \in 1..Len(ctl[p]) /\ ctl'[p][i] = ctl[p][i + 1]
          /\ Len(ctl'[q]) = Len(ctl[q]) + 1
          /\ \A i \in 1..Len(ctl[q]) : ctl'[q][i] = ctl[q][i]
          /\ ctl'[q][Len(ctl[q]) + 1] = m
      BY <1>t, <2>1, <3>1, <3>2, ReadAndWriteFacts
    <3>4. \A i \in 1..Len(ctl'[q]) : \/ i \in 1..Len(ctl[q]) /\ ctl'[q][i] = ctl[q][i]
                                     \/ i = Len(ctl[q]) + 1 /\ ctl'[q][i] = m
      BY <1>2, <3>3
    <3>5. PhaseInv'
      BY <1>h, <2>2, <3>2 DEF PhaseInv, PhasesAre
    <3>6. QuietInv'
      <4>1. \A i \in 1..Len(ctl'[p]) : ctl'[p][i].type \notin SetupTypes
        <5>1. \A i \in 1..Len(ctl[p]) : ctl[p][i].type \notin SetupTypes
          BY Zenon, <1>q, <2>2 DEF QuietInv
        <5>. QED  BY Zenon, <3>3, <5>1
      <4>2. \A i \in 1..Len(ctl'[q]) : ctl'[q][i].type \notin SetupTypes
        BY <1>q, <1>0, <2>2, <3>1, <3>4 DEF QuietInv, SetupTypes
      <4>. QED  BY Zenon, <1>q, <1>0, <2>1, <2>2, <3>2, <4>1, <4>2 DEF QuietInv, PhasesAre
    <3>7. GrantInv'
      <4>1. gen[p].max <= localMax[q] /\ gen[q].max <= localMax[p]
        BY <1>g, <1>0 DEF GrantInv
      <4>2. /\ \A i \in 1..Len(ctl'[p]) : ctl'[p][i].type \in GrantTypes => ctl'[p][i].v <= localMax[q]
            /\ \A i \in 1..Len(ctl'[p]) : ctl'[p][i].type = "MAX_REQUEST_ID" => ctl'[p][i].v > gen[p].max
        <5>1. \A i \in 1..Len(ctl[p]) :
                 /\ ctl[p][i].type \in GrantTypes => ctl[p][i].v <= localMax[q]
                 /\ ctl[p][i].type = "MAX_REQUEST_ID" => ctl[p][i].v > gen[p].max
          BY Zenon, <1>g DEF GrantInv
        <5>. QED  BY Zenon, <3>3, <5>1
      <4>3. \A i, j \in 1..Len(ctl'[p]) :
              ctl'[p][i].type \in GrantTypes /\ ctl'[p][j].type \in GrantTypes /\ i < j
              => ctl'[p][i].v < ctl'[p][j].v
        <5>1. SUFFICES ASSUME NEW i \in 1..Len(ctl'[p]), NEW j \in 1..Len(ctl'[p]), i < j,
                              ctl'[p][i].type \in GrantTypes, ctl'[p][j].type \in GrantTypes
                       PROVE  ctl'[p][i].v < ctl'[p][j].v
          OBVIOUS
        <5>2. i + 1 \in 1..Len(ctl[p]) /\ j + 1 \in 1..Len(ctl[p]) /\ i + 1 < j + 1
              /\ ctl'[p][i] = ctl[p][i + 1] /\ ctl'[p][j] = ctl[p][j + 1]
          BY <3>3, <5>1
        <5>. QED  BY <1>g, <5>1, <5>2 DEF GrantInv
      <4>4. \A i \in 1..Len(ctl[q]) : ctl[q][i].type \in GrantTypes =>
               ctl[q][i].v <= localMax[p] /\ ctl[q][i].v < newMax
        <5>1. \A i \in 1..Len(ctl[q]) : ctl[q][i].type \in GrantTypes => ctl[q][i].v <= localMax[p]
          BY Zenon, <1>g, <1>0 DEF GrantInv
        <5>2. localMax[p] < newMax
          BY <1>2, <3>1
        <5>. QED  BY Zenon, <1>2, <3>1, <5>1, <5>2, Chain
      <4>5. /\ \A i \in 1..Len(ctl'[q]) : ctl'[q][i].type \in GrantTypes => ctl'[q][i].v <= newMax
            /\ \A i \in 1..Len(ctl'[q]) : ctl'[q][i].type = "MAX_REQUEST_ID" => ctl'[q][i].v > gen[q].max
        <5>1. SUFFICES ASSUME NEW i \in 1..Len(ctl'[q]), ctl'[q][i].type \in GrantTypes
                       PROVE  /\ ctl'[q][i].v <= newMax
                              /\ ctl'[q][i].type = "MAX_REQUEST_ID" => ctl'[q][i].v > gen[q].max
          BY DEF GrantTypes
        <5>2. CASE i \in 1..Len(ctl[q]) /\ ctl'[q][i] = ctl[q][i]
          <6>1. ctl[q][i].v < newMax /\ ctl[q][i].v \in Nat
            BY <1>2, <4>4, <5>1, <5>2
          <6>2. ctl[q][i].type = "MAX_REQUEST_ID" => ctl[q][i].v > gen[q].max
            BY <1>g, <1>0, <5>2 DEF GrantInv
          <6>. QED  BY <3>1, <5>2, <6>1, <6>2
        <5>3. CASE ctl'[q][i] = m
          BY <1>2, <3>1, <4>1, <5>3
        <5>. QED  BY <3>4, <5>2, <5>3
      <4>6. \A i, j \in 1..Len(ctl'[q]) :
              ctl'[q][i].type \in GrantTypes /\ ctl'[q][j].type \in GrantTypes /\ i < j
              => ctl'[q][i].v < ctl'[q][j].v
        <5>1. SUFFICES ASSUME NEW i \in 1..Len(ctl'[q]), NEW j \in 1..Len(ctl'[q]), i < j,
                              ctl'[q][i].type \in GrantTypes, ctl'[q][j].type \in GrantTypes
                       PROVE  ctl'[q][i].v < ctl'[q][j].v
          OBVIOUS
        <5>2. i \in 1..Len(ctl[q]) /\ ctl'[q][i] = ctl[q][i]
          <6>1. i # Len(ctl[q]) + 1
            BY <1>2, <3>3, <5>1
          <6>. QED  BY Zenon, <3>4, <5>1, <6>1
        <5>3. CASE j \in 1..Len(ctl[q]) /\ ctl'[q][j] = ctl[q][j]
          BY <1>g, <1>0, <5>1, <5>2, <5>3 DEF GrantInv
        <5>4. CASE j = Len(ctl[q]) + 1 /\ ctl'[q][j] = m
          BY <3>1, <4>4, <5>1, <5>2, <5>4
        <5>. QED  BY <3>4, <5>3, <5>4
      <4>7. gen' = gen /\ gen[q].max <= newMax
        <5>1. localMax[p] < newMax
          BY <1>2, <3>1
        <5>. QED  BY Zenon, <1>2, <2>1, <3>1, <4>1, <5>1, Chain
      <4>. QED  BY Zenon, <1>g, <1>0, <3>2, <4>1, <4>2, <4>3, <4>5, <4>6, <4>7 DEF GrantInv
    <3>8. RequestInv'
      <4>1. \A i \in 1..Len(ctl'[p]) : ctl'[p][i].type \in TrackKinds => ctl'[p][i].v < newMax
        <5>1. \A i \in 1..Len(ctl'[p]) : ctl'[p][i].type \in TrackKinds =>
                  ctl'[p][i].v \in Nat /\ ctl'[p][i].v < localMax[p]
          BY Zenon, <1>r, <1>2, <3>3 DEF RequestInv
        <5>2. localMax[p] < newMax /\ localMax[p] <= newMax
          BY <1>2, <3>1
        <5>. QED  BY Zenon, <1>2, <3>1, <5>1, <5>2, Chain
      <4>2. \A i \in 1..Len(ctl'[q]) : ctl'[q][i].type \in TrackKinds => ctl'[q][i].v < localMax[q]
        BY <1>r, <1>0, <3>1, <3>4 DEF RequestInv, TrackKinds
      <4>. QED  BY <1>r, <1>0, <2>1, <3>2, <4>1, <4>2 DEF RequestInv
    <3>. QED  BY <3>5, <3>6, <3>7, <3>8
  <2>. QED  BY <2>6, <2>7
<1>. QED  BY <1>3, <1>5, <1>6, <1>8, <1>9, <1>10 DEF ControlReader

LEMMA FlowInductive ==
    ServerSetupMax <= InitialMax["server"] /\ FlowInv /\ [Next]_vars => FlowInv'
<1> SUFFICES ASSUME ServerSetupMax <= InitialMax["server"], FlowInv, [Next]_vars PROVE FlowInv'
  OBVIOUS
<1>1. TypeOK'
  BY TypeInductive DEF FlowInv
<1>2. CASE Handshake
  BY <1>1, <1>2, FlowHandshake DEF FlowInv
<1>3. CASE Next /\ ~Handshake
  <2>1. PICK p \in Peers :
            \/ TakeRequestID(p) \/ RequestBlocked(p) \/ ControlReader(p)
            \/ \E id \in unsent[p], kind \in Kinds : WriteRequest(p, id, kind)
    BY <1>3 DEF Next
  <2>. QED  BY <1>1, <2>1, FlowOpen DEF FlowInv
<1>4. CASE UNCHANGED vars
  <2>1. PhaseInv' /\ QuietInv'
    BY <1>4 DEF vars, FlowInv, PhaseInv, QuietInv, PhasesAre
  <2>2. GrantInv' /\ RequestInv'
    BY <1>4 DEF vars, FlowInv, GrantInv, RequestInv
  <2>. QED  BY <1>1, <2>1, <2>2 DEF FlowInv
<1>. QED  BY <1>2, <1>3, <1>4

LEMMA FlowIsSafe == FlowInv => SetupComesFirst /\ GrantIsHonoured /\ GrantsOnlyGrow
<1> SUFFICES ASSUME FlowInv PROVE SetupComesFirst /\ GrantIsHonoured /\ GrantsOnlyGrow
  OBVIOUS
<1> USE DEF FlowInv
<1>1. SetupComesFirst
  <2>1. SUFFICES ASSUME NEW p \in Peers, phase[p] \in {"start", "handshake"}, ctl[p] # <<>>
                 PROVE  Head(ctl[p]).type \in SetupTypes
    BY DEF SetupComesFirst
  <2>2. ctl[p] \in Seq(Msg)
    BY DEF TypeOK
  <2>3. Head(ctl[p]) = ctl[p][1]
    BY <2>1, <2>2, HeadTailProperties
  <2>4. ctl[p][1] = Message("CLIENT_SETUP", InitialMax["client"])
        \/ ctl[p][1] = Message("SERVER_SETUP", ServerSetupMax)
    BY <2>1 DEF PhaseInv, PhasesAre, Peers
  <2>. QED  BY <2>3, <2>4 DEF Message, SetupTypes
<1>2. GrantIsHonoured
  <2>1. SUFFICES ASSUME NEW p \in Peers, NEW i \in 1..Len(ctl[p]), ctl[p][i].type \in TrackKinds
                 PROVE  ~(ctl[p][i].v >= localMax[p])
    BY DEF GrantIsHonoured, OverLimit
  <2>2. ctl[p] \in Seq(Msg) /\ localMax[p] \in Nat
    BY DEF TypeOK
  <2>3. ctl[p][i] \in Msg
    BY <2>2, ElementOfSeq
  <2>4. ctl[p][i].v \in Nat /\ ctl[p][i].v < localMax[p]
    BY <2>1, <2>3 DEF Msg, RequestInv
  <2>. QED  BY <2>2, <2>4
<1>3. GrantsOnlyGrow
  <2>1. \A p \in Peers : phase[p] # "dead"
    BY DEF PhaseInv, PhasesAre, Peers
  <2>. QED  BY <2>1 DEF GrantsOnlyGrow, GrantInv, GrantTypes
<1>. QED  BY <1>1, <1>2, <1>3

LEMMA FlowIsInvariant ==
    ASSUME ServerSetupMax <= InitialMax["server"]
    PROVE  Spec => []FlowInv
<1>1. Init => FlowInv
  BY FlowInit
<1>2. FlowInv /\ [Next]_vars => FlowInv'
  BY FlowInductive
<1>. QED  BY <1>1, <1>2, PTL DEF Spec

\* However requests, grants and handshake messages interleave, and whatever the
\* limits are: as long as SERVER_SETUP grants no more than the server's own
\* InitialMaxRequestID, no request is refused by errMaxRequestIDViolated in
\* addLocalTrack.
THEOREM GrantSafety ==
    ASSUME ServerSetupMax <= InitialMax["server"]
    PROVE  Spec => []GrantIsHonoured
BY FlowIsInvariant, FlowIsSafe, PTL

\* Under the same assumption no session reads a message other than SETUP before
\* its handshake is over: receive() never ends with
\* errUnexpectedMessageTypeBeforeSetup.
THEOREM SetupSafety ==
    ASSUME ServerSetupMax <= InitialMax["server"]
    PROVE  Spec => []SetupComesFirst
BY FlowIsInvariant, FlowIsSafe, PTL

\* Under the same assumption grants arrive in increasing order, none below the
\* one held, and no control reader ends: setMax never returns
\* errMaxRequestIDDecreased.
THEOREM GrantOrder ==
    ASSUME ServerSetupMax <= InitialMax["server"]
    PROVE  Spec => []GrantsOnlyGrow
BY FlowIsInvariant, FlowIsSafe, PTL

-----------------------------------------------------------------------------
\* Starvation, for applications that only subscribe and fetch.

\* Messages under way stay under way until they are read.
LEMMA WriteKeeps ==
    ASSUME TypeOK, NEW p \in Peers, NEW m \in Msg, Write(p, m)
    PROVE  /\ \A v : GrantUnderWay(Other(p), v) => GrantUnderWay(Other(p), v)'
           /\ \A v : RequestUnderWay(Other(p), v) => RequestUnderWay(Other(p), v)'
           /\ \A v : GrantUnderWay(p, v) => GrantUnderWay(p, v)'
           /\ \A v : RequestUnderWay(p, v) => RequestUnderWay(p, v)'
           /\ m.type \in TrackKinds => RequestUnderWay(Other(p), m.v)'
<1> DEFINE q == Other(p)
<1>1. /\ ctl'[p] = ctl[p] /\ Len(ctl[q]) \in Nat /\ Len(ctl'[q]) = Len(ctl[q]) + 1
      /\ \A i \in 1..Len(ctl[q]) : ctl'[q][i] = ctl[q][i]
      /\ ctl'[q][Len(ctl[q]) + 1] = m
  BY WriteFacts
<1>2. \A i \in 1..Len(ctl[q]) : i \in 1..Len(ctl'[q]) /\ ctl'[q][i] = ctl[q][i]
  BY <1>1
<1>3. Len(ctl[q]) + 1 \in 1..Len(ctl'[q])
  BY <1>1
<1>. QED  BY <1>1, <1>2, <1>3 DEF GrantUnderWay, RequestUnderWay

LEMMA ReadKeeps ==
    ASSUME TypeOK, NEW p \in Peers, ctl[p] # <<>>, Read(p)
    PROVE  /\ \A v : GrantUnderWay(Other(p), v) => GrantUnderWay(Other(p), v)'
           /\ \A v : RequestUnderWay(Other(p), v) => RequestUnderWay(Other(p), v)'
           /\ \A v : GrantUnderWay(p, v) =>
                 \/ GrantUnderWay(p, v)'
                 \/ Head(ctl[p]).type = "MAX_REQUEST_ID" /\ Head(ctl[p]).v = v
           /\ \A v : RequestUnderWay(p, v) =>
                 \/ RequestUnderWay(p, v)'
                 \/ Head(ctl[p]).type \in TrackKinds /\ Head(ctl[p]).v = v
<1>1. /\ ctl'[Other(p)] = ctl[Other(p)]
      /\ Len(ctl[p]) \in Nat \ {0} /\ Len(ctl'[p]) = Len(ctl[p]) - 1
      /\ \A i \in 1..Len(ctl'[p]) : i + 1 \in 1..Len(ctl[p]) /\ ctl'[p][i] = ctl[p][i + 1]
      /\ Head(ctl[p]) = ctl[p][1]
  BY ReadFacts
<1>2. \A i \in 1..Len(ctl[p]) : i = 1 \/ (i - 1 \in 1..Len(ctl'[p]) /\ ctl'[p][i - 1] = ctl[p][i])
  <2>1. SUFFICES ASSUME NEW i \in 1..Len(ctl[p]), i # 1
                 PROVE  i - 1 \in 1..Len(ctl'[p]) /\ ctl'[p][i - 1] = ctl[p][i]
    OBVIOUS
  <2>2. i - 1 \in 1..Len(ctl'[p]) /\ (i - 1) + 1 = i
    BY <1>1, <2>1
  <2>. QED  BY <1>1, <2>2
<1>. QED  BY ZenonT(40), <1>1, <1>2 DEF GrantUnderWay, RequestUnderWay

LEMMA ReadAndWriteKeeps ==
    ASSUME TypeOK, NEW p \in Peers, ctl[p] # <<>>, NEW m \in Msg, ReadAndWrite(p, m)
    PROVE  /\ \A v : RequestUnderWay(Other(p), v) => RequestUnderWay(Other(p), v)'
           /\ m.type = "MAX_REQUEST_ID" => GrantUnderWay(Other(p), m.v)'
           /\ \A v : GrantUnderWay(p, v) =>
                 \/ GrantUnderWay(p, v)'
                 \/ Head(ctl[p]).type = "MAX_REQUEST_ID" /\ Head(ctl[p]).v = v
           /\ \A v : RequestUnderWay(p, v) =>
                 \/ RequestUnderWay(p, v)'
                 \/ Head(ctl[p]).type \in TrackKinds /\ Head(ctl[p]).v = v
<1> DEFINE q == Other(p)
<1>0. Len(ctl[p]) \in Nat \ {0} /\ Head(ctl[p]) = ctl[p][1]
  BY ReadAndWriteFacts
<1>1. /\ Len(ctl'[p]) = Len(ctl[p]) - 1
      /\ \A i \in 1..Len(ctl'[p]) : i + 1 \in 1..Len(ctl[p]) /\ ctl'[p][i] = ctl[p][i + 1]
      /\ Len(ctl[q]) \in Nat /\ Len(ctl'[q]) = Len(ctl[q]) + 1
      /\ \A i \in 1..Len(ctl[q]) : ctl'[q][i] = ctl[q][i]
      /\ ctl'[q][Len(ctl[q]) + 1] = m
  BY ReadAndWriteFacts
<1>2. \A i \in 1..Len(ctl[p]) : i = 1 \/ (i - 1 \in 1..Len(ctl'[p]) /\ ctl'[p][i - 1] = ctl[p][i])
  <2>1. SUFFICES ASSUME NEW i \in 1..Len(ctl[p]), i # 1
                 PROVE  i - 1 \in 1..Len(ctl'[p]) /\ ctl'[p][i - 1] = ctl[p][i]
    OBVIOUS
  <2>2. i - 1 \in 1..Len(ctl'[p]) /\ (i - 1) + 1 = i
    BY <1>0, <1>1, <2>1
  <2>. QED  BY <1>1, <2>2
<1>3. \A i \in 1..Len(ctl[q]) : i \in 1..Len(ctl'[q]) /\ ctl'[q][i] = ctl[q][i]
  BY <1>1
<1>4. Len(ctl[q]) + 1 \in 1..Len(ctl'[q])
  BY <1>1
<1>5. \A v : RequestUnderWay(q, v) => RequestUnderWay(q, v)'
  BY <1>3 DEF RequestUnderWay
<1>6. m.type = "MAX_REQUEST_ID" => GrantUnderWay(q, m.v)'
  BY <1>1, <1>4 DEF GrantUnderWay
<1>7. \A v : GrantUnderWay(p, v) =>
         GrantUnderWay(p, v)' \/ (Head(ctl[p]).type = "MAX_REQUEST_ID" /\ Head(ctl[p]).v = v)
  BY <1>0, <1>2 DEF GrantUnderWay
<1>8. \A v : RequestUnderWay(p, v) =>
         RequestUnderWay(p, v)' \/ (Head(ctl[p]).type \in TrackKinds /\ Head(ctl[p]).v = v)
  BY SMTT(40), <1>0, <1>2 DEF RequestUnderWay
<1>. QED  BY <1>5, <1>6, <1>7, <1>8

\* No message read or written is OTHER when the applications make no such request.
LEMMA OtherFree ==
    ASSUME TypeOK, NEW p \in Peers, \A r \in Peers : \A i \in 1..Len(ctl[r]) : ctl[r][i].type # "OTHER",
           \/ \E m \in Msg : m.type # "OTHER" /\ Write(p, m)
           \/ ctl[p] # <<>> /\ Read(p)
           \/ ctl[p] # <<>> /\ \E m \in Msg : m.type # "OTHER" /\ ReadAndWrite(p, m)
    PROVE  \A r \in Peers : \A i \in 1..Len(ctl'[r]) : ctl'[r][i].type # "OTHER"
<1> DEFINE q == Other(p)
<1>0. q \in Peers /\ \A r \in Peers : r = p \/ r = q
  BY PeerFacts
<1>1. ASSUME NEW m \in Msg, m.type # "OTHER", Write(p, m)
      PROVE  \A r \in Peers : \A i \in 1..Len(ctl'[r]) : ctl'[r][i].type # "OTHER"
  <2>1. /\ ctl'[p] = ctl[p] /\ Len(ctl[q]) \in Nat /\ Len(ctl'[q]) = Len(ctl[q]) + 1
        /\ \A i \in 1..Len(ctl[q]) : ctl'[q][i] = ctl[q][i]
        /\ ctl'[q][Len(ctl[q]) + 1] = m
    BY <1>1, WriteFacts
  <2>2. \A i \in 1..Len(ctl'[q]) : i \in 1..Len(ctl[q]) \/ i = Len(ctl[q]) + 1
    BY <2>1
  <2>3. \A i \in 1..Len(ctl'[q]) : ctl'[q][i].type # "OTHER"
    BY <1>0, <1>1, <2>1, <2>2
  <2>. QED  BY <1>0, <2>1, <2>3
<1>2. ASSUME ctl[p] # <<>>, Read(p)
      PROVE  \A r \in Peers : \A i \in 1..Len(ctl'[r]) : ctl'[r][i].type # "OTHER"
  <2>1. /\ ctl'[q] = ctl[q]
        /\ \A i \in 1..Len(ctl'[p]) : i + 1 \in 1..Len(ctl[p]) /\ ctl'[p][i] = ctl[p][i + 1]
    BY <1>2, ReadFacts
  <2>2. \A i \in 1..Len(ctl'[p]) : ctl'[p][i].type # "OTHER"
    BY <2>1
  <2>. QED  BY <1>0, <2>1, <2>2
<1>3. ASSUME ctl[p] # <<>>, NEW m \in Msg, m.type # "OTHER", ReadAndWrite(p, m)
      PROVE  \A r \in Peers : \A i \in 1..Len(ctl'[r]) : ctl'[r][i].type # "OTHER"
  <2>1. /\ \A i \in 1..Len(ctl'[p]) : i + 1 \in 1..Len(ctl[p]) /\ ctl'[p][i] = ctl[p][i + 1]
        /\ Len(ctl[q]) \in Nat /\ Len(ctl'[q]) = Len(ctl[q]) + 1
        /\ \A i \in 1..Len(ctl[q]) : ctl'[q][i] = ctl[q][i]
        /\ ctl'[q][Len(ctl[q]) + 1] = m
    BY <1>3, ReadAndWriteFacts
  <2>2. \A i \in 1..Len(ctl'[p]) : ctl'[p][i].type # "OTHER"
    BY <2>1
  <2>3. \A i \in 1..Len(ctl'[q]) : i \in 1..Len(ctl[q]) \/ i = Len(ctl[q]) + 1
    BY <2>1
  <2>4. \A i \in 1..Len(ctl'[q]) : ctl'[q][i].type # "OTHER"
    BY <1>0, <1>3, <2>1, <2>3
  <2>. QED  BY <1>0, <2>2, <2>4
<1>. QED  BY <1>1, <1>2, <1>3

\* Applications that only subscribe and fetch, and initial limits of at least
\* 3 that SERVER_SETUP announces as they are.
TracksOnly ==
    /\ Kinds \subseteq TrackKinds
    /\ ServerSetupMax = InitialMax["server"]
    /\ \A p \in Peers : InitialMax[p] >= 3

LEMMA SupplyInit == TracksOnly /\ Init => SupplyInv
<1> SUFFICES ASSUME TracksOnly, Init PROVE SupplyInv
  OBVIOUS
<1>1. \A p \in Peers : Len(ctl[p]) = 0 /\ gen[p].id = Perspective(p) /\ localMax[p] >= 3
  BY EmptySeq DEF Init, TracksOnly, NewGenerator
<1>2. ~PhasesAre("open", "open")
  BY DEF Init, PhasesAre, Peers
<1>. QED  BY <1>1, <1>2 DEF SupplyInv, IDSupply

\* Replacing a generator by one with the same next ID changes no next ID.
LEMMA UpdateKeepsIDs ==
    ASSUME NEW g \in [Peers -> Generator], NEW r \in Peers, NEW x, x.id = g[r].id, NEW h,
           h = [g EXCEPT ![r] = x] \/ h = g
    PROVE  \A p \in Peers : h[p].id = g[p].id
<1>1. CASE h = g
  BY Zenon, <1>1
<1>2. CASE h = [g EXCEPT ![r] = x]
  <2>1. h[r] = x /\ \A p \in Peers : p # r => h[p] = g[p]
    BY <1>2
  <2>. QED  BY Zenon, <2>1
<1>. QED  BY <1>1, <1>2

LEMMA SupplyHandshake ==
    ASSUME TracksOnly, FlowInv, SupplyInv, Handshake
    PROVE  SupplyInv'
<1>. TypeOK /\ PhaseInv /\ QuietInv /\ ServerSetupMax \in Nat
  BY ConstantsType DEF FlowInv
<1>0. "client" \in Peers /\ "server" \in Peers /\ Other("client") = "server"
      /\ Other("server") = "client" /\ \A p \in Peers : p = "client" \/ p = "server"
  BY DEF Peers, Other
<1>1. UNCHANGED <<localMax, unsent>>
  BY Zenon DEF Handshake, SendClientSetup, OnClientSetup, SendServerSetup, OnServerSetup
<1>2. \A p \in Peers : gen'[p].id = gen[p].id
  <2>1. \A v : SetMax(gen["client"], v).id = gen["client"].id /\ SetMax(gen["server"], v).id = gen["server"].id
    BY DEF SetMax
  <2>2. gen \in [Peers -> Generator]
    BY DEF TypeOK
  <2>3. CASE SendClientSetup \/ SendServerSetup
    <3>1. gen' = gen
      BY Zenon, <2>3 DEF SendClientSetup, SendServerSetup
    <3>. QED  BY Zenon, <3>1
  <2>4. CASE OnClientSetup
    <3> DEFINE x == IF Head(ctl["server"]).v > 0 THEN SetMax(gen["server"], Head(ctl["server"]).v)
                    ELSE gen["server"]
    <3>1. x.id = gen["server"].id
      BY Zenon, <2>1
    <3>2. gen' = [gen EXCEPT !["server"] = x] \/ gen' = gen
      BY Zenon, <2>4 DEF OnClientSetup
    <3> HIDE DEF x
    <3>. QED  BY Zenon, <1>0, <2>2, <3>1, <3>2, UpdateKeepsIDs
  <2>5. CASE OnServerSetup
    <3> DEFINE x == SetMax(gen["client"], Head(ctl["client"]).v)
    <3>1. x.id = gen["client"].id
      BY Zenon, <2>1
    <3>2. gen' = [gen EXCEPT !["client"] = x] \/ gen' = gen
      BY Zenon, <2>5 DEF OnServerSetup
    <3> HIDE DEF x
    <3>. QED  BY Zenon, <1>0, <2>2, <3>1, <3>2, UpdateKeepsIDs
  <2>. QED  BY Zenon, <2>3, <2>4, <2>5 DEF Handshake
<1>3. \E p \in Peers : \/ \E m \in Msg : m.type \in SetupTypes /\ Write(p, m)
                       \/ ctl[p] # <<>> /\ Read(p) /\ Head(ctl[p]).type \in SetupTypes
  <2>1. CASE SendClientSetup
    <3>1. Write("client", Message("CLIENT_SETUP", localMax["client"])) /\ localMax["client"] \in Nat
      BY <1>0, <2>1 DEF SendClientSetup, TypeOK
    <3>2. Message("CLIENT_SETUP", localMax["client"]) \in Msg
          /\ Message("CLIENT_SETUP", localMax["client"]).type \in SetupTypes
      BY <3>1, MessageType DEF MsgTypes, SetupTypes
    <3>. QED  BY <1>0, <3>1, <3>2, Zenon
  <2>2. CASE SendServerSetup
    <3>1. Write("server", Message("SERVER_SETUP", ServerSetupMax))
      BY <2>2 DEF SendServerSetup
    <3>2. Message("SERVER_SETUP", ServerSetupMax) \in Msg
          /\ Message("SERVER_SETUP", ServerSetupMax).type \in SetupTypes
      BY MessageType DEF MsgTypes, SetupTypes
    <3>. QED  BY <1>0, <3>1, <3>2, Zenon
  <2>3. ASSUME NEW p \in Peers, phase[p] \in {"start", "handshake"}, ctl[p] # <<>>
        PROVE  Head(ctl[p]).type \in SetupTypes
    BY <2>3, FlowIsSafe DEF SetupComesFirst
  <2>4. CASE OnClientSetup
    <3>1. phase["server"] = "handshake" /\ ctl["server"] # <<>> /\ Read("server")
      BY <2>4 DEF OnClientSetup
    <3>2. Head(ctl["server"]).type \in SetupTypes
      BY <1>0, <2>3, <3>1
    <3>. QED  BY <1>0, <3>1, <3>2, Zenon
  <2>5. CASE OnServerSetup
    <3>1. phase["client"] = "handshake" /\ ctl["client"] # <<>> /\ Read("client")
      BY <2>5 DEF OnServerSetup
    <3>2. Head(ctl["client"]).type \in SetupTypes
      BY <1>0, <2>3, <3>1
    <3>. QED  BY <1>0, <3>1, <3>2, Zenon
  <2>. QED  BY <2>1, <2>2, <2>4, <2>5 DEF Handshake
<1>4. \A r \in Peers : \A i \in 1..Len(ctl'[r]) : ctl'[r][i].type # "OTHER"
  <2>1. "OTHER" \notin SetupTypes
    BY DEF SetupTypes
  <2>. QED  BY <1>3, <2>1, OtherFree DEF SupplyInv
<1>5. \A r \in Peers : \A v : RequestUnderWay(r, v) => RequestUnderWay(r, v)'
  <2>1. PICK p \in Peers : \/ \E m \in Msg : m.type \in SetupTypes /\ Write(p, m)
                           \/ ctl[p] # <<>> /\ Read(p) /\ Head(ctl[p]).type \in SetupTypes
    BY <1>3
  <2>2. Head(ctl[p]).type \in SetupTypes => Head(ctl[p]).type \notin TrackKinds
    BY DEF SetupTypes, TrackKinds
  <2>3. \A v : RequestUnderWay(p, v) => RequestUnderWay(p, v)'
    BY Zenon, <2>1, <2>2, WriteKeeps, ReadKeeps
  <2>4. \A v : RequestUnderWay(Other(p), v) => RequestUnderWay(Other(p), v)'
    BY Zenon, <2>1, WriteKeeps, ReadKeeps
  <2>. QED  BY <2>3, <2>4, PeerFacts
<1>6. ASSUME PhasesAre("open", "open")' PROVE \A p \in Peers : GrantSupply(p)'
  <2>1. OnServerSetup
    <3>1. phase["client"] # "open"
      BY DEF Handshake, SendClientSetup, OnClientSetup, SendServerSetup, OnServerSetup,
         PhaseInv, PhasesAre
    <3>2. phase \in [Peers -> Phases]
      BY DEF TypeOK
    <3>3. phase'["client"] = "open"
      BY <1>6 DEF PhasesAre
    <3>. QED  BY Zenon, <1>0, <3>1, <3>2, <3>3 DEF Handshake, SendClientSetup, OnClientSetup, SendServerSetup
  <2>2. PhasesAre("handshake", "open") /\ ctl["client"] # <<>>
        /\ ctl["client"][1] = Message("SERVER_SETUP", ServerSetupMax)
        /\ localMax = InitialMax /\ gen["server"].max = InitialMax["client"]
    BY Zenon, <2>1 DEF OnServerSetup, PhaseInv, QuietInv, PhasesAre
  <2>3. Head(ctl["client"]).v = ServerSetupMax
    <3>1. ctl["client"] \in Seq(Msg)
      BY <1>0 DEF TypeOK
    <3>2. Head(ctl["client"]) = ctl["client"][1]
      BY <2>2, <3>1, HeadTailProperties
    <3>. QED  BY <2>2, <3>2 DEF Message
  <2>4. gen' = [gen EXCEPT !["client"] = SetMax(gen["client"], ServerSetupMax)]
    <3>1. phase'["client"] # "dead"
      BY <1>6 DEF PhasesAre
    <3>2. phase \in [Peers -> Phases]
      BY DEF TypeOK
    <3>. QED  BY <1>0, <2>1, <2>3, <3>1, <3>2 DEF OnServerSetup
  <2>5. gen'["client"].max = ServerSetupMax /\ gen'["server"].max = InitialMax["client"]
    BY <1>0, <2>2, <2>4 DEF TypeOK, SetMax
  <2>6. ServerSetupMax = InitialMax["server"]
    BY DEF TracksOnly
  <2>7. \A p \in Peers : gen'[p].max = localMax'[Other(p)]
    BY <1>0, <1>1, <2>2, <2>5, <2>6
  <2>. QED  BY <2>7 DEF GrantSupply
<1>7. \A p \in Peers : IDSupply(p)'
  BY <1>0, <1>1, <1>2, <1>5 DEF SupplyInv, IDSupply
<1>. QED  BY <1>1, <1>4, <1>6, <1>7 DEF SupplyInv

LEMMA SupplyTake ==
    ASSUME TypeOK, SupplyInv, NEW p \in Peers, TakeRequestID(p)
    PROVE  SupplyInv'
<1> DEFINE q == Other(p)
<1>0. q \in Peers /\ q # p /\ Other(q) = p /\ \A r \in Peers : r = p \/ r = q
  BY PeerFacts
<1>1. gen \in [Peers -> Generator] /\ gen[p] \in Generator /\ gen[p].id \in Nat
      /\ unsent \in [Peers -> SUBSET Nat]
  BY DEF TypeOK, Generator
<1>2. UNCHANGED <<phase, localMax, ctl>> /\ gen' = [gen EXCEPT ![p] = TakeID(gen[p])]
      /\ unsent' = [unsent EXCEPT ![p] = unsent[p] \cup {gen[p].id}]
  BY DEF TakeRequestID
<1>3. gen'[p] = TakeID(gen[p]) /\ gen'[q] = gen[q]
  BY <1>0, <1>1, <1>2
<1>4. gen[p].id \in unsent'[p] /\ unsent'[q] = unsent[q]
  BY <1>0, <1>1, <1>2
<1>5. gen'[p].id = gen[p].id + 2 /\ gen'[p].max = gen[p].max
  BY <1>1, <1>3, GeneratorType
<1>6. gen'[p].id >= 2 /\ gen'[p].id - 2 = gen[p].id
  BY <1>1, <1>5
<1>7. IDSupply(p)'
  BY Zenon, <1>4, <1>6 DEF IDSupply
<1>8. IDSupply(q)'
  BY Zenon, <1>0, <1>2, <1>3, <1>4 DEF SupplyInv, IDSupply, RequestUnderWay
<1>9. PhasesAre("open", "open")' => GrantSupply(p)' /\ GrantSupply(q)'
  BY Zenon, <1>0, <1>2, <1>3, <1>5 DEF SupplyInv, GrantSupply, GrantUnderWay, PhasesAre
<1>. QED  BY Zenon, <1>0, <1>2, <1>7, <1>8, <1>9 DEF SupplyInv

\* A write that moves at most its own ID from unsent to the control stream.
LEMMA SupplyWrite ==
    ASSUME TypeOK, SupplyInv, NEW p \in Peers, NEW m \in Msg, Write(p, m), m.type # "OTHER",
           UNCHANGED <<phase, gen, localMax>>, unsent'[Other(p)] = unsent[Other(p)],
           \A id \in unsent[p] : id \in unsent'[p] \/ (m.type \in TrackKinds /\ m.v = id)
    PROVE  SupplyInv'
<1> DEFINE q == Other(p)
<1>0. q \in Peers /\ q # p /\ Other(q) = p /\ \A r \in Peers : r = p \/ r = q
  BY PeerFacts
<1>1. \A r \in Peers : \A i \in 1..Len(ctl'[r]) : ctl'[r][i].type # "OTHER"
  BY Zenon, OtherFree DEF SupplyInv
<1>2. /\ \A v : GrantUnderWay(q, v) => GrantUnderWay(q, v)'
      /\ \A v : RequestUnderWay(q, v) => RequestUnderWay(q, v)'
      /\ \A v : GrantUnderWay(p, v) => GrantUnderWay(p, v)'
      /\ \A v : RequestUnderWay(p, v) => RequestUnderWay(p, v)'
      /\ m.type \in TrackKinds => RequestUnderWay(q, m.v)'
  BY Zenon, WriteKeeps
<1>3. PhasesAre("open", "open")' => GrantSupply(p)' /\ GrantSupply(q)'
  BY Zenon, <1>0, <1>2 DEF SupplyInv, GrantSupply, PhasesAre
<1>4. IDSupply(q)'
  BY Zenon, <1>0, <1>2 DEF SupplyInv, IDSupply
<1>5. IDSupply(p)'
  BY Zenon, <1>0, <1>2 DEF SupplyInv, IDSupply
<1>. QED  BY Zenon, <1>0, <1>1, <1>3, <1>4, <1>5 DEF SupplyInv

LEMMA SupplyRequest ==
    ASSUME TracksOnly, TypeOK, SupplyInv, NEW p \in Peers,
           NEW id \in unsent[p], NEW kind \in Kinds, WriteRequest(p, id, kind)
    PROVE  SupplyInv'
<1> DEFINE m == Message(kind, id)
<1>1. id \in Nat /\ kind \in TrackKinds
  BY DEF TypeOK, TracksOnly
<1>2. kind \in MsgTypes /\ kind # "OTHER"
  BY <1>1 DEF MsgTypes, TrackKinds, RequestKinds
<1>3. m \in Msg /\ m.type = kind /\ m.v = id
  BY Zenon, <1>1, <1>2, MessageType
<1>4. unsent' = [unsent EXCEPT ![p] = unsent[p] \ {id}] /\ Write(p, m)
      /\ UNCHANGED <<phase, gen, localMax>>
  BY DEF WriteRequest
<1>5. unsent'[p] = unsent[p] \ {id} /\ unsent'[Other(p)] = unsent[Other(p)]
  BY <1>4, PeerFacts DEF TypeOK
<1>6. \A k \in unsent[p] : k \in unsent'[p] \/ k = id
  BY <1>5
<1> HIDE DEF m
<1>. QED  BY Zenon, <1>1, <1>2, <1>3, <1>4, <1>5, <1>6, SupplyWrite

LEMMA SupplyBlocked ==
    ASSUME TypeOK, SupplyInv, NEW p \in Peers, RequestBlocked(p)
    PROVE  SupplyInv'
<1> DEFINE m == Message("REQUESTS_BLOCKED", gen[p].max)
<1>1. gen[p].max \in Nat /\ "REQUESTS_BLOCKED" \in MsgTypes
  BY DEF TypeOK, Generator, MsgTypes
<1>2. m \in Msg /\ m.type = "REQUESTS_BLOCKED"
  BY Zenon, <1>1, MessageType
<1>3. Write(p, m) /\ UNCHANGED <<phase, gen, localMax, unsent>>
  BY DEF RequestBlocked
<1>4. m.type # "OTHER"
  BY <1>2
<1> HIDE DEF m
<1>. QED  BY Zenon, <1>2, <1>3, <1>4, SupplyWrite

\* The message at the head of a control stream is its first element.
LEMMA HeadFacts ==
    ASSUME TypeOK, NEW p \in Peers, ctl[p] # <<>>
    PROVE  /\ Head(ctl[p]) = ctl[p][1] /\ 1 \in 1..Len(ctl[p])
           /\ Head(ctl[p]) \in Msg /\ Head(ctl[p]).v \in Nat
<1>1. ctl[p] \in Seq(Msg)
  BY DEF TypeOK
<1>2. Len(ctl[p]) # 0 /\ Len(ctl[p]) \in Nat
  BY <1>1, EmptySeq, LenProperties
<1>3. Head(ctl[p]) = ctl[p][1] /\ Head(ctl[p]) \in Msg
  BY <1>1, HeadTailProperties
<1>4. Head(ctl[p]).v \in Nat
  BY <1>3 DEF Msg
<1>5. 1 \in 1..Len(ctl[p])
  BY <1>2
<1>. QED  BY <1>3, <1>4, <1>5

\* A grant read is news: the reader did not hold its peer's limit before.
LEMMA GrantIsNews ==
    ASSUME TypeOK, GrantInv, NEW p \in Peers, ctl[p] # <<>>, Head(ctl[p]).type = "MAX_REQUEST_ID"
    PROVE  gen[p].max # localMax[Other(p)]
<1>1. Head(ctl[p]) = ctl[p][1] /\ 1 \in 1..Len(ctl[p]) /\ Head(ctl[p]).v \in Nat
  BY HeadFacts
<1>2. Head(ctl[p]).v > gen[p].max /\ Head(ctl[p]).v <= localMax[Other(p)]
  BY <1>1 DEF GrantInv, GrantTypes
<1>3. gen[p].max \in Nat /\ localMax[Other(p)] \in Nat
  BY PeerFacts DEF TypeOK, Generator
<1>. QED  BY <1>1, <1>2, <1>3

\* A read of no track request, which takes the grant if it reads one.
LEMMA SupplyRead ==
    ASSUME TypeOK, GrantInv, SupplyInv, NEW p \in Peers, ctl[p] # <<>>, Read(p),
           Head(ctl[p]).type \notin TrackKinds, PhasesAre("open", "open"),
           UNCHANGED <<phase, localMax, unsent>>, gen'[Other(p)] = gen[Other(p)],
           gen'[p].id = gen[p].id,
           gen'[p].max = IF Head(ctl[p]).type = "MAX_REQUEST_ID" THEN Head(ctl[p]).v ELSE gen[p].max
    PROVE  SupplyInv'
<1> DEFINE q == Other(p)
<1>0. q \in Peers /\ q # p /\ Other(q) = p /\ \A r \in Peers : r = p \/ r = q
  BY PeerFacts
<1>1. \A r \in Peers : \A i \in 1..Len(ctl'[r]) : ctl'[r][i].type # "OTHER"
  BY Zenon, OtherFree DEF SupplyInv
<1>2. /\ \A v : GrantUnderWay(q, v) => GrantUnderWay(q, v)'
      /\ \A v : RequestUnderWay(q, v) => RequestUnderWay(q, v)'
      /\ \A v : RequestUnderWay(p, v) => RequestUnderWay(p, v)'
      /\ \A v : GrantUnderWay(p, v) =>
            GrantUnderWay(p, v)' \/ (Head(ctl[p]).type = "MAX_REQUEST_ID" /\ Head(ctl[p]).v = v)
  BY Zenon, ReadKeeps
<1>3. IDSupply(q)' /\ IDSupply(p)'
  BY Zenon, <1>0, <1>2 DEF SupplyInv, IDSupply
<1>4. GrantSupply(q)'
  BY Zenon, <1>0, <1>2 DEF SupplyInv, GrantSupply
<1>5. GrantSupply(p)'
  <2>1. GrantSupply(p)
    BY Zenon DEF SupplyInv
  <2>2. CASE Head(ctl[p]).type = "MAX_REQUEST_ID"
    <3>1. gen[p].max # localMax[q]
      BY Zenon, <2>2, GrantIsNews
    <3>2. gen'[p].max = Head(ctl[p]).v
      BY <2>2
    <3>. QED  BY Zenon, <1>2, <2>1, <3>1, <3>2 DEF GrantSupply
  <2>3. CASE Head(ctl[p]).type # "MAX_REQUEST_ID"
    <3>1. gen'[p].max = gen[p].max
      BY <2>3
    <3>. QED  BY Zenon, <1>2, <2>1, <2>3, <3>1 DEF GrantSupply
  <2>. QED  BY <2>2, <2>3
<1>. QED  BY Zenon, <1>0, <1>1, <1>3, <1>4, <1>5 DEF SupplyInv

LEMMA SupplyMaxRequestID ==
    ASSUME TypeOK, PhaseInv, PhaseInv', QuietInv, GrantInv, SupplyInv, NEW p \in Peers, OnMaxRequestID(p)
    PROVE  SupplyInv'
<1> DEFINE q == Other(p)
<1>1. ctl[p] # <<>> /\ Head(ctl[p]).type = "MAX_REQUEST_ID" /\ phase[p] = "open" /\ Read(p)
      /\ UNCHANGED <<localMax, unsent>>
  BY Zenon DEF OnMaxRequestID, Received
<1>2. PhasesAre("open", "open")
  BY <1>1, OpenReader DEF SetupTypes
<1>3. Head(ctl[p]).type \notin TrackKinds
  BY <1>1 DEF TrackKinds
<1>4. Head(ctl[p]).v \in Nat
  BY Zenon, <1>1, HeadFacts
<1>5. phase'[p] # "dead"
  BY DEF PhaseInv, PhasesAre, Peers
<1>6. phase \in [Peers -> Phases] /\ gen \in [Peers -> Generator] /\ gen[p] \in Generator
  BY DEF TypeOK
<1>7. gen' = [gen EXCEPT ![p] = SetMax(gen[p], Head(ctl[p]).v)] /\ UNCHANGED phase
  BY Zenon, <1>5, <1>6 DEF OnMaxRequestID
<1>8. gen'[q] = gen[q] /\ gen'[p] = SetMax(gen[p], Head(ctl[p]).v)
  BY <1>6, <1>7, PeerFacts
<1>9. gen'[p].max = Head(ctl[p]).v /\ gen'[p].id = gen[p].id
  <2>1. \A v \in Nat : SetMax(gen[p], v).max = v /\ SetMax(gen[p], v).id = gen[p].id
    BY <1>6, GeneratorType
  <2>. QED  BY Zenon, <1>4, <1>8, <2>1
<1>10. gen'[p].max = IF Head(ctl[p]).type = "MAX_REQUEST_ID" THEN Head(ctl[p]).v ELSE gen[p].max
  BY Zenon, <1>1, <1>9
<1>. QED  BY Zenon, <1>1, <1>2, <1>3, <1>7, <1>8, <1>9, <1>10, SupplyRead

LEMMA SupplyOtherMessage ==
    ASSUME TypeOK, PhaseInv, QuietInv, GrantInv, SupplyInv, NEW p \in Peers, OnOtherMessage(p)
    PROVE  SupplyInv'
<1>1. ctl[p] # <<>> /\ phase[p] = "open" /\ Read(p) /\ UNCHANGED <<phase, gen, localMax, unsent>>
      /\ Head(ctl[p]).type \in {"OTHER", "REQUESTS_BLOCKED", "TOO_MANY_REQUESTS"}
  BY DEF OnOtherMessage
<1>2. PhasesAre("open", "open")
  BY <1>1, OpenReader DEF SetupTypes
<1>3. Head(ctl[p]).type \notin TrackKinds /\ Head(ctl[p]).type # "MAX_REQUEST_ID"
  BY <1>1 DEF TrackKinds
<1>4. gen'[p].max = IF Head(ctl[p]).type = "MAX_REQUEST_ID" THEN Head(ctl[p]).v ELSE gen[p].max
  BY <1>1, <1>3
<1>. QED  BY Zenon, <1>1, <1>2, <1>3, <1>4, SupplyRead

\* addLocalTrack for a request in the lower half of the limit.
LEMMA SupplyLowerHalf ==
    ASSUME TypeOK, SupplyInv, NEW p \in Peers, ctl[p] # <<>>, PhasesAre("open", "open"),
           Head(ctl[p]).type \in TrackKinds, Head(ctl[p]).v < localMax[p] \div 2, Read(p),
           UNCHANGED <<phase, gen, localMax, unsent>>
    PROVE  SupplyInv'
<1> DEFINE q == Other(p)
<1>0. q \in Peers /\ q # p /\ Other(q) = p /\ \A r \in Peers : r = p \/ r = q
  BY PeerFacts
<1>1. \A r \in Peers : \A i \in 1..Len(ctl'[r]) : ctl'[r][i].type # "OTHER"
  BY Zenon, OtherFree DEF SupplyInv
<1>2. Head(ctl[p]).type # "MAX_REQUEST_ID"
  BY DEF TrackKinds
<1>3. /\ \A v : GrantUnderWay(q, v) => GrantUnderWay(q, v)'
      /\ \A v : RequestUnderWay(q, v) => RequestUnderWay(q, v)'
      /\ \A v : GrantUnderWay(p, v) => GrantUnderWay(p, v)'
      /\ \A v : RequestUnderWay(p, v) => RequestUnderWay(p, v)' \/ v < localMax[p] \div 2
  BY Zenon, <1>2, ReadKeeps
<1>4. IDSupply(p)'
  BY Zenon, <1>0, <1>3 DEF SupplyInv, IDSupply
<1>5. IDSupply(q)'
  BY Zenon, <1>0, <1>3 DEF SupplyInv, IDSupply
<1>6. GrantSupply(q)' /\ GrantSupply(p)'
  BY Zenon, <1>0, <1>3 DEF SupplyInv, GrantSupply
<1>. QED  BY Zenon, <1>0, <1>1, <1>4, <1>5, <1>6 DEF SupplyInv

\* Doubling a limit of at least 3, and halving one.
LEMMA DoubledLimit ==
    \A n \in Nat : /\ n >= 3 => 2 * n >= 3
                  /\ (2 * n) \div 2 = n
                  /\ \A k \in Nat : k < n \div 2 => k < n
OBVIOUS

\* addLocalTrack for a request in the upper half of the limit: the doubled
\* limit is granted in the same step, and has the request in its lower half.
LEMMA SupplyUpperHalf ==
    ASSUME TypeOK, SupplyInv, NEW p \in Peers, ctl[p] # <<>>, PhasesAre("open", "open"),
           Head(ctl[p]).type \in TrackKinds, Head(ctl[p]).v < localMax[p],
           NEW m \in Msg, m.type = "MAX_REQUEST_ID", m.v = 2 * localMax[p], ReadAndWrite(p, m),
           localMax'[p] = m.v, localMax'[Other(p)] = localMax[Other(p)],
           UNCHANGED <<phase, gen, unsent>>
    PROVE  SupplyInv'
<1> DEFINE q == Other(p)
<1>0. q \in Peers /\ q # p /\ Other(q) = p /\ \A r \in Peers : r = p \/ r = q
  BY PeerFacts
<1>1. localMax[p] \in Nat /\ localMax[p] >= 3 /\ localMax[q] >= 3 /\ gen[q].id \in Nat
  BY <1>0 DEF TypeOK, Generator, SupplyInv
<1>2. localMax'[p] >= 3 /\ localMax'[p] \div 2 = localMax[p]
  <2>1. localMax'[p] = 2 * localMax[p]
    OBVIOUS
  <2>. QED  BY Zenon, <1>1, <2>1, DoubledLimit
<1>3. \A k \in Nat : k < localMax[p] \div 2 => k < localMax[p]
  BY Zenon, <1>1, DoubledLimit
<1>4. \A r \in Peers : \A i \in 1..Len(ctl'[r]) : ctl'[r][i].type # "OTHER"
  <2>1. m.type # "OTHER"
    OBVIOUS
  <2>. QED  BY Zenon, <2>1, OtherFree DEF SupplyInv
<1>5. Head(ctl[p]).type # "MAX_REQUEST_ID"
  BY DEF TrackKinds
<1>6. /\ \A v : RequestUnderWay(q, v) => RequestUnderWay(q, v)'
      /\ GrantUnderWay(q, m.v)'
      /\ \A v : GrantUnderWay(p, v) => GrantUnderWay(p, v)'
      /\ \A v : RequestUnderWay(p, v) => RequestUnderWay(p, v)' \/ Head(ctl[p]).v = v
  BY Zenon, <1>5, ReadAndWriteKeeps
<1>7. GrantSupply(q)'
  BY Zenon, <1>0, <1>6 DEF GrantSupply
<1>8. GrantSupply(p)'
  BY Zenon, <1>6 DEF SupplyInv, GrantSupply
<1>9. IDSupply(p)'
  BY Zenon, <1>6 DEF SupplyInv, IDSupply
<1>10. IDSupply(q)'
  <2>1. \/ gen[q].id = Perspective(q)
        \/ /\ gen[q].id >= 2
           /\ \/ gen[q].id - 2 \in unsent[q]
              \/ RequestUnderWay(p, gen[q].id - 2)
              \/ gen[q].id - 2 < localMax[p] \div 2
    BY Zenon, <1>0 DEF SupplyInv, IDSupply
  <2>2. RequestUnderWay(p, gen[q].id - 2) =>
           RequestUnderWay(p, gen[q].id - 2)' \/ gen[q].id - 2 < localMax[p]
    BY Zenon, <1>6
  <2>3. gen[q].id >= 2 => gen[q].id - 2 \in Nat
    BY <1>1
  <2>4. gen[q].id >= 2 /\ gen[q].id - 2 < localMax[p] \div 2 => gen[q].id - 2 < localMax[p]
    BY Zenon, <1>3, <2>3
  <2>. QED  BY Zenon, <1>0, <1>2, <2>1, <2>2, <2>4 DEF IDSupply
<1>11. \A r \in Peers : localMax'[r] >= 3
  BY Zenon, <1>0, <1>1, <1>2
<1>. QED  BY Zenon, <1>0, <1>4, <1>7, <1>8, <1>9, <1>10, <1>11 DEF SupplyInv

LEMMA SupplyTrackRequest ==
    ASSUME TypeOK, PhaseInv, QuietInv, RequestInv, SupplyInv, NEW p \in Peers, OnTrackRequest(p)
    PROVE  SupplyInv'
<1> DEFINE id == Head(ctl[p]).v
           newMax == RaisedLimit(localMax[p])
           m == Message("MAX_REQUEST_ID", newMax)
<1>1. ctl[p] # <<>> /\ phase[p] = "open" /\ Head(ctl[p]).type \in TrackKinds
      /\ UNCHANGED <<gen, unsent>>
  BY DEF OnTrackRequest
<1>2. PhasesAre("open", "open")
  BY <1>1, OpenReader DEF SetupTypes, TrackKinds
<1>3. id \in Nat /\ id < localMax[p]
  <2>1. Head(ctl[p]) = ctl[p][1] /\ 1 \in 1..Len(ctl[p]) /\ id \in Nat
    BY Zenon, <1>1, HeadFacts
  <2>. QED  BY <1>1, <2>1 DEF RequestInv
<1>4. localMax[p] \in Nat /\ localMax \in [Peers -> Nat]
  BY DEF TypeOK
<1>5. ~OverLimit(id, localMax[p])
  BY <1>3, <1>4 DEF OverLimit
<1>6. AddLocalTrack(p, id)
  BY Zenon, <1>5 DEF OnTrackRequest
<1>7. CASE ~RaisesLimit(id, localMax[p])
  <2>1. Read(p) /\ UNCHANGED <<phase, localMax>>
    BY Zenon, <1>6, <1>7 DEF AddLocalTrack
  <2>2. id < localMax[p] \div 2
    BY <1>3, <1>4, <1>7 DEF RaisesLimit
  <2>. QED  BY Zenon, <1>1, <1>2, <2>1, <2>2, SupplyLowerHalf
<1>8. CASE RaisesLimit(id, localMax[p])
  <2>1. newMax \in Nat /\ newMax = 2 * localMax[p]
    BY <1>4 DEF RaisedLimit
  <2>2. "MAX_REQUEST_ID" \in MsgTypes
    BY DEF MsgTypes
  <2>3. m \in Msg /\ m.type = "MAX_REQUEST_ID" /\ m.v = newMax
    BY Zenon, <2>1, <2>2, MessageType
  <2>4. localMax' = [localMax EXCEPT ![p] = newMax] /\ ReadAndWrite(p, m) /\ UNCHANGED phase
    BY Zenon, <1>6, <1>8 DEF AddLocalTrack
  <2> HIDE DEF m, newMax
  <2>5. localMax'[p] = newMax /\ localMax'[Other(p)] = localMax[Other(p)]
    BY <1>4, <2>4, PeerFacts
  <2>. QED  BY Zenon, <1>1, <1>2, <1>3, <2>1, <2>3, <2>4, <2>5, SupplyUpperHalf
<1>. QED  BY <1>7, <1>8

LEMMA SupplyInductive ==
    ASSUME TracksOnly, FlowInv, FlowInv', SupplyInv, [Next]_vars
    PROVE  SupplyInv'
<1>1. TypeOK /\ PhaseInv /\ PhaseInv' /\ QuietInv /\ GrantInv /\ RequestInv
  BY DEF FlowInv
<1>2. CASE Handshake
  BY <1>2, SupplyHandshake
<1>3. ASSUME NEW p \in Peers, TakeRequestID(p) \/ RequestBlocked(p) \/ ControlReader(p)
      PROVE  SupplyInv'
  BY Zenon, <1>1, <1>3, SupplyTake, SupplyBlocked, SupplyTrackRequest, SupplyMaxRequestID,
     SupplyOtherMessage DEF ControlReader
<1>4. ASSUME NEW p \in Peers, NEW id \in unsent[p], NEW kind \in Kinds, WriteRequest(p, id, kind)
      PROVE  SupplyInv'
  BY Zenon, <1>1, <1>4, SupplyRequest
<1>5. CASE UNCHANGED vars
  BY Zenon, <1>5 DEF vars, SupplyInv, GrantSupply, IDSupply, GrantUnderWay, RequestUnderWay, PhasesAre
<1>. QED  BY Zenon, <1>2, <1>3, <1>4, <1>5 DEF Next

LEMMA SupplySuffices == FlowInv /\ SupplyInv => NoStarvation
<1> SUFFICES ASSUME FlowInv, SupplyInv, NEW p \in Peers, Quiescent(p) PROVE ~IDBlocked(gen[p])
  BY DEF NoStarvation
<1> DEFINE q == Other(p)
<1>1. q \in Peers /\ Other(q) = p
  BY PeerFacts
<1>2. gen[p].id \in Nat /\ gen[p].max \in Nat /\ localMax[q] \in Nat /\ localMax[q] >= 3
  BY Zenon, <1>1 DEF FlowInv, TypeOK, Generator, SupplyInv
<1>3. ~RequestUnderWay(q, gen[p].id - 2) /\ gen[p].id - 2 \notin unsent[p]
      /\ ~GrantUnderWay(p, localMax[q])
  BY DEF Quiescent, RequestUnderWay, GrantUnderWay, RequestKinds
<1>4. gen[p].max = localMax[q]
  BY <1>3 DEF SupplyInv, GrantSupply, Quiescent, PhasesAre, Peers
<1>5. gen[p].id < localMax[q]
  <2>1. gen[p].id = Perspective(p) \/ (gen[p].id >= 2 /\ gen[p].id - 2 < localMax[q] \div 2)
    BY <1>1, <1>3 DEF SupplyInv, IDSupply
  <2>2. Perspective(p) < 3
    BY DEF Perspective
  <2>. QED  BY <1>2, <2>1, <2>2
<1>. QED  BY <1>2, <1>4, <1>5 DEF IDBlocked

\* With initial limits of at least 3, announced as they are, and applications
\* that only subscribe and fetch, doubling the limit in addLocalTrack for a
\* request in its upper half is always in time: a peer with nothing under way
\* is never blocked.
THEOREM Supply ==
    ASSUME TracksOnly
    PROVE  Spec => []NoStarvation
<1>1. ServerSetupMax <= InitialMax["server"]
  BY ConstantsType DEF TracksOnly, Peers
<1>2. Init => FlowInv /\ SupplyInv
  BY <1>1, FlowInit, SupplyInit
<1>3. FlowInv /\ SupplyInv /\ [Next]_vars => FlowInv' /\ SupplyInv'
  BY <1>1, FlowInductive, SupplyInductive
<1>. QED  BY <1>2, <1>3, SupplySuffices, PTL DEF Spec
=============================================================================
