---------------------------- MODULE XorFecProofs ----------------------------
(***************************************************************************)
(* Safety of XorFec for every block size and any counters: what the        *)
(* decoder holds of a block, what it has recovered and what it has handed  *)
(* to the application, against the datagrams that have arrived.            *)
(***************************************************************************)
EXTENDS XorFec, FiniteSetTheorems, SequenceTheorems, TLAPS

\* Packet s of block b carries this counter; the packets and the parity packet
\* of a block.
Counter(b, s) == b * BlockSize + s - 1
Counters(b, S) == {Counter(b, s) : s \in S}
Packets(b) == [s \in 1..BlockSize |-> FormatCounter(Counter(b, s))]
Data(b, s) == [block |-> b, seq |-> s, parity |-> FALSE, payload |-> FormatCounter(Counter(b, s))]
Parity(b) == [block |-> b, seq |-> -1, parity |-> TRUE, payload |-> GenerateParity(Packets(b))]

\* The encoder holds the packets of the block it is filling, and what was sent
\* are packets of earlier counters and parity packets of full blocks.
EncInv ==
    /\ enc.blockID \in Nat /\ enc.seqID \in 0..BlockSize-1
    /\ enc = [blockID |-> enc.blockID, seqID |-> enc.seqID, buffer |-> enc.buffer]
    /\ counter = enc.blockID * BlockSize + enc.seqID
    /\ enc.buffer = [s \in 1..enc.seqID |-> FormatCounter(Counter(enc.blockID, s))]
IsSent(d) ==
    \E b \in Nat :
       \/ \E s \in 1..BlockSize : d = Data(b, s) /\ Counter(b, s) < counter
       \/ d = Parity(b) /\ Counter(b, BlockSize) < counter
SentInv == arrived \subseteq sent /\ \A d \in sent : IsSent(d)

\* The numbers of the packets of a block among the datagrams A.
Came(b, A) == {s \in 1..BlockSize : Data(b, s) \in A}

\* What the decoder holds of a block is among the datagrams A.
Held(h, b, A) ==
    /\ h = [data |-> h.data, parity |-> h.parity, received |-> Cardinality(DOMAIN h.data)]
    /\ DOMAIN h.data \subseteq Came(b, A)
    /\ h.data = [s \in DOMAIN h.data |-> FormatCounter(Counter(b, s))]
    /\ h.parity \subseteq {Parity(b).payload}
    /\ h.parity # {} => Parity(b) \in A
HeldInv == \A b \in DOMAIN blocks : b \in Nat /\ Held(blocks[b], b, arrived)

\* A recovery uses up the parity packet of its block.
RecoveredInv(x) ==
    /\ x.block \in Nat /\ Parity(x.block) \in arrived
    /\ x.block \in DOMAIN blocks => blocks[x.block].parity = {}

\* A block is gathering, with all that has arrived and not enough of it, or all
\* of its packets have arrived, or one has been recovered and all others have
\* arrived.
Gathers(b) ==
    /\ b \notin DOMAIN blocks => Came(b, arrived) = {} /\ Parity(b) \notin arrived
    /\ b \in DOMAIN blocks =>
          /\ DOMAIN blocks[b].data = Came(b, arrived) /\ Cardinality(Came(b, arrived)) < BlockSize
          /\ Parity(b) \in arrived =>
                blocks[b].parity # {} /\ Cardinality(Came(b, arrived)) < BlockSize - 1
Completed(b) ==
    /\ Came(b, arrived) = 1..BlockSize
    /\ b \in DOMAIN blocks => DOMAIN blocks[b].data = {}
Repaired(b) ==
    \E x \in recovered, m \in 1..BlockSize :
        /\ x.block = b /\ x.payload.of = {Counter(b, m)}
        /\ (1..BlockSize) \ {m} \subseteq Came(b, arrived)
PhaseInv(b) == b \in cleaned \/ Gathers(b) \/ Completed(b) \/ Repaired(b)

\* The packets of a block that have arrived have been handed on, or all but one
\* of them when another was recovered.
HandedInv(b) ==
    \/ Counters(b, Came(b, arrived)) \subseteq handed
    \/ /\ \E x \in recovered : x.block = b
       /\ \E s \in 1..BlockSize : Counters(b, Came(b, arrived)) \ {Counter(b, s)} \subseteq handed

CountInv ==
    /\ publishing \in BOOLEAN /\ counter \in 0..MaxCounter
    /\ stats \in [total : Nat, recovered : Nat] /\ stats.recovered <= stats.total

XorInv ==
    /\ CountInv /\ EncInv /\ SentInv /\ HeldInv
    /\ \A x \in recovered : RecoveredInv(x)
    /\ \A b \in Nat : PhaseInv(b) /\ HandedInv(b)

-----------------------------------------------------------------------------
\* Counters and blocks

\* A packet of a block has a counter of that block.
LEMMA CounterInBlock ==
  ASSUME NEW b \in Nat, NEW s \in 1..BlockSize
  PROVE  Counter(b, s) \in Nat /\ Counter(b, s) \div BlockSize = b
BY XorAssumption DEF Counter

\* Every counter is that of a packet of its block.
LEMMA BlockOfCounter ==
  ASSUME NEW c \in Nat
  PROVE  \E s \in 1..BlockSize : c = Counter(c \div BlockSize, s)
<1>1. BlockSize \in Nat \ {0}
  BY XorAssumption
<1>2. /\ c \div BlockSize \in Nat
      /\ c - (c \div BlockSize) * BlockSize \in 0..BlockSize-1
  BY <1>1
<1> DEFINE t == c - (c \div BlockSize) * BlockSize + 1
<1>3. t \in 1..BlockSize /\ c = Counter(c \div BlockSize, t)
  BY <1>1, <1>2 DEF Counter
<1> QED
  BY <1>3

\* The packets of a block have different counters.
LEMMA CounterApart ==
  ASSUME NEW b \in Nat, NEW s \in 1..BlockSize, NEW t \in 1..BlockSize, Counter(b, s) = Counter(b, t)
  PROVE  s = t
BY XorAssumption DEF Counter

\* They rise with the number of the packet.
LEMMA CounterRises ==
  ASSUME NEW b \in Nat, NEW s \in 1..BlockSize, NEW t \in 1..BlockSize, s <= t
  PROVE  Counter(b, s) <= Counter(b, t)
BY XorAssumption DEF Counter

\* FormatCounter writes no fewer digits for a greater counter.
LEMMA DigitsRise ==
  ASSUME NEW c \in Nat, NEW d \in Nat, c <= d
  PROVE  Digits(c) \in Nat /\ Digits(d) \in Nat /\ Digits(c) <= Digits(d)
<1> DEFINE P(n) == {k \in 1..n : Base^k \in 1..n}
<1>1. IsFiniteSet(1..d)
  BY FS_Interval
<1>2. IsFiniteSet(P(d))
  BY <1>1, FS_Subset
<1>3. P(c) \subseteq P(d)
  OBVIOUS
<1>4. IsFiniteSet(P(c)) /\ Cardinality(P(c)) <= Cardinality(P(d))
  BY <1>2, <1>3, FS_Subset
<1>5. Cardinality(P(c)) \in Nat /\ Cardinality(P(d)) \in Nat
  BY <1>2, <1>4, FS_CardinalityType
<1> QED
  BY <1>4, <1>5 DEF Digits

-----------------------------------------------------------------------------
\* Payloads

\* The XOR of packets of one block has exactly their counters.
LEMMA XorOfPackets ==
  ASSUME NEW b \in Nat, NEW D \in SUBSET (1..BlockSize)
  PROVE  XorAll([s \in D |-> FormatCounter(Counter(b, s))]) = Counters(b, D)
<1> DEFINE ps == [s \in D |-> FormatCounter(Counter(b, s))]
<1>1. DOMAIN ps = D /\ \A s \in D : ps[s].of = {Counter(b, s)}
  BY DEF FormatCounter
<1>2. UNION {ps[s].of : s \in DOMAIN ps} = Counters(b, D)
  BY <1>1 DEF Counters
<1> HIDE DEF ps
<1>3. ASSUME NEW c \in Counters(b, D)
      PROVE  Cardinality({s \in DOMAIN ps : c \in ps[s].of}) % 2 = 1
  <2>1. PICK s \in D : c = Counter(b, s)
    BY DEF Counters
  <2>2. \A t \in D : c \in ps[t].of <=> t = s
    <3> TAKE t \in D
    <3>1. c \in ps[t].of <=> Counter(b, s) = Counter(b, t)
      BY <1>1, <2>1
    <3> QED
      BY <3>1, CounterApart
  <2>3. {t \in DOMAIN ps : c \in ps[t].of} = {s}
    BY <1>1, <2>2
  <2>4. Cardinality({s}) = 1
    BY FS_Singleton
  <2>5. Cardinality({t \in DOMAIN ps : c \in ps[t].of}) = 1
    BY <2>3, <2>4
  <2> QED
    BY <2>5
<1> QED
  BY <1>2, <1>3 DEF XorAll, ps

\* The parity packet of a block has the counters of all its packets, and the
\* length of the longest.
LEMMA ParityOfBlock ==
  ASSUME NEW b \in Nat
  PROVE  Parity(b).payload = [of |-> Counters(b, 1..BlockSize), len |-> Longest(Packets(b))]
<1>1. XorAll(Packets(b)) = Counters(b, 1..BlockSize)
  BY XorOfPackets DEF Packets
<1> QED
  BY <1>1 DEF Parity, GenerateParity

\* The longest packet of a block has a length: the last one is longest.
LEMMA LongestOfBlock ==
  ASSUME NEW b \in Nat
  PROVE  Longest(Packets(b)) \in Nat
<1> DEFINE ps == Packets(b)
           S == {ps[s].len : s \in DOMAIN ps}
<1>1. BlockSize \in 1..BlockSize
  BY XorAssumption
<1>2. DOMAIN ps = 1..BlockSize /\ \A s \in 1..BlockSize : ps[s].len = Digits(Counter(b, s))
  BY DEF Packets, FormatCounter
<1>3. \A s \in 1..BlockSize :
        ps[s].len \in Nat /\ ps[s].len <= ps[BlockSize].len
  <2> TAKE s \in 1..BlockSize
  <2>1. Counter(b, s) \in Nat /\ Counter(b, BlockSize) \in Nat /\ Counter(b, s) <= Counter(b, BlockSize)
    BY <1>1, CounterInBlock, CounterRises
  <2> QED
    BY <2>1, <1>1, <1>2, DigitsRise
<1> HIDE DEF ps
<1>4. ps[BlockSize].len \in S /\ \A s \in DOMAIN ps : ps[s].len <= ps[BlockSize].len
  BY <1>1, <1>2, <1>3
<1>5. (CHOOSE n \in S : \A s \in DOMAIN ps : ps[s].len <= n) \in S
  BY <1>4
<1>6. S \subseteq Nat
  BY <1>2, <1>3
<1> QED
  BY <1>5, <1>6 DEF Longest, ps

\* XOR of the parity of a block with the packets but one leaves that one.
LEMMA XorLeavesMissing ==
  ASSUME NEW b \in Nat, NEW m \in 1..BlockSize
  PROVE  Xor(Counters(b, 1..BlockSize), Counters(b, (1..BlockSize) \ {m})) = {Counter(b, m)}
<1>1. \A s \in 1..BlockSize : Counter(b, s) = Counter(b, m) => s = m
  BY CounterApart
<1> QED
  BY <1>1 DEF Xor, Counters

\* A set of packet numbers as large as the block is the block, and one that has
\* one less lacks exactly one.
LEMMA AllOfBlock ==
  ASSUME NEW D \in SUBSET (1..BlockSize)
  PROVE  /\ IsFiniteSet(D) /\ Cardinality(D) \in 0..BlockSize
         /\ Cardinality(D) = BlockSize => D = 1..BlockSize
         /\ Cardinality(D) = BlockSize - 1 => \E m \in 1..BlockSize : D = (1..BlockSize) \ {m}
         /\ \A m \in 1..BlockSize : D = (1..BlockSize) \ {m} => Cardinality(D) = BlockSize - 1
<1> DEFINE B == 1..BlockSize
<1>1. BlockSize \in Nat \ {0}
  BY XorAssumption
<1>2. IsFiniteSet(B) /\ Cardinality(B) = BlockSize
  BY <1>1, FS_Interval
<1>3. IsFiniteSet(D) /\ Cardinality(D) <= BlockSize /\ (Cardinality(D) = BlockSize => D = B)
  BY <1>2, FS_Subset
<1>4. Cardinality(D) \in Nat
  BY <1>3, FS_CardinalityType
<1>5. IsFiniteSet(B \ D) /\ Cardinality(B \ D) = BlockSize - Cardinality(D)
  <2>1. B \cap D = D
    OBVIOUS
  <2> QED
    BY <1>2, <1>3, <2>1, FS_Difference
<1>6. Cardinality(D) = BlockSize - 1 => \E m \in B : D = B \ {m}
  <2> HAVE Cardinality(D) = BlockSize - 1
  <2>1. Cardinality(B \ D) = 1
    BY <1>1, <1>4, <1>5
  <2>2. PICK m : B \ D = {m}
    BY <1>5, <2>1, FS_Singleton
  <2> QED
    BY <2>2
<1>7. ASSUME NEW m \in B, D = B \ {m} PROVE Cardinality(D) = BlockSize - 1
  BY <1>2, <1>7, FS_RemoveElement
<1> QED
  BY <1>1, <1>3, <1>4, <1>6, <1>7

-----------------------------------------------------------------------------
\* What was sent

\* A datagram that was sent is a packet of its block, or its parity packet.
LEMMA SentKinds ==
  ASSUME SentInv, NEW d \in sent
  PROVE  /\ d.block \in Nat /\ d.parity \in BOOLEAN
         /\ d.parity => d = Parity(d.block) /\ Counter(d.block, BlockSize) < counter
         /\ ~d.parity => /\ d.seq \in 1..BlockSize /\ d = Data(d.block, d.seq)
                         /\ d.payload = FormatCounter(Counter(d.block, d.seq))
                         /\ Counter(d.block, d.seq) < counter
<1>1. PICK b \in Nat : \/ \E s \in 1..BlockSize : d = Data(b, s) /\ Counter(b, s) < counter
                       \/ d = Parity(b) /\ Counter(b, BlockSize) < counter
  BY DEF SentInv, IsSent
<1>2. CASE d = Parity(b) /\ Counter(b, BlockSize) < counter
  <2>1. d.block = b /\ d.parity = TRUE
    BY <1>2 DEF Parity
  <2> QED
    BY <1>2, <2>1
<1>3. CASE \E s \in 1..BlockSize : d = Data(b, s) /\ Counter(b, s) < counter
  <2>1. PICK s \in 1..BlockSize : d = Data(b, s) /\ Counter(b, s) < counter
    BY <1>3
  <2>2. d.block = b /\ d.seq = s /\ d.parity = FALSE /\ d.payload = FormatCounter(Counter(b, s))
    BY <2>1 DEF Data
  <2> QED
    BY <2>1, <2>2
<1> QED
  BY <1>1, <1>2, <1>3

\* A packet is no other packet, and no parity packet.
LEMMA KindsApart ==
  ASSUME NEW b, NEW s, NEW c, NEW t
  PROVE  /\ Data(b, s) = Data(c, t) => b = c /\ s = t
         /\ Parity(b) = Parity(c) => b = c
         /\ Data(b, s) # Parity(c)
<1>1. /\ Data(b, s).block = b /\ Data(b, s).seq = s /\ Data(b, s).parity = FALSE
      /\ Data(c, t).block = c /\ Data(c, t).seq = t
      /\ Parity(b).block = b /\ Parity(c).block = c /\ Parity(c).parity = TRUE
  BY DEF Data, Parity
<1> QED
  BY <1>1

\* The counters of a block among some datagrams are those of its packets among
\* them.
LEMMA CountersAmong ==
  ASSUME SentInv, NEW b \in Nat, NEW A, A \subseteq sent
  PROVE  UNION {d.payload.of : d \in {x \in A : x.block = b /\ ~x.parity}} = Counters(b, Came(b, A))
<1> DEFINE U == UNION {d.payload.of : d \in {x \in A : x.block = b /\ ~x.parity}}
<1>1. ASSUME NEW d \in A, d.block = b, ~d.parity, NEW c \in d.payload.of
      PROVE  c \in Counters(b, Came(b, A))
  <2>1. /\ d.seq \in 1..BlockSize /\ d = Data(b, d.seq)
        /\ d.payload = FormatCounter(Counter(b, d.seq))
    BY <1>1, SentKinds
  <2>2. c = Counter(b, d.seq)
    BY <1>1, <2>1 DEF FormatCounter
  <2>3. d.seq \in Came(b, A)
    BY <2>1 DEF Came
  <2> QED
    BY <2>2, <2>3 DEF Counters
<1>2. ASSUME NEW s \in Came(b, A)
      PROVE  Counter(b, s) \in U
  <2>1. Data(b, s) \in A
    BY DEF Came
  <2>2. Data(b, s).block = b /\ ~Data(b, s).parity /\ Counter(b, s) \in Data(b, s).payload.of
    BY DEF Data, FormatCounter
  <2> QED
    BY <2>1, <2>2
<1>3. U \subseteq Counters(b, Came(b, A))
  BY <1>1
<1>4. Counters(b, Came(b, A)) \subseteq U
  BY <1>2 DEF Counters
<1> QED
  BY <1>3, <1>4

\* In particular among those that have arrived.
LEMMA ArrivedCounters ==
  ASSUME SentInv, NEW b \in Nat
  PROVE  ArrivedOf(b) = Counters(b, Came(b, arrived))
BY CountersAmong DEF ArrivedOf, SentInv

\* The counters of a block whose parity packet was sent are those of its packets.
LEMMA BlockCounters ==
  ASSUME SentInv, CountInv, NEW b \in Nat, Parity(b) \in sent
  PROVE  CountersOf(b) = Counters(b, 1..BlockSize)
<1>1. Counter(b, BlockSize) < counter
  <2>1. Parity(b).block = b /\ Parity(b).parity
    BY DEF Parity
  <2> QED
    BY <2>1, SentKinds
<1>2. BlockSize \in 1..BlockSize
  BY XorAssumption
<1>3. \A s \in 1..BlockSize : Counter(b, s) \in CountersOf(b)
  <2> TAKE s \in 1..BlockSize
  <2>1. Counter(b, s) \in Nat /\ Counter(b, s) \div BlockSize = b /\ Counter(b, BlockSize) \in Nat
    BY <1>2, CounterInBlock
  <2>2. Counter(b, s) <= Counter(b, BlockSize)
    BY <1>2, CounterRises
  <2>3. Counter(b, s) \in 0..MaxCounter
    BY <1>1, <2>1, <2>2, XorAssumption DEF CountInv
  <2> QED
    BY <2>1, <2>3 DEF CountersOf
<1>4. \A c \in CountersOf(b) : \E s \in 1..BlockSize : c = Counter(b, s)
  <2> TAKE c \in CountersOf(b)
  <2>1. c \in Nat /\ c \div BlockSize = b
    BY XorAssumption DEF CountersOf
  <2> QED
    BY <2>1, BlockOfCounter
<1> QED
  BY <1>3, <1>4 DEF Counters

-----------------------------------------------------------------------------
\* The encoder

\* Publishing a counter sends a packet of the block the encoder fills, and its
\* parity packet with the last one.
LEMMA EncoderStep ==
  ASSUME CountInv, EncInv, PublishNext
  PROVE  \E b \in Nat, s \in 1..BlockSize :
            /\ counter = Counter(b, s) /\ counter' = counter + 1
            /\ sent' \subseteq sent \cup {Data(b, s)} \cup (IF s = BlockSize THEN {Parity(b)} ELSE {})
            /\ sent \subseteq sent'
            /\ EncInv'
<1> DEFINE b == enc.blockID
           n == enc.seqID
           p == FormatCounter(counter)
           e == Appended(enc, p)
<1>1. b \in Nat /\ n \in 0..BlockSize-1 /\ counter = b * BlockSize + n /\ BlockSize \in Nat \ {0}
  BY XorAssumption DEF EncInv
<1>2. n + 1 \in 1..BlockSize /\ counter = Counter(b, n + 1) /\ counter' = counter + 1
  BY <1>1 DEF Counter, PublishNext
<1>3. Append(enc.buffer, p) = [s \in 1..n+1 |-> FormatCounter(Counter(b, s))]
  <2> DEFINE f == [s \in 1..n |-> FormatCounter(Counter(b, s))]
             g == [s \in 1..n+1 |-> FormatCounter(Counter(b, s))]
  <2>1. enc.buffer = f /\ n \in Nat
    BY <1>1 DEF EncInv
  <2>2. Len(f) = n /\ DOMAIN f = 1..n
    BY <2>1
  <2>3. Append(f, p) = [s \in 1..n+1 |-> IF s = n + 1 THEN p ELSE f[s]]
    BY <2>1, <2>2
  <2>4. \A s \in 1..n+1 : (IF s = n + 1 THEN p ELSE f[s]) = FormatCounter(Counter(b, s))
    BY <1>2, <2>1
  <2> HIDE DEF f, p
  <2>5. [s \in 1..n+1 |-> IF s = n + 1 THEN p ELSE f[s]] = g
    BY <2>4
  <2> QED
    BY <2>1, <2>3, <2>5
<1>4. e = [blockID |-> b, seqID |-> n + 1, buffer |-> [s \in 1..n+1 |-> FormatCounter(Counter(b, s))]]
  BY <1>3 DEF Appended
<1>5. /\ enc' = IF Full(e) THEN FlushEncoder(e) ELSE e
      /\ sent' \in {sent, sent \cup {DataPacket(e, p)} \cup (IF Full(e) THEN {ParityPacket(e)} ELSE {})}
                   \cup (IF Full(e) THEN {sent \cup {DataPacket(e, p)}} ELSE {})
  BY DEF PublishNext
<1> HIDE DEF e
<1>6. /\ e.blockID = b /\ e.seqID = n + 1
      /\ e.buffer = [s \in 1..n+1 |-> FormatCounter(Counter(b, s))]
  BY <1>4
<1>7. DataPacket(e, p) = Data(b, n + 1) /\ (Full(e) <=> n + 1 = BlockSize)
  <2>1. p = FormatCounter(Counter(b, n + 1))
    BY <1>2
  <2> HIDE DEF p
  <2>2. DataPacket(e, p) = Data(b, n + 1)
    BY <1>6, <2>1 DEF DataPacket, Data
  <2> QED
    BY <1>1, <1>6, <2>2 DEF Full
<1>8. n + 1 = BlockSize => ParityPacket(e) = Parity(b)
  BY <1>6 DEF ParityPacket, Parity, Packets
<1> HIDE DEF p
<1>9. /\ sent' \subseteq sent \cup {Data(b, n + 1)} \cup (IF n + 1 = BlockSize THEN {Parity(b)} ELSE {})
      /\ sent \subseteq sent'
  BY <1>5, <1>7, <1>8
<1>10. EncInv'
  <2>1. CASE n + 1 = BlockSize
    <3>1. enc' = [blockID |-> b + 1, seqID |-> 0, buffer |-> <<>>]
      BY <1>5, <1>6, <1>7, <2>1 DEF FlushEncoder
    <3>2. (b + 1) * BlockSize + 0 = counter + 1
      BY <1>1, <2>1
    <3>3. <<>> = [s \in 1..0 |-> FormatCounter(Counter(b + 1, s))]
      OBVIOUS
    <3> QED
      BY <1>1, <1>2, <3>1, <3>2, <3>3 DEF EncInv
  <2>2. CASE n + 1 # BlockSize
    <3>1. enc' = e
      BY <1>5, <1>7, <2>2
    <3>2. enc'.blockID = b /\ enc'.seqID = n + 1
          /\ enc'.buffer = [s \in 1..n+1 |-> FormatCounter(Counter(b, s))]
          /\ enc' = [blockID |-> b, seqID |-> n + 1, buffer |-> enc'.buffer]
      BY <1>4, <3>1
    <3>3. n + 1 \in 0..BlockSize-1 /\ counter' = b * BlockSize + (n + 1)
      BY <1>1, <1>2, <2>2
    <3> QED
      BY <1>1, <3>2, <3>3 DEF EncInv
  <2> QED
    BY <2>1, <2>2
<1> QED
  BY <1>1, <1>2, <1>9, <1>10

-----------------------------------------------------------------------------
\* The decoder

\* What the decoder holds of the block of a datagram when it comes, and whether
\* it then keeps the block or recovers a packet of it.
Holds(d) == IF d.block \in DOMAIN blocks THEN blocks[d.block] ELSE NewBlock
Keeps(d) == ~Complete(Store(d)) /\ ~Recoverable(Store(d))
Recovers(d) == ~Complete(Store(d)) /\ Recoverable(Store(d))

\* More datagrams leave what is held among them.
LEMMA HeldGrows ==
  ASSUME NEW h, NEW b, NEW A, NEW C, A \subseteq C, Held(h, b, A)
  PROVE  Held(h, b, C)
BY DEF Held, Came

\* What the decoder holds of the block of a datagram, also if that is nothing.
LEMMA HoldsHeld ==
  ASSUME HeldInv, NEW d
  PROVE  Held(Holds(d), d.block, arrived)
<1>1. Held(NewBlock, d.block, arrived)
  <2>1. NewBlock.data = <<>> /\ NewBlock.parity = {} /\ NewBlock.received = 0
    BY DEF NewBlock
  <2>2. DOMAIN NewBlock.data = {} /\ Cardinality({}) = 0
    BY <2>1, FS_EmptySet
  <2>3. NewBlock.data = [s \in {} |-> FormatCounter(Counter(d.block, s))]
    BY <2>1
  <2> QED
    BY <2>1, <2>2, <2>3 DEF Held, NewBlock
<1> QED
  BY <1>1 DEF Holds, HeldInv

\* A parity packet joins the packets of its block.
LEMMA StoreParity ==
  ASSUME SentInv, HeldInv, NEW d \in sent, d.parity
  PROVE  /\ Held(Store(d), d.block, arrived \cup {d})
         /\ DOMAIN Store(d).data = DOMAIN Holds(d).data
         /\ Store(d).parity # {}
<1> DEFINE h == Holds(d)
           b == d.block
           A == arrived \cup {d}
<1>1. Held(h, b, A)
  BY HoldsHeld, HeldGrows
<1>2. d = Parity(b)
  BY SentKinds
<1>3. Store(d) = [h EXCEPT !.parity = {d.payload}]
  BY DEF Store, Holds
<1> HIDE DEF h
<1>4. Store(d) = [data |-> h.data, parity |-> {d.payload}, received |-> Cardinality(DOMAIN h.data)]
  <2>1. h = [data |-> h.data, parity |-> h.parity, received |-> Cardinality(DOMAIN h.data)]
    BY <1>1 DEF Held
  <2> QED
    BY <1>3, <2>1
<1>5. Store(d).data = h.data /\ Store(d).parity = {d.payload}
  BY <1>4
<1>6. Held(Store(d), b, A)
  <2>1. DOMAIN h.data \subseteq Came(b, A)
        /\ h.data = [s \in DOMAIN h.data |-> FormatCounter(Counter(b, s))]
    BY <1>1 DEF Held
  <2>2. Parity(b) \in A /\ Store(d).parity = {Parity(b).payload}
    BY <1>2, <1>5
  <2> QED
    BY <1>4, <1>5, <2>1, <2>2 DEF Held
<1> QED
  BY <1>5, <1>6 DEF h

\* A data packet joins the packets of its block.
LEMMA StoreData ==
  ASSUME SentInv, HeldInv, NEW d \in sent, ~d.parity
  PROVE  /\ Held(Store(d), d.block, arrived \cup {d})
         /\ DOMAIN Store(d).data = DOMAIN Holds(d).data \cup {d.seq}
         /\ Store(d).parity = Holds(d).parity
<1> DEFINE h == Holds(d)
           b == d.block
           A == arrived \cup {d}
           D == DOMAIN h.data
           f == [s \in D \cup {d.seq} |-> IF s = d.seq THEN d.payload ELSE h.data[s]]
<1>1. Held(h, b, A)
  BY HoldsHeld, HeldGrows
<1>2. d.seq \in 1..BlockSize /\ d = Data(b, d.seq) /\ d.payload = FormatCounter(Counter(b, d.seq))
  BY SentKinds
<1>3. Store(d) = IF d.seq \in D THEN h ELSE [h EXCEPT !.data = f, !.received = @ + 1]
  BY DEF Store, Holds
<1>4. CASE d.seq \in D
  <2>1. Store(d) = h
    BY <1>3, <1>4
  <2>2. D = D \cup {d.seq}
    BY <1>4
  <2> QED
    BY <1>1, <2>1, <2>2
<1>5. CASE d.seq \notin D
  <2> HIDE DEF h
  <2>1. /\ h = [data |-> h.data, parity |-> h.parity, received |-> Cardinality(D)]
        /\ D \subseteq Came(b, A)
        /\ h.data = [s \in D |-> FormatCounter(Counter(b, s))]
        /\ h.parity \subseteq {Parity(b).payload}
        /\ h.parity # {} => Parity(b) \in A
    BY <1>1 DEF Held
  <2>2. Store(d) = [data |-> f, parity |-> h.parity, received |-> Cardinality(D) + 1]
    <3>1. Store(d) = [h EXCEPT !.data = f, !.received = @ + 1]
      BY <1>3, <1>5
    <3> HIDE DEF f
    <3>2. h.received = Cardinality(D)
      BY <2>1
    <3> QED
      BY <2>1, <3>1, <3>2
  <2>3. DOMAIN f = D \cup {d.seq}
    OBVIOUS
  <2>4. Cardinality(D \cup {d.seq}) = Cardinality(D) + 1
    <3>1. D \subseteq 1..BlockSize
      BY <2>1 DEF Came
    <3>2. IsFiniteSet(D)
      BY <3>1, AllOfBlock
    <3> QED
      BY <1>5, <3>2, FS_AddElement
  <2>5. f = [s \in D \cup {d.seq} |-> FormatCounter(Counter(b, s))]
    BY <1>2, <2>1
  <2>6. D \cup {d.seq} \subseteq Came(b, A)
    BY <1>2, <2>1 DEF Came
  <2> HIDE DEF f
  <2>7. Store(d).data = f /\ Store(d).parity = h.parity
    BY <2>2
  <2>8. Held(Store(d), b, A)
    BY <2>1, <2>2, <2>3, <2>4, <2>5, <2>6, <2>7 DEF Held
  <2> QED
    BY <2>3, <2>7, <2>8 DEF h
<1> QED
  BY <1>4, <1>5

\* recoverMissingPacket returns the one packet of the block that is not held.
LEMMA RecoveryOfMissing ==
  ASSUME NEW b \in Nat, NEW A, NEW h, Held(h, b, A), Recoverable(h)
  PROVE  \E m \in 1..BlockSize : /\ DOMAIN h.data = (1..BlockSize) \ {m}
                                 /\ RecoverMissingPacket(h).of = {Counter(b, m)}
<1> DEFINE D == DOMAIN h.data
<1>1. /\ h = [data |-> h.data, parity |-> h.parity, received |-> Cardinality(D)]
      /\ D \subseteq 1..BlockSize
      /\ h.data = [s \in D |-> FormatCounter(Counter(b, s))]
      /\ h.parity \subseteq {Parity(b).payload}
  BY DEF Held, Came
<1>2. h.parity # {} /\ Cardinality(D) = BlockSize - 1
  <2>1. h.received = Cardinality(D)
    BY <1>1
  <2> QED
    BY <2>1 DEF Recoverable
<1>3. PICK m \in 1..BlockSize : D = (1..BlockSize) \ {m}
  BY <1>1, <1>2, AllOfBlock
<1>4. (CHOOSE p \in h.parity : TRUE) = Parity(b).payload
  BY <1>1, <1>2
<1>5. XorAll(h.data) = Counters(b, D)
  BY <1>1, XorOfPackets
<1>6. Parity(b).payload.of = Counters(b, 1..BlockSize)
  <2>1. Parity(b).payload = [of |-> Counters(b, 1..BlockSize), len |-> Longest(Packets(b))]
    BY ParityOfBlock
  <2> QED
    BY <2>1
<1>7. RecoverMissingPacket(h).of = Xor(Parity(b).payload.of, XorAll(h.data))
  BY <1>4 DEF RecoverMissingPacket
<1>8. RecoverMissingPacket(h).of = {Counter(b, m)}
  <2>1. Xor(Counters(b, 1..BlockSize), Counters(b, (1..BlockSize) \ {m})) = {Counter(b, m)}
    BY XorLeavesMissing
  <2> QED
    BY <1>3, <1>5, <1>6, <1>7, <2>1
<1> QED
  BY <1>3, <1>8

\* processObject leaves the other blocks as they were, but for those that
\* CleanupOldBlocks removes, and the block of the datagram only when it keeps it.
LEMMA BlocksAfter ==
  ASSUME NEW d, ProcessObject(d)
  PROVE  /\ cleaned \subseteq cleaned'
         /\ \A b \in DOMAIN blocks' :
               \/ b # d.block /\ b \in DOMAIN blocks /\ blocks'[b] = blocks[b]
               \/ b = d.block /\ Keeps(d) /\ blocks'[b] = Store(d)
         /\ \A b \in DOMAIN blocks : b # d.block /\ b \notin cleaned' => b \in DOMAIN blocks'
         /\ Keeps(d) /\ d.block \notin cleaned' => d.block \in DOMAIN blocks'
<1> DEFINE h == Store(d)
           res == TryDecode(d)
<1>1. PICK old : cleaned' = cleaned \cup old /\ blocks' = Drop(res.blocks, old)
  BY DEF ProcessObject
<1>2. CASE Keeps(d)
  <2>1. res.blocks = Put(blocks, d.block, h)
    BY <1>2 DEF TryDecode, Keeps
  <2> HIDE DEF res, h
  <2>2. /\ DOMAIN res.blocks = DOMAIN blocks \cup {d.block}
        /\ \A b \in DOMAIN res.blocks : res.blocks[b] = IF b = d.block THEN h ELSE blocks[b]
    BY <2>1 DEF Put
  <2>3. /\ DOMAIN blocks' = DOMAIN res.blocks \ old
        /\ \A b \in DOMAIN blocks' : blocks'[b] = res.blocks[b]
    BY <1>1 DEF Drop
  <2> QED
    BY <1>1, <1>2, <2>2, <2>3 DEF h
<1>3. CASE ~Keeps(d)
  <2>1. res.blocks = Drop(blocks, {d.block})
    BY <1>3 DEF TryDecode, Keeps
  <2> HIDE DEF res
  <2>2. /\ DOMAIN res.blocks = DOMAIN blocks \ {d.block}
        /\ \A b \in DOMAIN res.blocks : res.blocks[b] = blocks[b]
    BY <2>1 DEF Drop
  <2>3. /\ DOMAIN blocks' = DOMAIN res.blocks \ old
        /\ \A b \in DOMAIN blocks' : blocks'[b] = res.blocks[b]
    BY <1>1 DEF Drop
  <2> QED
    BY <1>1, <1>3, <2>2, <2>3
<1> QED
  BY <1>2, <1>3

\* processObject hands on a data packet unless it recovers another.
LEMMA HandsOn ==
  ASSUME SentInv, NEW d \in sent, ProcessObject(d)
  PROVE  /\ handed \subseteq handed'
         /\ ~d.parity /\ ~Recovers(d) => Counter(d.block, d.seq) \in handed'
<1> DEFINE res == TryDecode(d)
           counted == {p \in res.out : Parses(p)}
<1>1. handed' = handed \cup UNION {p.of : p \in counted}
  BY DEF ProcessObject
<1>2. ASSUME ~d.parity, ~Recovers(d)
      PROVE  Counter(d.block, d.seq) \in handed'
  <2>1. d.payload = FormatCounter(Counter(d.block, d.seq))
    BY <1>2, SentKinds
  <2>2. res.out = {d.payload}
    BY <1>2 DEF TryDecode, Recovers
  <2>3. Counter(d.block, d.seq) \in d.payload.of
    BY <2>1 DEF FormatCounter
  <2>4. Parses(d.payload)
    BY <2>1, <2>3 DEF Parses
  <2> QED
    BY <1>1, <2>2, <2>3, <2>4
<1> QED
  BY <1>1, <1>2

\* What processObject returns as recovered.
LEMMA RecoveredAfter ==
  ASSUME NEW d, ProcessObject(d)
  PROVE  /\ ~Recovers(d) => recovered' = recovered
         /\ Recovers(d) => recovered' = recovered \cup
                              {[block |-> d.block, payload |-> RecoverMissingPacket(Store(d))]}
<1> DEFINE res == TryDecode(d)
<1>1. recovered' = recovered \cup
         (IF Recovers(d) THEN {[block |-> d.block, payload |-> p] : p \in res.out} ELSE {})
  BY DEF ProcessObject, Recovers
<1>2. Recovers(d) => res.out = {RecoverMissingPacket(Store(d))}
  BY DEF TryDecode, Recovers
<1> HIDE DEF res
<1> QED
  BY <1>1, <1>2

\* The counts stay in order.
LEMMA CountsAfter ==
  ASSUME CountInv, NEW d, ProcessObject(d)
  PROVE  CountInv'
<1> DEFINE res == TryDecode(d)
           counted == {p \in res.out : Parses(p)}
<1>1. IsFiniteSet(counted) /\ Cardinality(counted) \in Nat
  <2>1. \E p : res.out \subseteq {p}
    <3>1. \/ res.out = {} \/ res.out = {d.payload} \/ res.out = {RecoverMissingPacket(Store(d))}
      BY DEF TryDecode
    <3> HIDE DEF res
    <3> QED
      BY <3>1
  <2>2. PICK p : res.out \subseteq {p}
    BY <2>1
  <2>3. IsFiniteSet({p}) /\ counted \subseteq {p}
    BY <2>2, FS_Singleton
  <2>4. IsFiniteSet(counted)
    BY <2>3, FS_Subset
  <2> QED
    BY <2>4, FS_CardinalityType
<1>2. PICK n \in {0, Cardinality(counted)} :
         stats' = [total |-> stats.total + Cardinality(counted), recovered |-> stats.recovered + n]
  BY DEF ProcessObject
<1>3. UNCHANGED <<publishing, counter>>
  BY DEF ProcessObject
<1> HIDE DEF counted
<1>4. stats.total \in Nat /\ stats.recovered \in Nat /\ stats.recovered <= stats.total
  BY DEF CountInv
<1>5. stats'.total = stats.total + Cardinality(counted) /\ stats'.recovered = stats.recovered + n
  BY <1>2
<1>6. stats' \in [total : Nat, recovered : Nat] /\ stats'.recovered <= stats'.total
  BY <1>1, <1>2, <1>4, <1>5
<1> QED
  BY <1>3, <1>6 DEF CountInv

-----------------------------------------------------------------------------
\* A datagram is processed

\* The datagram joins those that have arrived of its block, and of no other.
LEMMA CameAfter ==
  ASSUME SentInv, NEW d \in sent, ProcessObject(d), NEW b \in Nat
  PROVE  /\ arrived' = arrived \cup {d} /\ d \notin arrived
         /\ Came(b, arrived) \subseteq Came(b, arrived')
         /\ b # d.block => Came(b, arrived') = Came(b, arrived)
                           /\ (Parity(b) \in arrived' <=> Parity(b) \in arrived)
         /\ b = d.block /\ d.parity => Came(b, arrived') = Came(b, arrived) /\ d = Parity(b)
         /\ b = d.block /\ ~d.parity => /\ d.seq \in 1..BlockSize /\ d.seq \notin Came(b, arrived)
                                        /\ Came(b, arrived') = Came(b, arrived) \cup {d.seq}
                                        /\ (Parity(b) \in arrived' <=> Parity(b) \in arrived)
<1>1. arrived' = arrived \cup {d} /\ d \notin arrived
  BY DEF ProcessObject
<1>2. CASE d.parity
  <2>1. d = Parity(d.block)
    BY <1>2, SentKinds
  <2>2. \A s \in 1..BlockSize : Data(b, s) # d
    BY <2>1, KindsApart
  <2>3. b # d.block => Parity(b) # d
    BY <2>1, KindsApart
  <2> QED
    BY <1>1, <1>2, <2>1, <2>2, <2>3 DEF Came
<1>3. CASE ~d.parity
  <2>1. d.seq \in 1..BlockSize /\ d = Data(d.block, d.seq)
    BY <1>3, SentKinds
  <2>2. \A s \in 1..BlockSize : Data(b, s) = d => b = d.block /\ s = d.seq
    BY <2>1, KindsApart
  <2>3. Parity(b) # d
    BY <2>1, KindsApart
  <2> QED
    BY <1>1, <1>3, <2>1, <2>2, <2>3 DEF Came
<1> QED
  BY <1>2, <1>3

\* TryDecode and CleanupOldBlocks leave only what has arrived in the blocks.
LEMMA HeldAfter ==
  ASSUME SentInv, HeldInv, NEW d \in sent, ProcessObject(d)
  PROVE  HeldInv'
<1>1. arrived' = arrived \cup {d}
  BY DEF ProcessObject
<1>2. d.block \in Nat /\ d.parity \in BOOLEAN
  BY SentKinds
<1>3. Held(Store(d), d.block, arrived')
  BY <1>1, <1>2, StoreParity, StoreData
<1>4. ASSUME NEW b \in DOMAIN blocks'
      PROVE  b \in Nat /\ Held(blocks'[b], b, arrived')
  <2>1. CASE b # d.block /\ b \in DOMAIN blocks /\ blocks'[b] = blocks[b]
    <3>1. b \in Nat /\ Held(blocks[b], b, arrived)
      BY <2>1 DEF HeldInv
    <3>2. Held(blocks[b], b, arrived')
      BY <1>1, <3>1, HeldGrows
    <3> QED
      BY <2>1, <3>1, <3>2
  <2>2. CASE b = d.block /\ Keeps(d) /\ blocks'[b] = Store(d)
    BY <1>2, <1>3, <2>2
  <2> QED
    BY <2>1, <2>2, BlocksAfter
<1> QED
  BY <1>4 DEF HeldInv

\* No packet of a block is recovered twice.
LEMMA RecoversOnce ==
  ASSUME SentInv, HeldInv, NEW d \in sent, d \notin arrived,
         NEW x \in recovered, RecoveredInv(x), x.block = d.block
  PROVE  ~d.parity /\ Store(d).parity = {}
<1>1. d.parity \in BOOLEAN /\ (d.parity => d = Parity(d.block))
  BY SentKinds
<1>2. Parity(d.block) \in arrived
  BY DEF RecoveredInv
<1>3. ~d.parity
  BY <1>1, <1>2
<1>4. Store(d).parity = Holds(d).parity
  BY <1>3, StoreData
<1>5. Holds(d).parity = {}
  BY DEF Holds, RecoveredInv, NewBlock
<1> QED
  BY <1>3, <1>4, <1>5

\* A new recovery uses up its parity packet, and none comes again for an old one.
LEMMA RecoveredStays ==
  ASSUME SentInv, HeldInv, NEW d \in sent, ProcessObject(d), \A x \in recovered : RecoveredInv(x)
  PROVE  \A x \in recovered' : RecoveredInv(x)'
<1>1. arrived' = arrived \cup {d} /\ d \notin arrived
  BY DEF ProcessObject
<1>2. d.block \in Nat /\ d.parity \in BOOLEAN
  BY SentKinds
<1>3. ASSUME NEW x \in recovered PROVE RecoveredInv(x)'
  <2>1. x.block \in Nat /\ Parity(x.block) \in arrived'
    BY <1>1 DEF RecoveredInv
  <2>2. ASSUME x.block \in DOMAIN blocks' PROVE blocks'[x.block].parity = {}
    <3>1. CASE x.block # d.block /\ x.block \in DOMAIN blocks /\ blocks'[x.block] = blocks[x.block]
      BY <3>1 DEF RecoveredInv
    <3>2. CASE x.block = d.block /\ Keeps(d) /\ blocks'[x.block] = Store(d)
      BY <1>1, <3>2, RecoversOnce
    <3> QED
      BY <2>2, <3>1, <3>2, BlocksAfter
  <2> QED
    BY <2>1, <2>2 DEF RecoveredInv
<1>4. ASSUME Recovers(d), NEW x, x.block = d.block PROVE RecoveredInv(x)'
  <2>1. Held(Store(d), d.block, arrived')
    BY <1>1, <1>2, StoreParity, StoreData
  <2>2. Parity(d.block) \in arrived'
    BY <1>4, <2>1 DEF Held, Recovers, Recoverable
  <2>3. d.block \notin DOMAIN blocks'
    BY <1>4, BlocksAfter DEF Recovers, Keeps
  <2> QED
    BY <1>2, <1>4, <2>2, <2>3 DEF RecoveredInv
<1>5. ASSUME NEW x \in recovered' PROVE x \in recovered \/ (Recovers(d) /\ x.block = d.block)
  <2>1. CASE ~Recovers(d)
    BY <2>1, RecoveredAfter
  <2>2. CASE Recovers(d)
    <3> DEFINE y == [block |-> d.block, payload |-> RecoverMissingPacket(Store(d))]
    <3>1. y.block = d.block
      OBVIOUS
    <3>2. recovered' = recovered \cup {y}
      BY <2>2, RecoveredAfter
    <3> HIDE DEF y
    <3> QED
      BY <2>2, <3>1, <3>2
  <2> QED
    BY <2>1, <2>2
<1> QED
  BY <1>3, <1>4, <1>5

\* A recovery is of the packet that was not held.
LEMMA RecoveryOf ==
  ASSUME SentInv, HeldInv, NEW d \in sent, ProcessObject(d), Recovers(d)
  PROVE  \E x \in recovered', m \in 1..BlockSize :
            /\ recovered' = recovered \cup {x}
            /\ x.block = d.block /\ x.payload.of = {Counter(d.block, m)}
            /\ DOMAIN Store(d).data = (1..BlockSize) \ {m}
            /\ (1..BlockSize) \ {m} \subseteq Came(d.block, arrived')
<1>1. arrived' = arrived \cup {d}
  BY DEF ProcessObject
<1>2. d.block \in Nat /\ d.parity \in BOOLEAN
  BY SentKinds
<1>3. Held(Store(d), d.block, arrived')
  BY <1>1, <1>2, StoreParity, StoreData
<1>4. PICK m \in 1..BlockSize : /\ DOMAIN Store(d).data = (1..BlockSize) \ {m}
                                /\ RecoverMissingPacket(Store(d)).of = {Counter(d.block, m)}
  <2>1. Recoverable(Store(d))
    BY DEF Recovers
  <2> QED
    BY <1>2, <1>3, <2>1, RecoveryOfMissing
<1> DEFINE x == [block |-> d.block, payload |-> RecoverMissingPacket(Store(d))]
<1>5. recovered' = recovered \cup {x}
  BY RecoveredAfter
<1>6. x.block = d.block /\ x.payload = RecoverMissingPacket(Store(d))
  OBVIOUS
<1>7. DOMAIN Store(d).data \subseteq Came(d.block, arrived')
  BY <1>3 DEF Held
<1> HIDE DEF x
<1> QED
  BY <1>4, <1>5, <1>6, <1>7

\* The block of the datagram when it was gathering: now it is full, or one
\* packet was recovered, or it gathers on.
LEMMA GathersOn ==
  ASSUME SentInv, HeldInv, NEW d \in sent, ProcessObject(d),
         Gathers(d.block), d.block \notin cleaned'
  PROVE  PhaseInv(d.block)'
<1> DEFINE b == d.block
           h == Store(d)
           D == DOMAIN h.data
<1>1. arrived' = arrived \cup {d} /\ d \notin arrived
  BY DEF ProcessObject
<1>2. b \in Nat /\ d.parity \in BOOLEAN
  BY SentKinds
<1>3. Held(h, b, arrived')
  BY <1>1, <1>2, StoreParity, StoreData
<1>4. DOMAIN Holds(d).data = Came(b, arrived) /\ (Parity(b) \in arrived => Holds(d).parity # {})
  <2>1. DOMAIN NewBlock.data = {}
    BY DEF NewBlock
  <2> QED
    BY <2>1 DEF Gathers, Holds
<1>5. D = Came(b, arrived') /\ (Parity(b) \in arrived' => h.parity # {})
  <2>1. CASE d.parity
    <3>1. D = DOMAIN Holds(d).data /\ h.parity # {}
      BY <2>1, StoreParity
    <3>2. Came(b, arrived') = Came(b, arrived)
      BY <1>2, <2>1, CameAfter
    <3> QED
      BY <1>4, <3>1, <3>2
  <2>2. CASE ~d.parity
    <3>1. D = DOMAIN Holds(d).data \cup {d.seq} /\ h.parity = Holds(d).parity
      BY <2>2, StoreData
    <3>2. Came(b, arrived') = Came(b, arrived) \cup {d.seq}
          /\ (Parity(b) \in arrived' <=> Parity(b) \in arrived)
      BY <1>2, <2>2, CameAfter
    <3> QED
      BY <1>4, <3>1, <3>2
  <2> QED
    BY <1>2, <2>1, <2>2
<1>6. D \subseteq 1..BlockSize /\ h.received = Cardinality(D)
  <2>1. h = [data |-> h.data, parity |-> h.parity, received |-> Cardinality(D)]
    BY <1>3 DEF Held
  <2>2. D \subseteq 1..BlockSize
    BY <1>5 DEF Came
  <2> HIDE DEF h
  <2> QED
    BY <2>1, <2>2
<1>7. CASE Complete(h)
  <2>1. Came(b, arrived') = 1..BlockSize
    BY <1>5, <1>6, <1>7, AllOfBlock DEF Complete
  <2>2. b \notin DOMAIN blocks'
    BY <1>7, BlocksAfter DEF Keeps
  <2> QED
    BY <2>1, <2>2 DEF PhaseInv, Completed
<1>8. CASE Recovers(d)
  <2>1. PICK x \in recovered', m \in 1..BlockSize :
            /\ x.block = b /\ x.payload.of = {Counter(b, m)}
            /\ (1..BlockSize) \ {m} \subseteq Came(b, arrived')
    BY <1>8, RecoveryOf
  <2>2. Repaired(b)'
    BY <2>1 DEF Repaired
  <2> QED
    BY <2>2 DEF PhaseInv
<1>9. CASE Keeps(d)
  <2>1. b \in DOMAIN blocks' /\ blocks'[b] = h
    BY <1>9, BlocksAfter
  <2>2. Cardinality(D) \in 0..BlockSize /\ Cardinality(D) # BlockSize
        /\ (h.parity # {} => Cardinality(D) # BlockSize - 1)
    BY <1>6, <1>9, AllOfBlock DEF Keeps, Complete, Recoverable
  <2>3. Cardinality(D) < BlockSize /\ (h.parity # {} => Cardinality(D) < BlockSize - 1)
    BY <2>2, XorAssumption
  <2> HIDE DEF h
  <2>4. Gathers(b)'
    BY <1>5, <2>1, <2>3 DEF Gathers
  <2> QED
    BY <2>4 DEF PhaseInv
<1> QED
  BY <1>7, <1>8, <1>9 DEF Keeps, Recovers

\* processObject keeps every block gathering, complete or repaired.
LEMMA PhaseAfter ==
  ASSUME SentInv, HeldInv, NEW d \in sent, ProcessObject(d), NEW b \in Nat, PhaseInv(b)
  PROVE  PhaseInv(b)'
<1>1. SUFFICES ASSUME b \notin cleaned' PROVE PhaseInv(b)'
  BY DEF PhaseInv
<1>2. b \notin cleaned
  BY <1>1, BlocksAfter
<1>3. Came(b, arrived) \subseteq Came(b, arrived') /\ Came(b, arrived') \subseteq 1..BlockSize
  BY CameAfter DEF Came
<1>4. CASE Repaired(b)
  <2>1. recovered \subseteq recovered'
    BY RecoveredAfter
  <2>2. Repaired(b)'
    BY <1>3, <1>4, <2>1 DEF Repaired
  <2> QED
    BY <2>2 DEF PhaseInv
<1>5. CASE Completed(b)
  <2>1. Came(b, arrived') = 1..BlockSize
    BY <1>3, <1>5 DEF Completed
  <2>2. ASSUME b \in DOMAIN blocks' PROVE DOMAIN blocks'[b].data = {}
    <3>1. CASE b # d.block /\ b \in DOMAIN blocks /\ blocks'[b] = blocks[b]
      BY <1>5, <3>1 DEF Completed
    <3>2. CASE b = d.block /\ Keeps(d) /\ blocks'[b] = Store(d)
      <4>1. d.parity
        BY <1>5, <3>2, CameAfter DEF Completed
      <4>2. DOMAIN Store(d).data = DOMAIN Holds(d).data
        BY <4>1, StoreParity
      <4>3. DOMAIN NewBlock.data = {}
        BY DEF NewBlock
      <4>4. DOMAIN Holds(d).data = {}
        BY <1>5, <3>2, <4>3 DEF Holds, Completed
      <4> QED
        BY <3>2, <4>2, <4>4
    <3> QED
      BY <2>2, <3>1, <3>2, BlocksAfter
  <2> QED
    BY <2>1, <2>2 DEF PhaseInv, Completed
<1>6. CASE Gathers(b) /\ b = d.block
  BY <1>1, <1>6, GathersOn
<1>7. CASE Gathers(b) /\ b # d.block
  <2>1. Came(b, arrived') = Came(b, arrived) /\ (Parity(b) \in arrived' <=> Parity(b) \in arrived)
    BY <1>7, CameAfter
  <2>2. b \in DOMAIN blocks' <=> b \in DOMAIN blocks
    BY <1>1, <1>7, BlocksAfter
  <2>3. b \in DOMAIN blocks' => blocks'[b] = blocks[b]
    BY <1>7, BlocksAfter
  <2>4. Gathers(b)'
    BY <1>7, <2>1, <2>2, <2>3 DEF Gathers
  <2> QED
    BY <2>4 DEF PhaseInv
<1> QED
  BY <1>2, <1>4, <1>5, <1>6, <1>7 DEF PhaseInv

\* processObject keeps back at most the one packet that another replaced.
LEMMA HandedAfter ==
  ASSUME SentInv, HeldInv, NEW d \in sent, ProcessObject(d), NEW b \in Nat, HandedInv(b),
         \A x \in recovered : RecoveredInv(x)
  PROVE  HandedInv(b)'
<1> DEFINE C == Counters(b, Came(b, arrived))
           E == Counters(b, Came(b, arrived'))
<1>1. handed \subseteq handed' /\ recovered \subseteq recovered'
  BY HandsOn, RecoveredAfter
<1>2. CASE b # d.block \/ d.parity
  <2>1. E = C
    BY <1>2, CameAfter
  <2> QED
    BY <1>1, <2>1 DEF HandedInv
<1>3. CASE b = d.block /\ ~d.parity
  <2>1. d.seq \in 1..BlockSize /\ Came(b, arrived') = Came(b, arrived) \cup {d.seq}
    BY <1>3, CameAfter
  <2>2. E = C \cup {Counter(b, d.seq)}
    BY <2>1 DEF Counters
  <2> HIDE DEF C, E
  <2>3. CASE ~Recovers(d)
    <3>1. Counter(b, d.seq) \in handed'
      BY <1>3, <2>3, HandsOn
    <3>2. C \subseteq handed => E \subseteq handed'
      BY <1>1, <2>2, <3>1
    <3>3. \A s \in 1..BlockSize : C \ {Counter(b, s)} \subseteq handed => E \ {Counter(b, s)} \subseteq handed'
      BY <1>1, <2>2, <3>1
    <3> QED
      BY <1>1, <3>2, <3>3 DEF HandedInv, C, E
  <2>4. CASE Recovers(d)
    <3>1. \A x \in recovered : x.block # b
      <4>1. SUFFICES ASSUME NEW x \in recovered, x.block = d.block PROVE FALSE
        BY <1>3
      <4>2. d \notin arrived
        BY DEF ProcessObject
      <4> QED
        BY <2>4, <4>1, <4>2, RecoversOnce DEF Recovers, Recoverable
    <3>2. C \subseteq handed
      BY <3>1 DEF HandedInv, C
    <3>3. E \ {Counter(b, d.seq)} \subseteq handed'
      BY <1>1, <2>2, <3>2
    <3>4. \E x \in recovered' : x.block = b
      BY <1>3, <2>4, RecoveryOf
    <3> QED
      BY <2>1, <3>3, <3>4 DEF HandedInv, E
  <2> QED
    BY <2>3, <2>4
<1> QED
  BY <1>2, <1>3

-----------------------------------------------------------------------------
\* The invariant

\* Nothing was sent, and every block is gathering.
LEMMA XorInitial == Init => XorInv
<1> SUFFICES ASSUME Init PROVE XorInv
  OBVIOUS
<1>1. CountInv
  BY XorAssumption DEF Init, CountInv
<1>2. EncInv
  <2>1. enc.blockID = 0 /\ enc.seqID = 0 /\ enc.buffer = <<>> /\ counter = 0
        /\ enc = [blockID |-> 0, seqID |-> 0, buffer |-> <<>>]
    BY DEF Init
  <2>2. <<>> = [s \in 1..0 |-> FormatCounter(Counter(0, s))]
    OBVIOUS
  <2> QED
    BY <2>1, <2>2, XorAssumption DEF EncInv
<1>3. arrived = {} /\ sent = {} /\ recovered = {} /\ DOMAIN blocks = {}
  BY DEF Init
<1>4. SentInv /\ HeldInv
  BY <1>3 DEF SentInv, HeldInv
<1>5. ASSUME NEW b \in Nat PROVE PhaseInv(b) /\ HandedInv(b)
  <2>1. Came(b, arrived) = {}
    BY <1>3 DEF Came
  <2> QED
    BY <1>3, <2>1 DEF PhaseInv, Gathers, HandedInv, Counters
<1> QED
  BY <1>1, <1>2, <1>3, <1>4, <1>5 DEF XorInv

\* publishNext, stopping and processObject keep the invariant.
LEMMA XorInductive == XorInv /\ [Next]_vars => XorInv'
<1> SUFFICES ASSUME XorInv, [Next]_vars PROVE XorInv'
  OBVIOUS
<1> USE DEF XorInv
<1>1. CASE PublishNext
  <2>1. PICK b \in Nat, s \in 1..BlockSize :
        /\ counter = Counter(b, s) /\ counter' = counter + 1
        /\ sent' \subseteq sent \cup {Data(b, s)} \cup (IF s = BlockSize THEN {Parity(b)} ELSE {})
        /\ sent \subseteq sent'
        /\ EncInv'
    BY <1>1, EncoderStep
  <2>2. UNCHANGED <<arrived, blocks, stats, recovered, handed, cleaned>>
        /\ counter < MaxCounter /\ (publishing' = publishing \/ publishing' = FALSE)
    BY <1>1 DEF PublishNext
  <2>3. CountInv'
    <3>1. counter' \in 0..MaxCounter
      BY <2>1, <2>2, XorAssumption DEF CountInv
    <3> QED
      BY <2>2, <3>1 DEF CountInv
  <2>4. counter \in Nat /\ counter < counter'
    BY <2>1 DEF CountInv
  <2>5. ASSUME NEW d \in sent PROVE IsSent(d)'
    <3>1. PICK c \in Nat : \/ \E t \in 1..BlockSize : d = Data(c, t) /\ Counter(c, t) < counter
                           \/ d = Parity(c) /\ Counter(c, BlockSize) < counter
      BY DEF SentInv, IsSent
    <3>2. \A t \in 1..BlockSize : Counter(c, t) < counter => Counter(c, t) < counter'
      <4> TAKE t \in 1..BlockSize
      <4>1. Counter(c, t) \in Nat
        BY CounterInBlock
      <4> QED
        BY <2>1, <2>4, <4>1
    <3>3. BlockSize \in 1..BlockSize
      BY XorAssumption
    <3> QED
      BY <3>1, <3>2, <3>3 DEF IsSent
  <2>6. IsSent(Data(b, s))'
    <3>1. Counter(b, s) < counter'
      BY <2>1, <2>4
    <3> QED
      BY <2>1, <3>1 DEF IsSent
  <2>7. s = BlockSize => IsSent(Parity(b))'
    <3> HAVE s = BlockSize
    <3>1. Counter(b, BlockSize) < counter'
      BY <2>1, <2>4
    <3> QED
      BY <2>1, <3>1 DEF IsSent
  <2>8. SentInv'
    <3>1. arrived' \subseteq sent'
      BY <2>1, <2>2 DEF SentInv
    <3>2. \A d \in sent' : IsSent(d)'
      BY <2>1, <2>5, <2>6, <2>7
    <3> QED
      BY <3>1, <3>2 DEF SentInv
  <2>9. /\ HeldInv' /\ \A x \in recovered' : RecoveredInv(x)'
        /\ \A c \in Nat : PhaseInv(c)' /\ HandedInv(c)'
    BY <2>2 DEF HeldInv, RecoveredInv, PhaseInv, Gathers, Completed, Repaired, HandedInv
  <2> QED
    BY <2>1, <2>3, <2>8, <2>9
<1>2. CASE Stop \/ UNCHANGED vars
  <2>1. /\ UNCHANGED <<counter, enc, sent, arrived, blocks, stats, recovered, handed, cleaned>>
        /\ publishing' = publishing \/ publishing' = FALSE
    BY <1>2 DEF Stop, vars
  <2>2. CountInv'
    BY <2>1 DEF CountInv
  <2>3. EncInv' /\ SentInv' /\ HeldInv'
    BY <2>1 DEF EncInv, SentInv, IsSent, HeldInv
  <2>4. /\ \A x \in recovered' : RecoveredInv(x)'
        /\ \A c \in Nat : PhaseInv(c)' /\ HandedInv(c)'
    BY <2>1 DEF RecoveredInv, PhaseInv, Gathers, Completed, Repaired, HandedInv
  <2> QED
    BY <2>2, <2>3, <2>4
<1>3. ASSUME NEW d \in sent, ProcessObject(d) PROVE XorInv'
  <2>1. CountInv'
    BY <1>3, CountsAfter
  <2>2. EncInv'
    BY <1>3 DEF ProcessObject, EncInv
  <2>3. SentInv'
    BY <1>3 DEF ProcessObject, SentInv, IsSent
  <2>4. HeldInv'
    BY <1>3, HeldAfter
  <2>5. \A x \in recovered' : RecoveredInv(x)'
    BY <1>3, RecoveredStays
  <2>6. \A b \in Nat : PhaseInv(b)'
    BY <1>3, PhaseAfter
  <2>7. \A b \in Nat : HandedInv(b)'
    BY <1>3, HandedAfter
  <2> QED
    BY <2>1, <2>2, <2>3, <2>4, <2>5, <2>6, <2>7
<1> QED
  BY <1>1, <1>2, <1>3 DEF Next

\* The inductive invariant holds in every reachable state.
LEMMA XorInvariant == Spec => []XorInv
BY XorInitial, XorInductive, PTL DEF Spec

-----------------------------------------------------------------------------
\* The theorems

\* The encoder's, the decoder's and the statistics' data stay well formed: for
\* every block size, a block holds data packets of its own numbers and at most
\* one parity packet, and its received count is their number.
THEOREM FecTyping == Spec => []TypeOK
<1>1. XorInv => TypeOK
  <2> SUFFICES ASSUME XorInv PROVE TypeOK
    OBVIOUS
  <2>1. CountInv /\ EncInv /\ SentInv /\ HeldInv /\ BlockSize \in Nat \ {0} /\ MaxCounter \in Nat
    BY XorAssumption DEF XorInv
  <2>2. ASSUME NEW c \in Nat, c < counter PROVE FormatCounter(c) \in Payload
    <3>1. Digits(c) \in Nat /\ c \in 0..MaxCounter
      BY <2>1, <2>2, DigitsRise DEF CountInv
    <3> QED
      BY <3>1 DEF FormatCounter, Payload
  <2>3. ASSUME NEW b \in Nat, Counter(b, BlockSize) < counter PROVE Parity(b).payload \in Payload
    <3>1. Parity(b).payload = [of |-> Counters(b, 1..BlockSize), len |-> Longest(Packets(b))]
      BY ParityOfBlock
    <3>2. \A s \in 1..BlockSize : Counter(b, s) \in 0..MaxCounter
      <4> TAKE s \in 1..BlockSize
      <4>1. BlockSize \in 1..BlockSize
        BY <2>1
      <4>2. Counter(b, s) \in Nat /\ Counter(b, BlockSize) \in Nat
            /\ Counter(b, s) <= Counter(b, BlockSize)
        BY <4>1, CounterInBlock, CounterRises
      <4> QED
        BY <2>1, <2>3, <4>2 DEF CountInv
    <3>3. Counters(b, 1..BlockSize) \subseteq 0..MaxCounter
      BY <3>2 DEF Counters
    <3> QED
      BY <3>1, <3>3, LongestOfBlock DEF Payload
  <2>4. ASSUME NEW d \in sent PROVE d \in Datagram
    <3>1. d.block \in Nat /\ d.parity \in BOOLEAN
      BY <2>1, SentKinds
    <3>2. CASE d.parity
      <4>1. d = Parity(d.block) /\ Counter(d.block, BlockSize) < counter
        BY <2>1, <3>2, SentKinds
      <4>2. Parity(d.block).payload \in Payload
        BY <2>3, <3>1, <4>1
      <4>3. Parity(d.block) = [block |-> d.block, seq |-> -1, parity |-> TRUE,
                               payload |-> Parity(d.block).payload]
        BY DEF Parity
      <4>4. -1 \in -1..BlockSize
        BY <2>1
      <4> QED
        BY <3>1, <4>1, <4>2, <4>3, <4>4 DEF Datagram
    <3>3. CASE ~d.parity
      <4>1. /\ d.seq \in 1..BlockSize /\ d = Data(d.block, d.seq)
            /\ Counter(d.block, d.seq) < counter
        BY <2>1, <3>3, SentKinds
      <4>2. FormatCounter(Counter(d.block, d.seq)) \in Payload
        BY <2>2, <3>1, <4>1, CounterInBlock
      <4>3. d.seq \in -1..BlockSize
        BY <2>1, <4>1
      <4> QED
        BY <3>1, <4>1, <4>2, <4>3 DEF Data, Datagram
    <3> QED
      BY <3>1, <3>2, <3>3
  <2>5. enc.buffer \in Seq(Payload) /\ Len(enc.buffer) = enc.seqID
    <3>1. /\ enc.blockID \in Nat /\ enc.seqID \in 0..BlockSize-1
          /\ enc.buffer = [s \in 1..enc.seqID |-> FormatCounter(Counter(enc.blockID, s))]
          /\ counter = enc.blockID * BlockSize + enc.seqID
      BY <2>1 DEF EncInv
    <3>2. \A s \in 1..enc.seqID : s \in 1..BlockSize /\ Counter(enc.blockID, s) < counter
      BY <2>1, <3>1 DEF Counter
    <3>3. \A s \in 1..enc.seqID : FormatCounter(Counter(enc.blockID, s)) \in Payload
      BY <2>2, <3>1, <3>2, CounterInBlock
    <3> QED
      BY <3>1, <3>3
  <2>6. ASSUME NEW b \in DOMAIN blocks
        PROVE  /\ DOMAIN blocks[b].data \subseteq 1..BlockSize
               /\ \A s \in DOMAIN blocks[b].data : blocks[b].data[s] \in Payload
               /\ blocks[b].parity \subseteq Payload /\ Cardinality(blocks[b].parity) <= 1
               /\ blocks[b].received = Cardinality(DOMAIN blocks[b].data)
    <3> DEFINE h == blocks[b]
    <3>1. b \in Nat /\ Held(h, b, arrived) /\ arrived \subseteq sent
      BY <2>1 DEF HeldInv, SentInv
    <3> HIDE DEF h
    <3>2. h = [data |-> h.data, parity |-> h.parity, received |-> Cardinality(DOMAIN h.data)]
      BY <3>1 DEF Held
    <3>3. DOMAIN h.data \subseteq 1..BlockSize
          /\ \A s \in DOMAIN h.data : Data(b, s) \in arrived /\ h.data[s] = FormatCounter(Counter(b, s))
      BY <3>1 DEF Held, Came
    <3>4. ASSUME NEW s \in DOMAIN h.data PROVE h.data[s] \in Payload
      <4>1. Data(b, s) \in Datagram
        BY <2>4, <3>1, <3>3
      <4>2. Data(b, s).payload \in Payload
        BY <4>1 DEF Datagram
      <4> QED
        BY <3>3, <4>2 DEF Data
    <3>5. h.parity \subseteq Payload /\ Cardinality(h.parity) <= 1
      <4>1. CASE h.parity = {}
        BY <4>1, FS_EmptySet
      <4>2. CASE h.parity # {}
        <5>1. Parity(b) \in Datagram /\ h.parity = {Parity(b).payload}
          BY <2>4, <3>1, <4>2 DEF Held
        <5>2. Parity(b).payload \in Payload
          BY <5>1 DEF Datagram
        <5>3. Cardinality({Parity(b).payload}) = 1
          BY FS_Singleton
        <5>4. Cardinality(h.parity) = 1
          BY <5>1, <5>3
        <5> QED
          BY <5>1, <5>2, <5>4
      <4> QED
        BY <4>1, <4>2
    <3>6. h.received = Cardinality(DOMAIN h.data)
      BY <3>2
    <3> QED
      BY <3>3, <3>4, <3>5, <3>6 DEF h
  <2> QED
    BY <2>1, <2>4, <2>5, <2>6 DEF TypeOK, CountInv, EncInv, SentInv
<1> QED
  BY <1>1, XorInvariant, PTL

\* In every block size and order of arrival, once the parity packet of a block
\* and all of its data packets but one have arrived, TryDecode has returned the
\* missing one, unless CleanupOldBlocks removed the block.
THEOREM OneLossRepaired == Spec => []OneLossIsRepaired
<1>1. XorInv => OneLossIsRepaired
  <2> SUFFICES ASSUME XorInv,
                      NEW d \in arrived, d.parity, d.block \notin cleaned,
                      Cardinality(CountersOf(d.block) \ ArrivedOf(d.block)) = 1
               PROVE  \E x \in recovered : x.block = d.block
                                           /\ x.payload.of = CountersOf(d.block) \ ArrivedOf(d.block)
    BY DEF OneLossIsRepaired
  <2> DEFINE b == d.block
             C == Came(b, arrived)
             M == (1..BlockSize) \ C
  <2>1. CountInv /\ SentInv /\ d \in sent
    BY DEF XorInv, SentInv
  <2>2. b \in Nat /\ d = Parity(b)
    BY <2>1, SentKinds
  <2>3. C \subseteq 1..BlockSize
    BY DEF Came
  <2>4. CountersOf(b) = Counters(b, 1..BlockSize) /\ ArrivedOf(b) = Counters(b, C)
    BY <2>1, <2>2, BlockCounters, ArrivedCounters
  <2> HIDE DEF b, C
  <2>5. CountersOf(b) \ ArrivedOf(b) = Counters(b, M)
    <3>1. \A s, t \in 1..BlockSize : Counter(b, s) = Counter(b, t) => s = t
      BY <2>2, CounterApart
    <3> QED
      BY <2>3, <2>4, <3>1 DEF Counters
  <2>6. PICK m \in 1..BlockSize : M = {m}
    <3>2. Counters(b, M) # {}
      <4>1. Cardinality(Counters(b, M)) = 1
        BY <2>5 DEF b
      <4> QED
        BY <4>1, FS_EmptySet
    <3>3. PICK m \in M : TRUE
      BY <3>2 DEF Counters
    <3>4. ASSUME NEW n \in M PROVE n = m
      <4>1. IsFiniteSet(Counters(b, M)) /\ Cardinality(Counters(b, M)) = 1
        <5>1. IsFiniteSet(Counters(b, M))
          <6>1. IsFiniteSet(0..MaxCounter)
            BY FS_Interval, XorAssumption
          <6>2. Counters(b, M) \subseteq 0..MaxCounter
            BY <2>5 DEF CountersOf
          <6> QED
            BY <6>1, <6>2, FS_Subset
        <5> QED
          BY <2>5, <5>1 DEF b
      <4>2. PICK c : Counters(b, M) = {c}
        BY <4>1, FS_Singleton
      <4>3. Counter(b, n) = c /\ Counter(b, m) = c
        BY <3>3, <4>2 DEF Counters
      <4> QED
        BY <2>2, <3>3, <4>3, CounterApart
    <3> QED
      BY <3>3, <3>4
  <2>7. C = (1..BlockSize) \ {m} /\ Counters(b, M) = {Counter(b, m)}
    BY <2>3, <2>6 DEF Counters
  <2>8. Cardinality(C) = BlockSize - 1
    BY <2>3, <2>7, AllOfBlock
  <2>9. ~Gathers(b)
    <3>1. Parity(b) \in arrived
      BY <2>2
    <3>2. ~(Cardinality(C) < BlockSize - 1)
      BY <2>8, XorAssumption
    <3> QED
      BY <3>1, <3>2 DEF Gathers, C
  <2>10. ~Completed(b)
    BY <2>7 DEF Completed, C
  <2>11. Repaired(b)
    BY <2>2, <2>9, <2>10 DEF XorInv, PhaseInv, b
  <2>12. PICK x \in recovered, n \in 1..BlockSize :
            /\ x.block = b /\ x.payload.of = {Counter(b, n)}
            /\ (1..BlockSize) \ {n} \subseteq C
    BY <2>11 DEF Repaired, C
  <2>13. n = m
    BY <2>7, <2>12
  <2> QED
    BY <2>5, <2>7, <2>12, <2>13 DEF b
<1> QED
  BY <1>1, XorInvariant, PTL

\* In every block size and order of arrival, TryDecode keeps at most one data
\* packet of a block that has arrived from the application, and only when it
\* has returned a recovered packet of that block.
THEOREM WithheldForRecovery == Spec => []WithheldOnlyOnRecovery
<1>1. XorInv => WithheldOnlyOnRecovery
  <2> SUFFICES ASSUME XorInv, NEW d \in arrived, ArrivedOf(d.block) \ handed # {}
               PROVE  /\ Cardinality(ArrivedOf(d.block) \ handed) = 1
                      /\ \E x \in recovered : x.block = d.block
    BY DEF WithheldOnlyOnRecovery
  <2> DEFINE b == d.block
             W == ArrivedOf(b) \ handed
  <2>1. SentInv /\ d \in sent
    BY DEF XorInv, SentInv
  <2>2. b \in Nat
    BY <2>1, SentKinds
  <2>3. ArrivedOf(b) = Counters(b, Came(b, arrived)) /\ HandedInv(b)
    BY <2>1, <2>2, ArrivedCounters DEF XorInv
  <2>4. \E x \in recovered : x.block = b
    BY <2>3 DEF HandedInv
  <2>5. PICK s \in 1..BlockSize : ArrivedOf(b) \ {Counter(b, s)} \subseteq handed
    BY <2>3 DEF HandedInv
  <2>6. W = {Counter(b, s)}
    BY <2>5
  <2>7. Cardinality({Counter(b, s)}) = 1
    BY FS_Singleton
  <2> QED
    BY <2>4, <2>6, <2>7
<1> QED
  BY <1>1, XorInvariant, PTL

\* In every order of arrival, and for every block size above one,
\* recoverMissingPacket returns exactly one packet of the block, and one that
\* has not arrived unless CleanupOldBlocks had removed the block.  In blocks of
\* one packet TryDecode forgets the block with its packet, and takes the parity
\* packet that follows for one that repairs its loss.
THEOREM RecoveryExact ==
  ASSUME BlockSize > 1
  PROVE  Spec => RecoveryIsExact
<1> DEFINE Exact == \A x \in recovered' \ recovered :
                       \E c \in CountersOf(x.block) :
                          /\ x.payload.of = {c}
                          /\ c \in ArrivedOf(x.block)' => x.block \in cleaned
<1>1. XorInv /\ XorInv' /\ [Next]_vars => [Exact]_vars
  <2> SUFFICES ASSUME XorInv, XorInv', Next, NEW x \in recovered' \ recovered
               PROVE  \E c \in CountersOf(x.block) :
                          /\ x.payload.of = {c}
                          /\ c \in ArrivedOf(x.block)' => x.block \in cleaned
    OBVIOUS
  <2>1. PICK d \in sent : ProcessObject(d)
    <3>1. ~PublishNext /\ ~Stop
      BY DEF PublishNext, Stop
    <3> QED
      BY <3>1 DEF Next
  <2>2. CountInv /\ SentInv /\ HeldInv /\ CountInv' /\ SentInv' /\ (\A y \in recovered : RecoveredInv(y))
    BY DEF XorInv
  <2>3. Recovers(d)
    BY <2>1, RecoveredAfter
  <2> DEFINE b == d.block
             D == DOMAIN Store(d).data
  <2>4. PICK m \in 1..BlockSize : /\ x.block = b /\ x.payload.of = {Counter(b, m)}
                                  /\ D = (1..BlockSize) \ {m}
    BY <2>1, <2>2, <2>3, RecoveryOf
  <2>5. b \in Nat /\ d.parity \in BOOLEAN /\ d \notin arrived /\ arrived' = arrived \cup {d}
    BY <2>1, <2>2, SentKinds DEF ProcessObject
  <2>6. Parity(b) \in sent
    <3>1. Held(Store(d), b, arrived \cup {d})
      BY <2>2, <2>5, StoreParity, StoreData
    <3>2. Store(d).parity # {}
      BY <2>3 DEF Recovers, Recoverable
    <3> QED
      BY <2>2, <3>1, <3>2 DEF Held, SentInv
  <2>7. Counter(b, m) \in CountersOf(b)
    <3>1. CountersOf(b) = Counters(b, 1..BlockSize)
      BY <2>2, <2>5, <2>6, BlockCounters
    <3> QED
      BY <3>1 DEF Counters
  <2>8. ASSUME Counter(b, m) \in ArrivedOf(b)', b \notin cleaned PROVE FALSE
    <3>1. m \in Came(b, arrived')
      <4>1. sent' = sent /\ arrived' \subseteq sent
        BY <2>1, <2>2, <2>5 DEF ProcessObject, SentInv
      <4>2. UNION {e.payload.of : e \in {y \in arrived' : y.block = b /\ ~y.parity}}
               = Counters(b, Came(b, arrived'))
        BY <2>2, <2>5, <4>1, CountersAmong
      <4>3. Counter(b, m) \in UNION {e.payload.of : e \in {y \in arrived' : y.block = b /\ ~y.parity}}
        BY <2>8 DEF ArrivedOf
      <4>4. PICK s \in Came(b, arrived') : Counter(b, m) = Counter(b, s)
        BY <4>2, <4>3 DEF Counters
      <4> QED
        BY <2>5, <4>4, CounterApart DEF Came
    <3>2. CASE Gathers(b)
      <4>1. DOMAIN NewBlock.data = {}
        BY DEF NewBlock
      <4>2. DOMAIN Holds(d).data = Came(b, arrived)
        BY <3>2, <4>1 DEF Gathers, Holds
      <4>3. D = Came(b, arrived')
        <5>1. CASE d.parity
          <6>1. D = DOMAIN Holds(d).data
            BY <2>2, <5>1, StoreParity
          <6>2. Came(b, arrived') = Came(b, arrived)
            BY <2>1, <2>2, <2>5, <5>1, CameAfter
          <6> QED
            BY <4>2, <6>1, <6>2
        <5>2. CASE ~d.parity
          <6>1. D = DOMAIN Holds(d).data \cup {d.seq}
            BY <2>2, <5>2, StoreData
          <6>2. Came(b, arrived') = Came(b, arrived) \cup {d.seq}
            BY <2>1, <2>2, <2>5, <5>2, CameAfter
          <6> QED
            BY <4>2, <6>1, <6>2
        <5> QED
          BY <2>5, <5>1, <5>2
      <4> QED
        BY <2>4, <3>1, <4>3
    <3>3. CASE Completed(b)
      <4>1. d.parity
        BY <2>1, <2>2, <2>5, <3>3, CameAfter DEF Completed
      <4>2. DOMAIN NewBlock.data = {}
        BY DEF NewBlock
      <4>3. DOMAIN Holds(d).data = {}
        BY <3>3, <4>2 DEF Holds, Completed
      <4>4. (1..BlockSize) \ {m} = {}
        BY <2>2, <2>4, <4>1, <4>3, StoreParity
      <4>5. 1 \in 1..BlockSize /\ 2 \in 1..BlockSize
        BY XorAssumption
      <4> QED
        BY <4>4, <4>5
    <3>4. CASE Repaired(b)
      <4>1. PICK y \in recovered : y.block = b
        BY <3>4 DEF Repaired
      <4>2. Store(d).parity = {}
        BY <2>2, <2>5, <4>1, RecoversOnce
      <4> QED
        BY <2>3, <4>2 DEF Recovers, Recoverable
    <3> QED
      BY <2>5, <2>8, <3>2, <3>3, <3>4 DEF XorInv, PhaseInv
  <2> QED
    BY <2>4, <2>7, <2>8
<1> QED
  BY <1>1, XorInvariant, PTL DEF Spec, RecoveryIsExact
=============================================================================
