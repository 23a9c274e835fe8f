------------------------------- MODULE XorFec -------------------------------
(***************************************************************************)
(* XOR forward error correction (fec/xor/xor.go) between the counter       *)
(* publisher and subscriber of fec/xor/example, over datagrams that may be *)
(* lost and reordered.                                                     *)
(*                                                                         *)
(* A payload is symbolic: the set of counter values XORed into it and its  *)
(* length in bytes, of which those past a counter's digits are zero.  XOR  *)
(* of payloads is the symmetric difference of their sets.  A datagram is   *)
(* its payload with the metadata wrapWithMetadata puts in front.           *)
(***************************************************************************)
EXTENDS Integers, Sequences, FiniteSets

CONSTANTS
    BlockSize,     \* Config.BlockSize, the same at both ends
    Base,          \* base of the decimal counter format (10)
    CleanupEvery,  \* deliveries between two CleanupOldBlocks (10)
    KeepBlocks,    \* blocks CleanupOldBlocks keeps (10)
    MaxCounter     \* bound: counters published

ASSUME XorAssumption ==
    /\ BlockSize \in Nat \ {0} /\ Base \in Nat \ {0, 1}
    /\ CleanupEvery \in Nat \ {0} /\ KeepBlocks \in Nat /\ MaxCounter \in Nat

VARIABLES
    publishing,  \* the publisher's loop is running
    counter,     \* the next counter value
    enc,         \* the Encoder
    sent,        \* datagrams sent ...
    arrived,     \* ... and those of them the subscriber has processed
    blocks,      \* Decoder.blocks
    stats,       \* totalReceived, recoveredCount
    recovered,   \* payloads recoverMissingPacket has returned, with their block
    handed,      \* counter values handed to the application
    cleaned      \* blocks CleanupOldBlocks has removed

vars == <<publishing, counter, enc, sent, arrived, blocks, stats, recovered, handed, cleaned>>

Payload == [of : SUBSET (0..MaxCounter), len : Nat]
Datagram == [block : Nat, seq : -1..BlockSize, parity : BOOLEAN, payload : Payload]

TypeOK ==
    /\ publishing \in BOOLEAN
    /\ counter \in 0..MaxCounter
    /\ enc.blockID \in Nat /\ enc.seqID \in 0..BlockSize-1
    /\ enc.buffer \in Seq(Payload) /\ Len(enc.buffer) = enc.seqID
    /\ sent \subseteq Datagram /\ arrived \subseteq sent
    /\ \A b \in DOMAIN blocks :
          /\ DOMAIN blocks[b].data \subseteq 1..BlockSize
          /\ \A s \in DOMAIN blocks[b].data : blocks[b].data[s] \in Payload
          /\ blocks[b].parity \subseteq Payload /\ Cardinality(blocks[b].parity) <= 1
          /\ blocks[b].received = Cardinality(DOMAIN blocks[b].data)
    /\ stats \in [total : Nat, recovered : Nat] /\ stats.recovered <= stats.total

Init ==
    /\ publishing = TRUE
    /\ counter = 0
    /\ enc = [blockID |-> 0, seqID |-> 0, buffer |-> <<>>]
    /\ sent = {} /\ arrived = {}
    /\ blocks = <<>>
    /\ stats = [total |-> 0, recovered |-> 0]
    /\ recovered = {} /\ handed = {} /\ cleaned = {}

-----------------------------------------------------------------------------
\* Payloads

\* strconv.FormatUint: one digit, and one for each power of the base reached.
Digits(c) == 1 + Cardinality({k \in 1..c : Base^k \in 1..c})
FormatCounter(c) == [of |-> {c}, len |-> Digits(c)]

\* parseCounterValue: zero bytes behind the digits, or the XOR of several
\* counters, are no number.
Parses(p) == \E c \in p.of : p = FormatCounter(c)

Xor(S, T) == (S \ T) \cup (T \ S)

\* The counters that appear in an odd number of the payloads of a function.
XorAll(ps) ==
    {c \in UNION {ps[i].of : i \in DOMAIN ps} :
        Cardinality({i \in DOMAIN ps : c \in ps[i].of}) % 2 = 1}

Longest(ps) == CHOOSE n \in {ps[i].len : i \in DOMAIN ps} : \A i \in DOMAIN ps : ps[i].len <= n

-----------------------------------------------------------------------------
\* Encoder

GenerateParityShort(buffer) ==
    [of |-> XorAll(SubSeq(buffer, 1, Len(buffer) - 1)), len |-> Longest(buffer)]
GenerateParity(buffer) == [of |-> XorAll(buffer), len |-> Longest(buffer)]

FlushEncoderKeepsSeq(e) == [blockID |-> e.blockID + 1, seqID |-> e.seqID, buffer |-> <<>>]
FlushEncoder(e) == [blockID |-> e.blockID + 1, seqID |-> 0, buffer |-> <<>>]

\* The encoder after append and increment in TryEncode; the block is full, and
\* flushed, when seqID has reached the block size.
Appended(e, p) == [blockID |-> e.blockID, seqID |-> e.seqID + 1, buffer |-> Append(e.buffer, p)]
Full(e) == e.seqID >= BlockSize

DataPacket(e, p) == [block |-> e.blockID, seq |-> e.seqID, parity |-> FALSE, payload |-> p]
ParityPacket(e) == [block |-> e.blockID, seq |-> -1, parity |-> TRUE,
                    payload |-> GenerateParity(e.buffer)]

\* publishNext: encode the counter, send the data packet and, when it completes
\* a block, the parity packet.  Either send may fail, which ends the loop.
PublishNext ==
    LET p == FormatCounter(counter)
        e == Appended(enc, p)
    IN  /\ publishing /\ counter < MaxCounter
        /\ counter' = counter + 1
        /\ enc' = IF Full(e) THEN FlushEncoder(e) ELSE e
        /\ \/ /\ sent' = sent \cup {DataPacket(e, p)} \cup (IF Full(e) THEN {ParityPacket(e)} ELSE {})
              /\ UNCHANGED publishing
           \/ /\ sent' \in {sent} \cup (IF Full(e) THEN {sent \cup {DataPacket(e, p)}} ELSE {})
              /\ publishing' = FALSE
        /\ UNCHANGED <<arrived, blocks, stats, recovered, handed, cleaned>>

Stop ==
    /\ publishing
    /\ publishing' = FALSE
    /\ UNCHANGED <<counter, enc, sent, arrived, blocks, stats, recovered, handed, cleaned>>

-----------------------------------------------------------------------------
\* Decoder

\* parity holds the parity packet, once there is one.
NewBlock == [data |-> <<>>, parity |-> {}, received |-> 0]

\* The block of a datagram with the datagram in it.
Store(d) ==
    LET b == IF d.block \in DOMAIN blocks THEN blocks[d.block] ELSE NewBlock
    IN  IF d.parity THEN [b EXCEPT !.parity = {d.payload}]
        ELSE IF d.seq \in DOMAIN b.data THEN b
        ELSE [b EXCEPT !.data = [s \in DOMAIN @ \cup {d.seq} |-> IF s = d.seq THEN d.payload ELSE @[s]],
                       !.received = @ + 1]

Complete(b) == b.received = BlockSize

RecoverableByOne(b) == b.parity # {} /\ b.received = BlockSize
Recoverable(b) == b.parity # {} /\ b.received = BlockSize - 1

\* recoverMissingPacket; the search for the missing number always succeeds, as
\* no data packet has number 0.
RecoverMissingPacket(b) ==
    LET parity == CHOOSE p \in b.parity : TRUE
    IN  [of |-> Xor(parity.of, XorAll(b.data)), len |-> parity.len]

Put(f, k, v) == [x \in DOMAIN f \cup {k} |-> IF x = k THEN v ELSE f[x]]
Drop(f, S) == [x \in DOMAIN f \ S |-> f[x]]

\* TryDecode: what it returns (nothing, or one payload) and the blocks it leaves.
TryDecodeMute(d) ==
    LET b == Store(d)
    IN  IF Complete(b) THEN [out |-> {}, blocks |-> Drop(blocks, {d.block})]
        ELSE IF Recoverable(b) THEN [out |-> {RecoverMissingPacket(b)}, blocks |-> Drop(blocks, {d.block})]
        ELSE [out |-> IF d.parity THEN {} ELSE {d.payload}, blocks |-> Put(blocks, d.block, b)]
TryDecode(d) ==
    LET b == Store(d)
    IN  IF Complete(b) THEN [out |-> {d.payload}, blocks |-> Drop(blocks, {d.block})]
        ELSE IF Recoverable(b) THEN [out |-> {RecoverMissingPacket(b)}, blocks |-> Drop(blocks, {d.block})]
        ELSE [out |-> IF d.parity THEN {} ELSE {d.payload}, blocks |-> Put(blocks, d.block, b)]

CleanupOldBlocks(bs, current) == {b \in DOMAIN bs : b < current - KeepBlocks}

\* processObject: decode, and count a payload that is a counter value; every
\* CleanupEvery of them, remove old blocks.
ProcessObject(d) ==
    LET res == TryDecode(d)
        wasRecovered == ~Complete(Store(d)) /\ Recoverable(Store(d))
        counted == {p \in res.out : Parses(p)}
        total == stats.total + Cardinality(counted)
        old == IF counted # {} /\ total % CleanupEvery = 0
               THEN CleanupOldBlocks(res.blocks, d.block) ELSE {}
    IN  /\ d \in sent \ arrived
        /\ arrived' = arrived \cup {d}
        /\ blocks' = Drop(res.blocks, old)
        /\ cleaned' = cleaned \cup old
        /\ stats' = [total |-> total,
                     recovered |-> stats.recovered + IF wasRecovered THEN Cardinality(counted) ELSE 0]
        /\ recovered' = recovered \cup
                           (IF wasRecovered THEN {[block |-> d.block, payload |-> p] : p \in res.out} ELSE {})
        /\ handed' = handed \cup UNION {p.of : p \in counted}
        /\ UNCHANGED <<publishing, counter, enc, sent>>

Next == PublishNext \/ Stop \/ \E d \in sent : ProcessObject(d)

Spec == Init /\ [][Next]_vars

-----------------------------------------------------------------------------
\* Properties

\* The counters of a block, and those of them that have arrived.
CountersOf(b) == {c \in 0..MaxCounter : c \div BlockSize = b}
ArrivedOf(b) == UNION {d.payload.of : d \in {x \in arrived : x.block = b /\ ~x.parity}}
ParityArrived(b) == \E d \in arrived : d.block = b /\ d.parity

\* recoverMissingPacket returns exactly one packet of the block, one that has
\* not arrived (unless the block had been cleaned up): never a mixture of
\* packets and never one the subscriber has already.
RecoveryIsExact ==
    [][\A x \in recovered' \ recovered :
          \E c \in CountersOf(x.block) :
             /\ x.payload.of = {c}
             /\ c \in ArrivedOf(x.block)' => x.block \in cleaned]_vars

\* One lost data packet per block is repaired: once the parity packet and all
\* data packets but one have arrived, in whatever order, TryDecode has returned
\* the missing one, unless the block was cleaned up before.
OneLossIsRepaired ==
    \A d \in arrived :
        LET missing == CountersOf(d.block) \ ArrivedOf(d.block)
        IN  d.parity /\ d.block \notin cleaned /\ Cardinality(missing) = 1
            => \E x \in recovered : x.block = d.block /\ x.payload.of = missing

\* TryDecode keeps a data packet that arrived from the application only where
\* it returns a recovered packet in its place, so at most one per block.
WithheldOnlyOnRecovery ==
    \A d \in arrived :
        LET withheld == ArrivedOf(d.block) \ handed
        IN  withheld # {} => Cardinality(withheld) = 1 /\ \E x \in recovered : x.block = d.block

\* "Receives packets and automatically recovers lost ones"
\* (fec/xor/example/README.md): the only packet of a block that was lost
\* reaches the application.
LostOnesAreRecovered ==
    \A d \in arrived :
        LET missing == CountersOf(d.block) \ ArrivedOf(d.block)
        IN  d.parity /\ d.block \notin cleaned /\ Cardinality(missing) = 1 => missing \subseteq handed
=============================================================================
