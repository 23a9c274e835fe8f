------------------------------ MODULE WireCodec ------------------------------
(***************************************************************************)
(* The encoding of control messages and objects (internal/wire).           *)
(*                                                                         *)
(* A byte is a number below 256, a string a sequence of bytes, and a       *)
(* message a record with the field names of its Go type and its message    *)
(* type under "type".  Every message has an Append, which is the code's    *)
(* Append, and a layout, the sequence of steps its parse takes; Parse runs *)
(* a layout over the bytes of a message body.                              *)
(*                                                                         *)
(* io.EOF and io.ErrUnexpectedEOF, which the callers do not tell apart in  *)
(* a message body, are both "EOF".                                         *)
(***************************************************************************)
EXTENDS Integers, SequencesExt, TLC

Drop(data, n) == SubSeq(data, n + 1, Len(data))

\* The result of parsing a value off the front of some bytes.
Parsed(v, data) == [v |-> v, data |-> data, err |-> "none"]
Failed(err) == [v |-> <<>>, data |-> <<>>, err |-> err]
\* A result, and how to go on with it unless it is an error.
Then(r, Next(_)) == CHOOSE s \in {IF p.err # "none" THEN p ELSE Next(p) : p \in {r}} : TRUE

-----------------------------------------------------------------------------
\* quicvarint.  Bound: values below 2^31, TLC's integers.

BigEndian(v, n) == [i \in 1..n |-> (v \div 256^(n - i)) % 256]

VarInt(v) ==
    CASE v < 2^6 -> <<v>>
      [] v \in 2^6..2^14 - 1 -> <<64 + v \div 256, v % 256>>
      [] v \in 2^14..2^30 - 1 -> [BigEndian(v, 4) EXCEPT ![1] = @ + 128]
      [] OTHER -> <<192, 0, 0, 0>> \o BigEndian(v, 4)

ParseVarInt(data) ==
    IF data = <<>> \/ Len(data) < 2^(data[1] \div 64) THEN Failed("EOF")
    ELSE LET n == 2^(data[1] \div 64)
             tail == SubSeq(data, IF n = 8 THEN 6 ELSE 2, n)
             high == IF n = 8 THEN data[5] % 128 ELSE data[1] % 64
         IN  Parsed(FoldLeft(LAMBDA a, b : a * 256 + b, high, tail), Drop(data, n))

-----------------------------------------------------------------------------
\* Strings, tuples, locations, versions and parameters

\* appendVarIntBytes, parseVarIntBytes
Bytes(s) == VarInt(Len(s)) \o s

ParseBytesOr(data, err) ==
    Then(ParseVarInt(data), LAMBDA l :
        IF Len(l.data) < l.v THEN Failed(err) ELSE Parsed(SubSeq(l.data, 1, l.v), Drop(l.data, l.v)))
ParseVarIntBytes(data) == ParseBytesOr(data, "EOF")

\* A count, then as many elements; parsing stops at the first error, so more
\* elements than there are bytes need not be tried.
Counted(Elem(_), s) == VarInt(Len(s)) \o FlattenSeq([i \in 1..Len(s) |-> Elem(s[i])])

ParseCounted(Elem(_), data) ==
    LET next(r, i) == Then(r, LAMBDA p : Then(Elem(p.data), LAMBDA e : Parsed(Append(p.v, e.v), e.data)))
        tries(count) == IF count.v > Len(count.data) THEN Len(count.data) + 1 ELSE count.v
    IN  Then(ParseVarInt(data), LAMBDA count :
            FoldLeft(next, Parsed(<<>>, count.data), [i \in 1..tries(count) |-> i]))

\* Tuple.append, parseTuple
Tuple(t) == Counted(Bytes, t)
ParseTuple(data) == LET element(d) == ParseBytesOr(d, "errLengthMismatch") IN ParseCounted(element, data)

\* versions.append, versions.parse
Versions(vs) == Counted(VarInt, vs)
ParseVersions(data) == ParseCounted(ParseVarInt, data)

\* Location.append, Location.parse
LocationBytes(l) == VarInt(l.Group) \o VarInt(l.Object)
ParseLocation(data) ==
    Then(ParseVarInt(data), LAMBDA g :
        Then(ParseVarInt(g.data), LAMBDA o : Parsed([Group |-> g.v, Object |-> o.v], o.data)))

\* KeyValuePair.append, KeyValuePair.parse: a pair of odd type carries bytes,
\* one of even type a number.  A length beyond the end of the body is out of
\* the slice's range.
KeyValuePair(p) == VarInt(p.Type) \o IF p.Type % 2 = 1 THEN Bytes(p.Value) ELSE VarInt(p.Value)

ParseKeyValuePair(data) ==
    Then(ParseVarInt(data), LAMBDA t :
        Then(IF t.v % 2 = 1 THEN ParseBytesOr(t.data, "panic") ELSE ParseVarInt(t.data),
             LAMBDA v : Parsed([Type |-> t.v, Value |-> v.v], v.data)))

\* KVPList.appendNum, KVPList.parseNum
Params(ps) == Counted(KeyValuePair, ps)
ParseParams(data) == ParseCounted(ParseKeyValuePair, data)

\* KVPList.appendLength of the empty list, the only one the library writes,
\* and parseLengthReader, which returns an error after any extension it read.
NoExtensions == VarInt(0)
ParseExtensions(data) == Then(ParseVarInt(data), LAMBDA l : IF l.v # 0 THEN Failed("EOF") ELSE l)

-----------------------------------------------------------------------------
\* Layouts

V(name) == [kind |-> "varint", name |-> name]
B(name) == [kind |-> "byte", name |-> name]
S(name) == [kind |-> "bytes", name |-> name]
T(name) == [kind |-> "tuple", name |-> name]
L(name) == [kind |-> "location", name |-> name]
P(name) == [kind |-> "params", name |-> name]
Vs(name) == [kind |-> "versions", name |-> name]
\* At least n more bytes, checked before single bytes are taken.
AtLeast(n) == [kind |-> "at least", n |-> n]
\* A field whose value must be in a set.
In(field, set, err) == [kind |-> "in", field |-> field, set |-> set, err |-> err]
\* A field that is there when an earlier one is in a set.
When(name, set, field) == [kind |-> "when", name |-> name, set |-> set, field |-> field]

ParseValue(kind, data) ==
    CASE kind = "varint" -> ParseVarInt(data)
      [] kind = "byte" -> Parsed(data[1], Tail(data))
      [] kind = "bytes" -> ParseVarIntBytes(data)
      [] kind = "tuple" -> ParseTuple(data)
      [] kind = "location" -> ParseLocation(data)
      [] kind = "params" -> ParseParams(data)
      [] kind = "versions" -> ParseVersions(data)

\* The parse state: the fields so far in v, the bytes left in data.
Take(p, field) ==
    Then(ParseValue(field.kind, p.data), LAMBDA r : Parsed(p.v @@ (field.name :> r.v), r.data))

TakeIn(p, f) ==
    Then(Take(p, f.field), LAMBDA r : IF r.v[f.field.name] \in f.set THEN r ELSE Failed(f.err))

TakeStep(r, f) ==
    Then(r, LAMBDA p :
        CASE f.kind = "at least" -> IF Len(p.data) < f.n THEN Failed("errLengthMismatch") ELSE p
          [] f.kind = "in" -> TakeIn(p, f)
          [] f.kind = "when" -> IF p.v[f.name] \in f.set THEN Take(p, f.field) ELSE p
          [] OTHER -> Take(p, f))

\* What parse makes of a body; bytes it does not get to are ignored.
Parse(type, layout, body) == FoldLeft(TakeStep, Parsed([type |-> type], body), layout)
=============================================================================
