----------------------------- MODULE RequestIDs -----------------------------
(***************************************************************************)
(* Request ID arithmetic of a session: the requestIDGenerator of           *)
(* request_id.go, and the limit a session enforces on the request IDs of   *)
(* its peer and raises in addLocalTrack (session.go).                      *)
(*                                                                         *)
(* A generator is a record [id, max]: id is the next request ID to hand    *)
(* out, max the MAX_REQUEST_ID the peer granted.  The client counts 0, 2,  *)
(* 4 ... and the server 1, 3, 5 ...  The values a session reaches stay far *)
(* below 2^62, the largest QUIC varint, so they are modelled as naturals.  *)
(***************************************************************************)
EXTENDS Naturals

Generator == [id : Nat, max : Nat]

\* newRequestIDGenerator(perspective, 0, 2): client 0, server 1, nothing granted.
NewGenerator(perspective) == [id |-> perspective, max |-> 0]

\* next() returns errRequestIDblocked: the next ID is not below the grant.
IDBlockedOffByOne(g) == g.id > g.max
IDBlocked(g) == g.id >= g.max

TakeIDBackwards(g) == [id |-> g.id - 2, max |-> g.max]
TakeID(g) == [id |-> g.id + 2, max |-> g.max]

\* setMax(v) refuses a grant below the one held: errMaxRequestIDDecreased.
SetMaxOK(g, v) == v >= g.max

SetMax(g, v) == [id |-> g.id, max |-> v]

-----------------------------------------------------------------------------
\* addLocalTrack: errMaxRequestIDViolated, and when and how the limit grows.

OverLimit(id, localMax) == id >= localMax

RaisesLimitLate(id, localMax) == id >= localMax - 1
RaisesLimit(id, localMax) == id >= localMax \div 2

RaisedLimitLost(localMax) == localMax
RaisedLimit(localMax) == 2 * localMax
=============================================================================
