----------------------------- MODULE MCDelivery -----------------------------
(* Instance of Delivery for TLC.                                            *)
EXTENDS Delivery, TLC

CONSTANTS r1, r2

TwoRequests == {r1, r2}
Symmetry == Permutations(TwoRequests)

\* Left to the runs of Subscribe: SUBSCRIBE_UPDATE, which touches no data, and
\* calls that fail to write.
DataOnly == updated = {} /\ \A r \in Requests : call[r] # "unsent"

\* One subscription with all its streams and objects, or two with one stream and
\* one object, as far as routing is concerned: handlers answer before they
\* return, as NoMisrouting needs, and streams and subscriptions stay open.
OneOrSmall ==
    \/ Cardinality({r \in Requests : call[r] # "idle"}) < 2
    \/ /\ Synchronous /\ unsubscribed = {} /\ \A r \in Requests : closing[r] = "no"
       /\ Len(published) < 2 /\ Cardinality(opening) < 2 /\ Len(streams) < 2
       /\ \A r \in Requests : count[r] < 2
       /\ \A i \in 1..Len(streams) : ~streams[i].fin
=============================================================================
