---------------------------- MODULE MCExchanges ----------------------------
(* Instances of Exchanges and Fetch for TLC.                                *)
EXTENDS Fetch

TwoIDs == {0, 2}

Asks(kinds, namespaces) == [TwoIDs -> kinds \X namespaces]

\* Two requests without a track, the first of namespace n1.  A second valid
\* namespace is told apart by requests of one kind only, as every kind has a map
\* of its own, ...
Trackless ==
    {p \in Asks(AllKinds \ {"FETCH"}, {"n1", "n2", "invalid"}) :
        p[0][2] = "n1" /\ (p[2][2] = "n2" => p[0][1] = p[2][1])}

\* ... or a fetch, and another one or a status request.
Fetching ==
    {p \in Asks({"FETCH", "TRACK_STATUS_REQUEST"}, {"n1", "invalid"}) : p[0] = <<"FETCH", "n1">>}

MixedPlans == Trackless \cup Fetching
TwoAnnouncements == Asks({"ANNOUNCE"}, {"n1"})
=============================================================================
