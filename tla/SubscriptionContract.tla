------------------------ MODULE SubscriptionContract ------------------------
(***************************************************************************)
(* What the subscription machinery promises its two applications, without  *)
(* messages, maps, channels or readers: how the outcome of a Subscribe     *)
(* call (asked) is related to the decision of the publisher (decided).     *)
(* Both sides may stop at any point; a call that learns an outcome learns  *)
(* the one the publisher decided on, exactly once, and the end of a track  *)
(* is seen only after the publisher ended it.                              *)
(***************************************************************************)
CONSTANT Requests

VARIABLES
    asked,    \* per request: idle, asking, established, refused, abandoned
    decided,  \* per request: open, accepted, refused, ended
    ended     \* per request: the subscriber has seen the end of the track

cvars == <<asked, decided, ended>>

Init ==
    /\ asked = [r \in Requests |-> "idle"]
    /\ decided = [r \in Requests |-> "open"]
    /\ ended = [r \in Requests |-> FALSE]

Ask(r) ==
    /\ asked[r] = "idle"
    /\ asked' = [asked EXCEPT ![r] = "asking"]
    /\ UNCHANGED <<decided, ended>>

\* The publisher decides once, on something that was asked, even if the caller
\* has given up in the meantime.
Decide(r) ==
    /\ asked[r] \in {"asking", "abandoned"} /\ decided[r] = "open"
    /\ \E d \in {"accepted", "refused"} : decided' = [decided EXCEPT ![r] = d]
    /\ UNCHANGED <<asked, ended>>

\* The caller learns the publisher's decision, or gives up.
Learn(r) ==
    /\ asked[r] = "asking"
    /\ \/ /\ decided[r] \in {"accepted", "ended"}
          /\ asked' = [asked EXCEPT ![r] = "established"]
       \/ /\ decided[r] = "refused"
          /\ asked' = [asked EXCEPT ![r] = "refused"]
       \/ asked' = [asked EXCEPT ![r] = "abandoned"]
    /\ UNCHANGED <<decided, ended>>

End(r) ==
    /\ decided[r] = "accepted"
    /\ decided' = [decided EXCEPT ![r] = "ended"]
    /\ UNCHANGED <<asked, ended>>

SeeEnd(r) ==
    /\ decided[r] = "ended" /\ ~ended[r]
    /\ ended' = [ended EXCEPT ![r] = TRUE]
    /\ UNCHANGED <<asked, decided>>

Next == \E r \in Requests : Ask(r) \/ Decide(r) \/ Learn(r) \/ End(r) \/ SeeEnd(r)

Spec == Init /\ [][Next]_cvars
=============================================================================
