---------------------------- MODULE MCSubscribe ----------------------------
(* Instances of Subscribe for TLC.                                          *)
EXTENDS Subscribe

CONSTANTS r1, r2

OneRequest == {r1}
TwoRequests == {r1, r2}
=============================================================================
