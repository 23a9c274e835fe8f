---------------------------- MODULE MCRequestFlow ----------------------------
(* Instances of RequestFlow for TLC: values of InitialMaxRequestID.         *)
EXTENDS RequestFlow

\* The smallest limits from which the client (even IDs) and the server (odd
\* IDs) can both go on, 3, and a larger one.
MixedMax == [p \in Peers |-> IF p = "client" THEN 3 ELSE 4]
\* A server configured with a limit other than the 100 of SERVER_SETUP.
TenMax == [p \in Peers |-> 10]
=============================================================================
