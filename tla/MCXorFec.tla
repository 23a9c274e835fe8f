------------------------------ MODULE MCXorFec ------------------------------
(* Instances of XorFec for TLC.                                             *)
EXTENDS XorFec
=============================================================================
