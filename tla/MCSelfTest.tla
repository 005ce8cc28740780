---------------------------- MODULE MCSelfTest ----------------------------
(* The self-test with two requests, which nothing tells apart: both are for *)
(* /v1/messages, and only invariants are checked.                           *)
EXTENDS SelfTest, TLC

MCSymmetry == Permutations(Requests)

=============================================================================
