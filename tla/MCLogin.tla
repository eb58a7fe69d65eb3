------------------------------- MODULE MCLogin -------------------------------
(* Two devices of one user, or one that gave up once, and another user. *)
EXTENDS Login, TLC

CONSTANTS u, v, c1, c2, c3

TwoUsers == c1 :> u @@ c2 :> u @@ c3 :> v
=============================================================================
