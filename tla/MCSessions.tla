----------------------------- MODULE MCSessions -----------------------------
(* Instances of Sessions for TLC. *)
EXTENDS Sessions, TLC

CONSTANTS a, d, p, q

\* One player's connection, and one whose client holds two tokens and a bad one.
TwoTokens == a :> {p} @@ d :> {p, q, BadToken}
=============================================================================
