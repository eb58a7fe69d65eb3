------------------------------ MODULE MCWallet ------------------------------
(* Instances of Wallet for TLC. *)
EXTENDS Wallet, TLC

CONSTANTS shop, unit, Gold, Gem

\* Three gold, and no row at all for gems.
ThreeGold == Gold :> 3

CallerSymmetry == Permutations(Callers)
=============================================================================
