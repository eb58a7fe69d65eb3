---------------------------- MODULE MCInventory -----------------------------
(* Instances of Inventory for TLC. *)
EXTENDS Inventory, TLC

CONSTANTS shop, mail, Potion, Ticket

\* A potion stacks to three, a ticket has no maximum.
Stacks == Potion :> 3 @@ Ticket :> 0

CallerSymmetry == Permutations(Callers)
=============================================================================
