---------------------------- MODULE Regeneration ----------------------------
(***************************************************************************)
(* What stamina looks like to a player: a stock with a maximum that gains  *)
(* Recover each time Interval seconds have passed since it was last full   *)
(* or last gained, and stands still while it is full.                      *)
(***************************************************************************)
EXTENDS Integers

CONSTANTS Costs, Full, Interval, Recover
VARIABLES
    stock,
    phase       \* seconds since it was last full or last gained

vars == <<stock, phase>>

Gained == IF stock + Recover >= Full THEN Full ELSE stock + Recover

Init == stock = Full /\ phase = 0

Second ==
    \/ stock < Full /\ phase + 1 = Interval /\ stock' = Gained /\ phase' = 0
    \/ stock < Full /\ phase + 1 # Interval /\ phase' = phase + 1 /\ UNCHANGED stock

Use(cost) ==
    /\ 0 < cost /\ cost <= stock
    /\ stock' = stock - cost
    /\ UNCHANGED phase

Next == Second \/ \E cost \in Costs : Use(cost)

Spec == Init /\ [][Next]_vars
=============================================================================
