------------------------------- MODULE MCShop -------------------------------
(* Instances of Shop for TLC: one currency, and two products of price
   one, a pack that may be bought twice and a pass at will.                 *)
EXTENDS Shop, TLC

CONSTANTS pack, pass, Gold, Potion, Ticket, Coins

Gold2 == Gold :> Coins
PackOnly == [p \in Products |-> IF p = pack THEN 2 ELSE 0]
UpToTwo == [p \in Products |-> 2]
One == [p \in Products |-> 1]
AllGold == [p \in Products |-> Gold]
ItemOf == [p \in Products |-> IF p = pack THEN Potion ELSE Ticket]
NoStack == [i \in Items |-> 0]
=============================================================================
