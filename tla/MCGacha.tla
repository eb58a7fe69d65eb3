------------------------------- MODULE MCGacha ------------------------------
(* A gacha of two units and one with an empty pool; a unit can be stacked
   once and then levelled twice, for one and then two coins.               *)
EXTENDS Gacha, TLC

CONSTANTS banner, closed, hero, extra, Gold, Coins

BannerPool == banner :> {hero, extra} @@ closed :> {}
AllGold == [g \in Gachas |-> Gold]
Ones == [u \in Units |-> <<1, 1>>]
OneThenTwo == [u \in Units |-> <<1, 2>>]
GoldRow == Gold :> Coins
=============================================================================
