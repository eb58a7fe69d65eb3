------------------------------- MODULE MCStage ------------------------------
(* Two stages, the second worth several levels at once. *)
EXTENDS Stage, TLC

CONSTANTS Gold, Coins, m1

SomeReports == {[missions |-> {m1}, score |-> 0], [missions |-> {}, score |-> 1]}
CostOne == [s \in Stages |-> 1]
Exp == [s \in Stages |-> IF s = 1 THEN 1 ELSE 3]
AllGold == [s \in Stages |-> Gold]
NoneThenOne == [s \in Stages |-> s - 1]
GoldRow == Gold :> Coins
Required == <<2, 2>>
Following == <<2, 3>>
=============================================================================
