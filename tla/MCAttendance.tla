---------------------------- MODULE MCAttendance ----------------------------
(* Two events, the player attends one: its first day gives gold and a
   ticket, its second a ticket, its third gold.                            *)
EXTENDS Attendance, TLC

CONSTANTS spring, autumn, r1, r2, r3, r4, Gold, Ticket

EventOfReward == [r \in RewardIds |-> IF r = r4 THEN autumn ELSE spring]
DayOfReward == r1 :> 1 @@ r2 :> 2 @@ r3 :> 3 @@ r4 :> 1
InGold == [r \in RewardIds |-> Gold]
GoldOf == r1 :> 1 @@ r2 :> 0 @@ r3 :> 1 @@ r4 :> 0
InTickets == [r \in RewardIds |-> Ticket]
TicketsOf == r1 :> 1 @@ r2 :> 1 @@ r3 :> 0 @@ r4 :> 1
NoGold == Gold :> 0
NoStack == [i \in Items |-> 0]
=============================================================================
