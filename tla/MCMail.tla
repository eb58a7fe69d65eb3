------------------------------- MODULE MCMail -------------------------------
(* Instances of Mail for TLC: a gift of gold and a ticket, a blank whose
   reward entry holds nothing, and a note without rewards.                 *)
EXTENDS Mail, TLC

CONSTANTS gift, blank, note, Gold, Ticket

OneGold == Gold :> 1
InGold == [m \in Rewarded |-> Gold]
InTickets == [m \in Rewarded |-> Ticket]
OneInGift == [m \in Rewarded |-> IF m = gift THEN 1 ELSE 0]
NoStack == [i \in Items |-> 0]
=============================================================================
