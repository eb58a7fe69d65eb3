------------------------------- MODULE Ledger -------------------------------
(***************************************************************************)
(* What a wallet promises its callers while no acknowledgement is lost: an *)
(* account that is only ever debited, atomically, by amounts it covers.    *)
(* ("Only debited" is what AddAsync amounts to: see Wallet!AddAmount.)     *)
(***************************************************************************)
EXTENDS Integers

CONSTANTS Callers, Start, Amounts
VARIABLES
    balance,    \* currency -> amount
    taken       \* caller -> all it was debited

Init == balance = Start /\ taken = [c \in Callers |-> 0]

Debit(c, cur, amt) ==
    /\ balance[cur] >= amt
    /\ balance' = [balance EXCEPT ![cur] = @ - amt]
    /\ taken' = [taken EXCEPT ![c] = @ + amt]

Next == \E c \in Callers, cur \in DOMAIN Start, amt \in Amounts : Debit(c, cur, amt)

Spec == Init /\ [][Next]_<<balance, taken>>
=============================================================================
