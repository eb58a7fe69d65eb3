----------------------------- MODULE Attendance -----------------------------
(***************************************************************************)
(* One player's PlayerAttendanceGrain, composed with the wallet and        *)
(* inventory grains its rewards go to.  Claiming a reward inserts its row, *)
(* marked as received, and then grants it, in RewardHelper, by calls whose *)
(* result codes nothing looks at.  The flags an activation loaded are not  *)
(* changed by a claim: a second one relies on the table's key.             *)
(*                                                                         *)
(* Claims that wait at this grain change nothing and any may be next, so   *)
(* its queue is left out.  So is an activation that fails.                 *)
(***************************************************************************)
EXTENDS Integers, FiniteSetsExt

CONSTANTS
    Events,         \* rows of the EventSchedule table
    Days,           \* the days clients claim
    RewardIds,      \* rows of the AttendanceReward table, and their columns
    EventOf, DayOf, RewardCurrency, RewardAmount, RewardItem, RewardCount,
    Progress,       \* the events the player has a player_event_attendance row of
    NoEvent,        \* an event id that is not in the table
    Self,           \* this grain as a caller
    Currencies, Start, Amounts, MaxAmount,          \* see Wallet
    Items, MaxStack, Counts, MaxCount, MaxHeld,     \* see Inventory
    MaxLost,
    MaxFaults       \* bound: so many failures, timeouts and crashes happen

ASSUME AttendanceAssumption ==
    /\ EventOf \in [RewardIds -> Events] /\ DayOf \in [RewardIds -> Days]
    /\ \A r, s \in RewardIds : EventOf[r] = EventOf[s] /\ DayOf[r] = DayOf[s] => r = s
    /\ RewardCurrency \in [RewardIds -> Currencies]
    /\ RewardAmount \in [RewardIds -> Amounts]
    /\ RewardItem \in [RewardIds -> Items]
    /\ RewardCount \in [RewardIds -> Counts]
    /\ Progress \subseteq Events
    /\ NoEvent \notin Events
    /\ MaxFaults \in Nat

VARIABLES
    wrows, wcache, wact, wturn, wreqs, wreps, wtaken,   \* the wallet
    irows, icache, iact, iturn, ireqs, ireps,           \* the inventory
    lost,
    arows,      \* player_event_attendance_rewards: rewards marked received
    aflags,     \* RewardReceivedFlag, of all events of _progress
    aact,       \* is the attendance grain activated?
    aturn,      \* the claim it is running, at its await
    ended,      \* the events whose EndDateTime has passed
    faults      \* history: failures, timeouts and crashes so far

W == INSTANCE Wallet WITH Callers <- {Self}
I == INSTANCE Inventory WITH Callers <- {Self}

walletVars == <<wrows, wcache, wact, wturn, wreqs, wreps, wtaken>>
inventoryVars == <<irows, icache, iact, iturn, ireqs, ireps>>
grainVars == <<arows, aflags, aact, aturn, ended>>
vars == <<walletVars, inventoryVars, grainVars, lost, faults>>

-----------------------------------------------------------------------------
Turn == [pc : {"insert", "inserted", "wallet", "inventory"}, reward : RewardIds]

Idle == [pc |-> "idle"]

At(pc, r) == [pc |-> pc, reward |-> r]

EndTurn == aturn' = Idle

\* Rewards a claim gets as far as inserting: everything else is an answer.
Claimable(e, d) ==
    {r \in RewardIds : /\ EventOf[r] = e /\ DayOf[r] = d
                       /\ e \notin ended /\ e \in Progress /\ r \notin aflags}

\* The table is keyed by player and reward: a second INSERT throws.
Conflict == aturn.pc = "insert" /\ aturn.reward \in arows

Recorded == arows' = arows \cup {aturn.reward}

\* RewardHelper.GrantAsync: the currency, then the item, and what is absent
\* is skipped.
GrantItem(r) ==
    \/ /\ RewardCount[r] > 0
       /\ I!Send([from |-> Self, op |-> "Add", item |-> RewardItem[r],
                  count |-> RewardCount[r]])
       /\ aturn' = At("inventory", r)
    \/ /\ RewardCount[r] = 0
       /\ EndTurn /\ UNCHANGED <<inventoryVars, lost>>

Grant(r) ==
    \/ /\ RewardAmount[r] > 0
       /\ W!Send([from |-> Self, op |-> "Add", cur |-> RewardCurrency[r],
                  amt |-> RewardAmount[r]])
       /\ aturn' = At("wallet", r)
       /\ UNCHANGED inventoryVars
    \/ RewardAmount[r] = 0 /\ GrantItem(r) /\ UNCHANGED walletVars

-----------------------------------------------------------------------------
Init ==
    /\ W!Init /\ I!Init
    /\ arows = {} /\ aflags = {}
    /\ aact = FALSE
    /\ aturn = Idle
    /\ ended = {}
    /\ faults = 0

EventEnds(e) ==
    /\ e \notin ended
    /\ ended' = ended \cup {e}
    /\ UNCHANGED <<walletVars, inventoryVars, lost, arows, aflags, aact, aturn, faults>>

\* Rows of events without progress are passed over; a flag that was added
\* twice would throw, which the key excludes.
Activate ==
    /\ ~aact
    /\ aact' = TRUE
    /\ aflags' = {r \in arows : EventOf[r] \in Progress}
    /\ UNCHANGED <<walletVars, inventoryVars, lost, arows, aturn, ended, faults>>

Deactivate ==
    /\ aact /\ aturn = Idle
    /\ aact' = FALSE
    /\ aflags' = {}
    /\ UNCHANGED <<walletVars, inventoryVars, lost, arows, aturn, ended, faults>>

ReceiveRewardFlaggedFirst(e, d) ==
    /\ aact /\ aturn = Idle
    /\ \E r \in Claimable(e, d) :
        aturn' = At("insert", r) /\ aflags' = aflags \cup {r}
    /\ UNCHANGED <<walletVars, inventoryVars, lost, arows, aact, ended, faults>>
ReceiveReward(e, d) ==
    /\ aact /\ aturn = Idle
    /\ \/ Claimable(e, d) = {} /\ UNCHANGED aturn
       \/ \E r \in Claimable(e, d) : aturn' = At("insert", r)
    /\ UNCHANGED <<walletVars, inventoryVars, lost, arows, aflags, aact, ended, faults>>

Insert ==
    /\ aturn.pc = "insert" /\ ~Conflict
    /\ Recorded
    /\ aturn' = [aturn EXCEPT !.pc = "inserted"]
    /\ UNCHANGED <<walletVars, inventoryVars, lost, aflags, aact, ended, faults>>

\* One row was inserted; the cached flag is left as it is.
Inserted ==
    /\ aturn.pc = "inserted"
    /\ Grant(aturn.reward)
    /\ UNCHANGED <<arows, aflags, aact, ended, faults>>

\* A result code of AddAsync goes into the answer; an exception ends the claim.
Added(r) == r.from = Self /\ r.res # "Exception"

WalletAdded ==
    /\ aturn.pc = "wallet"
    /\ W!Receive(Self)
    /\ \/ (\E r \in wreps : Added(r)) /\ GrantItem(aturn.reward)
       \/ ~(\E r \in wreps : Added(r)) /\ EndTurn /\ UNCHANGED inventoryVars
    /\ UNCHANGED <<arows, aflags, aact, ended, faults>>

InventoryAdded ==
    /\ aturn.pc = "inventory"
    /\ I!Receive(Self)
    /\ EndTurn
    /\ UNCHANGED <<walletVars, arows, aflags, aact, ended, faults>>

-----------------------------------------------------------------------------
\* What fails: the INSERT throws, before or after it is applied.
InsertFailsUnseen ==
    /\ aturn.pc = "insert"
    /\ aturn' = [aturn EXCEPT !.pc = "inserted"]
    /\ UNCHANGED <<walletVars, inventoryVars, lost, arows, aflags, aact, ended>>
InsertFails ==
    /\ aturn.pc = "insert"
    /\ EndTurn
    /\ UNCHANGED <<walletVars, inventoryVars, lost, arows, aflags, aact, ended>>

InsertLost ==
    /\ aturn.pc = "insert" /\ ~Conflict /\ lost < MaxLost
    /\ Recorded
    /\ lost' = lost + 1
    /\ EndTurn
    /\ UNCHANGED <<walletVars, inventoryVars, aflags, aact, ended>>

\* An awaited grain does not answer in time: the claim throws here.
CallTimesOut ==
    /\ \/ aturn.pc = "wallet" /\ W!TimeOut(Self) /\ UNCHANGED inventoryVars
       \/ aturn.pc = "inventory" /\ I!TimeOut(Self) /\ UNCHANGED walletVars
    /\ EndTurn
    /\ UNCHANGED <<arows, aflags, aact, ended>>

Crash ==
    /\ W!Crash /\ I!Crash
    /\ \/ UNCHANGED arows
       \/ aturn.pc = "insert" /\ ~Conflict /\ Recorded
    /\ aact' = FALSE /\ aflags' = {}
    /\ EndTurn
    /\ UNCHANGED ended

ComponentFails ==
    \/ W!Fault /\ UNCHANGED <<inventoryVars, grainVars>>
    \/ I!Fault /\ UNCHANGED <<walletVars, grainVars>>

-----------------------------------------------------------------------------
GrainStep ==
    \/ Activate \/ Deactivate
    \/ \E e \in Events \cup {NoEvent}, d \in Days : ReceiveReward(e, d)
    \/ Insert \/ Inserted \/ WalletAdded \/ InventoryAdded

Components ==
    /\ \/ W!Serve /\ UNCHANGED inventoryVars
       \/ I!Serve /\ UNCHANGED walletVars
    /\ UNCHANGED <<grainVars, faults>>

Faults ==
    /\ \/ InsertFails \/ InsertLost \/ CallTimesOut
       \/ Crash \/ ComponentFails
    /\ faults < MaxFaults /\ faults' = faults + 1

\* An INSERT of a row that is there throws, however few failures are allowed.
Next ==
    \/ GrainStep \/ Components \/ Faults
    \/ \E e \in Events : EventEnds(e)
    \/ Conflict /\ InsertFails /\ UNCHANGED faults
    \/ I!Fail /\ I!Conflict /\ UNCHANGED <<walletVars, grainVars, faults>>

Spec == Init /\ [][Next]_vars

-----------------------------------------------------------------------------
Held(i) == IF i \in DOMAIN irows THEN irows[i] ELSE 0

\* What the rewards marked as received hold of item i.
Received(i) ==
    MapThenSumSet(LAMBDA r : RewardCount[r], {r \in arows : RewardItem[r] = i})

Unbounded == {i \in Items : MaxStack[i] = 0}

(* Every variable stays in its type, and so do the grains it calls. *)
TypeOK ==
    /\ W!TypeOK /\ I!TypeOK
    /\ arows \subseteq RewardIds /\ aflags \subseteq arows
    /\ aact \in BOOLEAN
    /\ aturn \in Turn \cup {Idle}
    /\ ended \subseteq Events
    /\ faults \in 0..MaxFaults

(* A reward is granted at most once, although no claim sets the flag that the
   next one looks at, and whatever fails, times out or is restarted between
   the row and the grant: the player never holds more of an item than the rows
   say was received.  Less is held only after a fault.                     *)
RewardedOnce ==
    \A i \in Unbounded :
        /\ Held(i) <= Received(i)
        /\ faults = 0 /\ aturn = Idle => Held(i) = Received(i)
=============================================================================
