-------------------------------- MODULE Shop --------------------------------
(***************************************************************************)
(* One player's PlayerShopGrain, composed with the wallet and inventory    *)
(* grains it calls.  A purchase reads the limit row, asks whether the      *)
(* wallet holds enough, spends, records the purchase, and grants the item; *)
(* each arrow is an await at which other callers run, a statement may fail *)
(* or be abandoned, a call may fail or time out, and the process may die.  *)
(*                                                                         *)
(* The grain has no state between purchases and those waiting at it change *)
(* nothing, so its queue is left out: any client's next purchase may begin *)
(* when one has ended.                                                     *)
(***************************************************************************)
EXTENDS Integers, FiniteSets, Functions

CONSTANTS
    Products,       \* rows of the ShopProduct table, and below their columns
    LimitCount, MaxPurchaseCount, Price, Currency, RewardItemId, RewardItemCount,
    BuyCounts,      \* the counts clients ask for
    Unknown,        \* a product id that is not in the table
    Shop, Others,   \* this grain as a caller; the wallet's other callers
    Currencies, Start, Amounts, MaxAmount, OtherAmounts,    \* see Wallet
    Items, MaxStack, Counts, MaxCount, MaxHeld,             \* see Inventory
    MaxLost

ASSUME ShopAssumption ==
    /\ IsFiniteSet(Products)
    /\ LimitCount \in [Products -> Nat]
    /\ MaxPurchaseCount \in [Products -> Nat]
    /\ Unknown \notin Products
    /\ Price \in [Products -> Nat \ {0}]
    /\ Currency \in [Products -> Currencies]
    /\ RewardItemId \in [Products -> Items]
    /\ RewardItemCount \in [Products -> Counts]
    /\ BuyCounts \subseteq Int
    /\ Shop \notin Others /\ OtherAmounts \subseteq Amounts
    /\ \A p \in Products : \A n \in 1..MaxPurchaseCount[p] : Price[p] * n \in Amounts

VARIABLES
    wrows, wcache, wact, wturn, wreqs, wreps, wtaken,   \* the wallet
    irows, icache, iact, iturn, ireqs, ireps,           \* the inventory
    lost,
    prows,      \* player_purchase_product_limits: product -> purchase_count
    sturn,      \* the purchase the shop grain is running, at its await
    clean       \* history: nothing failed, timed out or crashed so far

W == INSTANCE Wallet WITH Callers <- {Shop} \cup Others
I == INSTANCE Inventory WITH Callers <- {Shop}

ASSUME ComponentsAssumption == W!WalletAssumption /\ I!InventoryAssumption

walletVars == <<wrows, wcache, wact, wturn, wreqs, wreps, wtaken>>
inventoryVars == <<irows, icache, iact, iturn, ireqs, ireps>>
shopVars == <<prows, sturn>>
vars == <<walletVars, inventoryVars, shopVars, lost, clean>>

-----------------------------------------------------------------------------
Purchase == [prod : Products \cup {Unknown}, count : BuyCounts]

Turn == [pc : {"readLimit", "isEnough", "spend", "record", "recorded", "grant",
                "abandoned"},
         prod : Products, count : Nat \ {0}, had : BOOLEAN]

Idle == [pc |-> "idle"]

Purchased(p) == IF p \in DOMAIN prows THEN prows[p] ELSE 0

HasLimit(p) == LimitCount[p] > 0

At(pc, p, n) == [pc |-> pc, prod |-> p, count |-> n, had |-> FALSE]

\* Calls to the other grains, awaited.
CallWallet(op, p, n) ==
    W!Send([from |-> Shop, op |-> op, cur |-> Currency[p], amt |-> Price[p] * n])

CallInventory(p) ==
    I!Send([from |-> Shop, op |-> "Add", item |-> RewardItemId[p],
            count |-> RewardItemCount[p]])

\* player_purchase_product_limits once the pending statement is applied.
Conflict == ~sturn.had /\ sturn.prod \in DOMAIN prows

Recording ==
    IF sturn.had
    THEN [p \in DOMAIN prows |->
             IF p = sturn.prod THEN prows[p] + sturn.count ELSE prows[p]]
    ELSE [p \in DOMAIN prows \cup {sturn.prod} |->
             IF p = sturn.prod THEN sturn.count ELSE prows[p]]

EndTurn == sturn' = Idle

\* The turn awaits a statement that DbConnector dropped: nothing in the grain
\* times out, so it is held for as long as the process lives.
Abandoned == sturn.pc = "abandoned"

-----------------------------------------------------------------------------
Init ==
    /\ W!Init /\ I!Init
    /\ prows = [p \in {} |-> 0]
    /\ sturn = Idle
    /\ clean = TRUE

InvalidIfMany(m) ==
    \/ m.prod \notin Products
    \/ m.prod \in Products /\ MaxPurchaseCount[m.prod] < m.count

\* count <= 0, no such product, or more than MaxPurchaseCount at once
Invalid(m) ==
    \/ m.count <= 0 \/ m.prod \notin Products
    \/ m.prod \in Products /\ MaxPurchaseCount[m.prod] < m.count

Begin(m) ==
    /\ sturn = Idle
    /\ \/ Invalid(m) /\ UNCHANGED <<walletVars, lost, sturn>>
       \/ /\ ~Invalid(m) /\ HasLimit(m.prod)
          /\ sturn' = At("readLimit", m.prod, m.count)
          /\ UNCHANGED <<walletVars, lost>>
       \/ /\ ~Invalid(m) /\ ~HasLimit(m.prod)
          /\ sturn' = At("isEnough", m.prod, m.count)
          /\ CallWallet("IsEnough", m.prod, m.count)
    /\ UNCHANGED <<inventoryVars, prows, clean>>

OverLimitByOne(p, n) == Purchased(p) >= LimitCount[p]
OverLimit(p, n) == Purchased(p) + n > LimitCount[p]

ReadLimit ==
    /\ sturn.pc = "readLimit"
    /\ \/ /\ OverLimit(sturn.prod, sturn.count)
          /\ EndTurn /\ UNCHANGED <<walletVars, lost>>
       \/ /\ ~OverLimit(sturn.prod, sturn.count)
          /\ sturn' = [sturn EXCEPT !.pc = "isEnough",
                                    !.had = sturn.prod \in DOMAIN prows]
          /\ CallWallet("IsEnough", sturn.prod, sturn.count)
    /\ UNCHANGED <<inventoryVars, prows, clean>>

SucceededAny(r) == TRUE
Succeeded(r) == r.res = "Success"

Enough ==
    /\ sturn.pc = "isEnough"
    /\ \E r \in wreps :
        /\ r.from = Shop
        /\ \/ /\ Succeeded(r)
              /\ CallWallet("Spend", sturn.prod, sturn.count)
              /\ sturn' = [sturn EXCEPT !.pc = "spend"]
           \/ ~Succeeded(r) /\ W!Receive(Shop) /\ EndTurn
    /\ UNCHANGED <<inventoryVars, prows, clean>>

Spent ==
    /\ sturn.pc = "spend"
    /\ \E r \in wreps :
        /\ r.from = Shop
        /\ W!Receive(Shop)
        /\ \/ /\ Succeeded(r) /\ HasLimit(sturn.prod)
              /\ sturn' = [sturn EXCEPT !.pc = "record"]
              /\ UNCHANGED inventoryVars
           \/ /\ Succeeded(r) /\ ~HasLimit(sturn.prod)
              /\ sturn' = [sturn EXCEPT !.pc = "grant"]
              /\ CallInventory(sturn.prod)
           \/ ~Succeeded(r) /\ EndTurn /\ UNCHANGED inventoryVars
    /\ UNCHANGED <<prows, clean>>

\* The INSERT or UPDATE of the limit row; its affected rows are not looked at.
Record ==
    /\ sturn.pc = "record" /\ ~Conflict
    /\ prows' = Recording
    /\ sturn' = [sturn EXCEPT !.pc = "recorded"]
    /\ UNCHANGED <<walletVars, inventoryVars, lost, clean>>

Recorded ==
    /\ sturn.pc = "recorded"
    /\ CallInventory(sturn.prod)
    /\ sturn' = [sturn EXCEPT !.pc = "grant"]
    /\ UNCHANGED <<walletVars, prows, clean>>

Granted ==
    /\ sturn.pc = "grant"
    /\ I!Receive(Shop)
    /\ EndTurn
    /\ UNCHANGED <<walletVars, prows, clean>>

-----------------------------------------------------------------------------
\* What fails: a statement of the shop throws, before or after it is applied.
StatementFailsUnseen ==
    /\ sturn.pc \in {"readLimit", "record"}
    /\ IF sturn.pc = "record" THEN sturn' = [sturn EXCEPT !.pc = "recorded"] ELSE EndTurn
    /\ UNCHANGED <<walletVars, inventoryVars, prows, lost>>
StatementFails ==
    /\ sturn.pc \in {"readLimit", "record"}
    /\ EndTurn
    /\ UNCHANGED <<walletVars, inventoryVars, prows, lost>>

StatementLost ==
    /\ sturn.pc = "record" /\ ~Conflict /\ lost < MaxLost
    /\ prows' = Recording
    /\ lost' = lost + 1
    /\ EndTurn
    /\ UNCHANGED <<walletVars, inventoryVars>>

\* OpenAsync throws before the statement runs: DbConnector logs it, and the
\* task that the shop awaits is never completed (DbPipeline's OpenFails).
StatementAbandoned ==
    /\ sturn.pc \in {"readLimit", "record"}
    /\ sturn' = [sturn EXCEPT !.pc = "abandoned"]
    /\ UNCHANGED <<walletVars, inventoryVars, prows, lost>>

StatementFault == StatementFails \/ StatementLost \/ StatementAbandoned

\* An awaited grain does not answer in time: the call throws here.
GrantNeverTimesOut ==
    /\ sturn.pc \in {"isEnough", "spend"} /\ W!TimeOut(Shop) /\ EndTurn
    /\ UNCHANGED <<inventoryVars, prows>>
CallTimesOut ==
    /\ \/ sturn.pc \in {"isEnough", "spend"} /\ W!TimeOut(Shop) /\ UNCHANGED inventoryVars
       \/ sturn.pc = "grant" /\ I!TimeOut(Shop) /\ UNCHANGED walletVars
    /\ EndTurn
    /\ UNCHANGED <<prows>>

Crash ==
    /\ W!Crash /\ I!Crash
    /\ \/ UNCHANGED prows
       \/ sturn.pc = "record" /\ ~Conflict /\ prows' = Recording
    /\ EndTurn

ComponentFails ==
    \/ W!Fault /\ UNCHANGED <<inventoryVars, shopVars>>
    \/ I!Fault /\ UNCHANGED <<walletVars, shopVars>>

-----------------------------------------------------------------------------
\* Other grains spend from, and add to, the same wallet.
OtherCaller ==
    /\ \E c \in Others :
        \/ \E op \in {"Spend", "Add"}, cur \in Currencies, amt \in OtherAmounts :
              W!Send([from |-> c, op |-> op, cur |-> cur, amt |-> amt])
        \/ W!Receive(c) \/ W!TimeOut(c)
    /\ UNCHANGED <<inventoryVars, shopVars, clean>>

Components ==
    \/ W!Serve /\ UNCHANGED <<inventoryVars, shopVars, clean>>
    \/ I!Serve /\ UNCHANGED <<walletVars, shopVars, clean>>

Continue == ReadLimit \/ Enough \/ Spent \/ Record \/ Recorded \/ Granted

ShopStep == Continue \/ \E m \in Purchase : Begin(m)

Faults ==
    /\ \/ StatementFault \/ CallTimesOut \/ Crash \/ ComponentFails
    /\ clean' = FALSE

Next ==
    \/ ShopStep \/ Components \/ OtherCaller \/ Faults

Spec == Init /\ [][Next]_vars

\* The silo schedules the shop's turns and fires its response timeouts, and
\* a statement of the shop comes to some end, if only to be abandoned; the
\* other grains may be stuck, and clients need not buy anything.
FairSpec ==
    /\ Spec
    /\ WF_vars(Continue \/ (StatementFault /\ clean' = FALSE))
    /\ WF_vars(CallTimesOut /\ clean' = FALSE)

-----------------------------------------------------------------------------
Limited == {p \in Products : HasLimit(p)}

Held(i) == IF i \in DOMAIN irows THEN irows[i] ELSE 0

RecordedPrice == SumFunctionOnSet([p \in Products |-> Price[p] * Purchased(p)], Limited)

\* What the recorded purchases of the products that give item i are worth of it.
Giving(i) == {p \in Products : RewardItemId[p] = i}

RecordedWorth(i) ==
    SumFunctionOnSet([p \in Products |-> RewardItemCount[p] * Purchased(p)], Giving(i))

(* Every variable of the shop stays in its type. *)
TypeOK ==
    /\ W!TypeOK /\ I!TypeOK
    /\ prows \in [DOMAIN prows -> Nat] /\ DOMAIN prows \subseteq Products
    /\ sturn \in Turn \cup {Idle}
    /\ clean \in BOOLEAN

(* PurchaseProductAsync reads the limit row, then awaits four times before it
   writes the row: whatever runs, fails, times out or crashes meanwhile, a
   limited product is never recorded as bought more often than LimitCount.  *)
LimitRespected == \A p \in Limited : Purchased(p) <= LimitCount[p]

(* A limited product's item is granted after its purchase is recorded, and at
   most once per recorded unit: of an item that only limited products give,
   the player never holds more than their recorded purchases are worth.    *)
GrantsAreRecorded ==
    \A i \in Items : Giving(i) \subseteq Limited => Held(i) <= RecordedWorth(i)

\* Nothing records a purchase of a product without a limit but its item.
OnlyRecordedPurchases ==
    \A p \in Products \ Limited : RewardItemCount[p] > 0 /\ Held(RewardItemId[p]) = 0

(* What the limit rows say was bought has been paid for: the wallet's applied
   Spend statements for the shop cover it.  And money is taken for nothing
   only through a fault: as long as no statement failed, no call timed out
   and nothing crashed, a shop between two purchases has recorded all it
   took, whoever else spent from the wallet between its two calls.         *)
RecordsArePaid ==
    /\ RecordedPrice <= wtaken[Shop]
    /\ clean /\ sturn = Idle /\ OnlyRecordedPurchases => wtaken[Shop] = RecordedPrice

(* A purchase that began ends, even when the wallet or the inventory grain
   never answers: the response timeout frees the shop grain for the next.
   Only a statement that DbConnector abandons holds it for good.           *)
PurchaseEnds == sturn # Idle ~> sturn = Idle \/ Abandoned
=============================================================================
