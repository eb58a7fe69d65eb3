-------------------------------- MODULE Gacha -------------------------------
(***************************************************************************)
(* One player's PlayerGachaGrain, composed with the unit grain it adds to  *)
(* and the wallet both pay from.  All rolls of a request are paid for at   *)
(* once, then each is drawn and added by a call of its own; the first that *)
(* does not succeed ends the request, and nothing is paid back.            *)
(*                                                                         *)
(* The grain has no state between requests and those waiting at it change  *)
(* nothing, so its queue and activation are left out.                      *)
(***************************************************************************)
EXTENDS Integers, FiniteSetsExt

CONSTANTS
    Gachas,         \* rows of the Gacha table
    CostAmount,     \* what one roll costs, of any of them
    CostCurrency,
    Pool,           \* GachaUnit table: gacha -> units that can be drawn
    RollCounts,     \* the counts that are asked for
    NoGacha,        \* a gacha id that is not in the table
    Self,           \* this grain as a caller; below, see Unit
    UnitGrain, Units, MaxUnitStack, LevelStack, LevelCost, LevelCurrency,
    Currencies, Start, Amounts, MaxAmount,      \* see Wallet
    MaxLost,
    MaxFaults       \* bound: so many failures, timeouts and crashes happen

VARIABLES
    wrows, wcache, wact, wturn, wreqs, wreps, wtaken,   \* Wallet
    urows, ucache, uact, uturn, ureqs, ureps,           \* Unit
    lost,
    gturn,      \* the request the gacha grain is running, at its await
    faults      \* history: failures, timeouts and crashes so far

U == INSTANCE Unit WITH Adders <- {Self}, Self <- UnitGrain
W == INSTANCE Wallet WITH Callers <- {Self, UnitGrain}

\* Weights are positive (RGachaUnitDataSet.PostProcess), so a draw may give
\* any unit of the pool.  totalAmount must fit its integer type.
ASSUME GachaAssumption ==
    /\ U!UnitTableOK
    /\ NoGacha \notin Gachas
    /\ CostAmount \in Nat \ {0}
    /\ CostCurrency \in [Gachas -> Currencies]
    /\ Pool \in [Gachas -> SUBSET Units]
    /\ RollCounts \subseteq Int
    /\ \A n \in RollCounts : n > 0 => CostAmount * n \in Amounts
    /\ MaxFaults \in Nat

walletVars == <<wrows, wcache, wact, wturn, wreqs, wreps, wtaken>>
unitVars == <<urows, ucache, uact, uturn, ureqs, ureps>>
vars == <<walletVars, unitVars, lost, gturn, faults>>

-----------------------------------------------------------------------------
\* "left" counts the rolls not yet done, the one of "unit" included.
Turn == [pc : {"enough", "spend"}, gacha : Gachas, count : Nat \ {0}]
   \cup [pc : {"add", "get"}, gacha : Gachas, unit : Units, left : Nat \ {0}]

Idle == [pc |-> "idle"]

EndTurn == gturn' = Idle

Valid(g, n) == n > 0 /\ g \in Gachas /\ Pool[g] # {}

CallWalletOnce(op, g, n) ==
    W!Send([from |-> Self, op |-> op, cur |-> CostCurrency[g], amt |-> CostAmount])
CallWallet(op, g, n) ==
    W!Send([from |-> Self, op |-> op, cur |-> CostCurrency[g], amt |-> CostAmount * n])

\* RandomUtil.GetRandomWeight, and the call that adds what it gives.
RollUnit(left) ==
    \E u \in Pool[gturn.gacha] :
        /\ U!Send([from |-> Self, op |-> "AddOrUpdate", unit |-> u])
        /\ gturn' = [pc |-> "add", gacha |-> gturn.gacha, unit |-> u, left |-> left]

-----------------------------------------------------------------------------
Init == U!Init /\ gturn = Idle /\ faults = 0

RollingGacha(g, n) ==
    /\ gturn = Idle
    /\ \/ ~Valid(g, n) /\ UNCHANGED <<walletVars, lost, gturn>>
       \/ /\ Valid(g, n)
          /\ CallWallet("IsEnough", g, n)
          /\ gturn' = [pc |-> "enough", gacha |-> g, count |-> n]
    /\ UNCHANGED <<unitVars, faults>>

Succeeded(r) == r.res = "Success"

Enough ==
    /\ gturn.pc = "enough"
    /\ \E r \in wreps :
        /\ r.from = Self
        /\ \/ /\ Succeeded(r)
              /\ CallWallet("Spend", gturn.gacha, gturn.count)
              /\ gturn' = [gturn EXCEPT !.pc = "spend"]
           \/ ~Succeeded(r) /\ W!Receive(Self) /\ EndTurn
    /\ UNCHANGED <<unitVars, faults>>

Spent ==
    /\ gturn.pc = "spend"
    /\ \E r \in wreps :
        /\ r.from = Self
        /\ \/ Succeeded(r) /\ RollUnit(gturn.count)
           \/ ~Succeeded(r) /\ EndTurn /\ UNCHANGED unitVars
    /\ W!Receive(Self)
    /\ UNCHANGED faults

\* A unit that was not added ends the request with what was rolled so far.
Added ==
    /\ gturn.pc = "add"
    /\ \E r \in ureps :
        /\ r.from = Self
        /\ \/ /\ Succeeded(r)
              /\ U!Send([from |-> Self, op |-> "Get", unit |-> gturn.unit])
              /\ gturn' = [gturn EXCEPT !.pc = "get"]
           \/ ~Succeeded(r) /\ U!Receive(Self) /\ EndTurn
    /\ UNCHANGED <<walletVars, lost, faults>>

\* The result's level and stack were read; the loop goes on or is done.
GotOneMore ==
    /\ gturn.pc = "get"
    /\ \E r \in ureps :
        /\ r.from = Self
        /\ \/ Succeeded(r) /\ gturn.left > 0 /\ RollUnit(gturn.left - 1)
           \/ (~Succeeded(r) \/ gturn.left = 0) /\ U!Receive(Self) /\ EndTurn
    /\ UNCHANGED <<walletVars, lost, faults>>
Got ==
    /\ gturn.pc = "get"
    /\ \E r \in ureps :
        /\ r.from = Self
        /\ \/ Succeeded(r) /\ gturn.left > 1 /\ RollUnit(gturn.left - 1)
           \/ (~Succeeded(r) \/ gturn.left = 1) /\ U!Receive(Self) /\ EndTurn
    /\ UNCHANGED <<walletVars, lost, faults>>

-----------------------------------------------------------------------------
\* An awaited grain does not answer in time: the request throws here.
CallTimesOut ==
    /\ \/ gturn.pc \in {"enough", "spend"} /\ W!TimeOut(Self) /\ UNCHANGED unitVars
       \/ gturn.pc \in {"add", "get"} /\ U!TimeOut(Self) /\ UNCHANGED <<walletVars, lost>>
    /\ EndTurn

Crash == U!Crash /\ EndTurn

GachaStep ==
    \/ \E g \in Gachas \cup {NoGacha}, n \in RollCounts : RollingGacha(g, n)
    \/ Enough \/ Spent \/ Added \/ Got

Faults ==
    /\ \/ CallTimesOut \/ Crash
       \/ U!Fault /\ UNCHANGED gturn
    /\ faults < MaxFaults /\ faults' = faults + 1

\* An INSERT of a row that is there throws, however few failures are allowed.
Next ==
    \/ GachaStep \/ Faults
    \/ U!Serve /\ UNCHANGED <<gturn, faults>>
    \/ U!Conflict /\ U!Fail /\ UNCHANGED <<gturn, faults>>

Spec == Init /\ [][Next]_vars

-----------------------------------------------------------------------------
Rolled == MapThenSumSet(LAMBDA u : urows[u].stack + 1, DOMAIN urows)

LevelPrice(u) == MapThenSumSet(LAMBDA l : LevelCost[u][l], 1..urows[u].level - 1)

LevelsPrice == MapThenSumSet(LevelPrice, DOMAIN urows)

(* Every variable stays in its type, and so do the grains it calls. *)
TypeOK ==
    /\ U!TypeOK
    /\ gturn \in Turn \cup {Idle}
    /\ faults \in 0..MaxFaults

(* See Unit: stacks keep to their maximum, but for lost acknowledgements. *)
StackBounded == U!StackBounded

(* Every unit in the rows was paid for, whatever fails, times out or crashes
   between the payment and the last roll; and what was paid for and not
   rolled is the fault of a failure or of a stack that is full.            *)
RollsArePaid ==
    /\ CostAmount * Rolled <= wtaken[Self]
    /\ faults = 0 /\ gturn = Idle =>
        \/ CostAmount * Rolled = wtaken[Self]
        \/ \E u \in DOMAIN urows : urows[u].stack >= MaxUnitStack

(* Every level above the first was paid for in full, although IsEnoughAsync
   and SpendAsync are turns of a wallet the rolls spend from too, and the
   level is written after the money is gone; money is lost only by a fault. *)
LevelsArePaid ==
    /\ LevelsPrice <= wtaken[UnitGrain]
    /\ faults = 0 /\ uturn = Idle => LevelsPrice = wtaken[UnitGrain]
=============================================================================
