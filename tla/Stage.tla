------------------------------- MODULE Stage --------------------------------
(***************************************************************************)
(* One player's PlayerStageGrain, composed with the stamina, level and     *)
(* wallet grains it calls.  Entering a stage consumes stamina; clearing it *)
(* merges the result into the best one, writes that, and then grants       *)
(* experience and currency by calls whose result codes nothing looks at.   *)
(* Clearing asks neither whether the stage was entered nor whether it is   *)
(* unlocked; failing a stage changes nothing.                              *)
(*                                                                         *)
(* Requests that wait at this grain change nothing and any may be next, so *)
(* its queue is left out: a request arrives when its turn begins.  So is   *)
(* an activation that fails, which loses only such requests.               *)
(***************************************************************************)
EXTENDS Integers, FiniteSetsExt

CONSTANTS
    Stages,             \* rows of the Stage table, and below their columns
    StaminaCost, RewardExp, RewardCurrency, RewardAmount,
    Missions, Reports,  \* mission steps; the results clients report of a clear
    MaxClears,          \* bound: clients clear stages this often
    Grain,              \* this grain as a caller
    Full, Interval, Recover, MaxNow,    \* see Stamina
    RequiredExp, NextLevel, MaxExp,     \* see Level
    Currencies, Start,                  \* see Wallet
    MaxLost,
    MaxFaults           \* bound: so many failures, timeouts and crashes happen

VARIABLES
    now, srows, scache, sact, sturn, sreqs, sreps, sused, prompt,   \* Stamina
    lrows, lcache, lact, lturn, lreqs, lreps, lgained,              \* Level
    wrows, wcache, wact, wturn, wreqs, wreps, wtaken,               \* Wallet
    lost,
    rows,       \* player_stage_states: stage -> best result
    cache,      \* _stages
    act,        \* is the grain activated?
    turn,       \* the request the activation is running, at its await
    entered,    \* history: the stages EnterStageAsync ever granted
    due,        \* history: the stamina those grants cost
    clears,     \* history: how often a clear was written
    earned,     \* history: the experience those clears bring
    faults      \* history: failures, timeouts and crashes so far

Result == [missions : SUBSET Missions, score : Nat]

amounts == {RewardAmount[s] : s \in Stages}

S == INSTANCE Stamina WITH
        Callers <- {Grain}, Costs <- {StaminaCost[s] : s \in Stages}
L == INSTANCE Level WITH
        Callers <- {Grain}, Gains <- {RewardExp[s] : s \in Stages}
W == INSTANCE Wallet WITH
        Callers <- {Grain}, Amounts <- amounts, MaxAmount <- Max(amounts)

ASSUME StageAssumption ==
    /\ Stages \subseteq Nat \ {0}
    /\ StaminaCost \in [Stages -> Nat]
    /\ RewardExp \in [Stages -> Nat]
    /\ RewardCurrency \in [Stages -> Currencies]
    /\ RewardAmount \in [Stages -> Nat]
    /\ Reports \subseteq Result
    /\ MaxClears \in Nat /\ MaxFaults \in Nat
    /\ L!LevelTableOK
    /\ \A s \in Stages : MaxClears * RewardExp[s] <= MaxExp

ASSUME ComponentsAssumption == S!StaminaAssumption /\ W!WalletAssumption

staminaVars == <<now, srows, scache, sact, sturn, sreqs, sreps, sused, prompt>>
levelVars == <<lrows, lcache, lact, lturn, lreqs, lreps, lgained>>
walletVars == <<wrows, wcache, wact, wturn, wreqs, wreps, wtaken>>
history == <<entered, due, clears, earned>>
grainVars == <<rows, cache, act, turn, history>>
vars == <<staminaVars, levelVars, walletVars, grainVars, lost, faults>>

-----------------------------------------------------------------------------
\* Stage ids a client may send: rows of the table, and one that is not there.
StageIds == Stages \cup {0}

Turn == [pc : {"stamina", "level", "wallet"}, stage : Stages]
   \cup [pc : {"await", "ok", "norow"}, stage : Stages, new : Result, had : BOOLEAN]

Idle == [pc |-> "idle"]

NoCache == [s \in {} |-> 0]

Unlocked(s) == s > 1 => s - 1 \in DOMAIN cache

Larger(a, b) == IF a >= b THEN a ELSE b

\* Missions achieved and the best score are never taken back.
MergedKeepingLastScore(s, r) ==
    IF s \notin DOMAIN cache THEN r
    ELSE [missions |-> cache[s].missions \cup r.missions, score |-> r.score]
Merged(s, r) ==
    IF s \notin DOMAIN cache THEN r
    ELSE [missions |-> cache[s].missions \cup r.missions,
          score    |-> Larger(cache[s].score, r.score)]

With(f, s, r) == [x \in DOMAIN f \cup {s} |-> IF x = s THEN r ELSE f[x]]

Conflict == turn.pc = "await" /\ ~turn.had /\ turn.stage \in DOMAIN rows

Affected == ~turn.had \/ turn.stage \in DOMAIN rows

Written ==
    /\ rows' = With(rows, turn.stage, turn.new)
    /\ clears' = clears + 1 /\ earned' = earned + RewardExp[turn.stage]

EndTurn == turn' = Idle

\* Calls to the other grains, awaited.
CallStamina(s) ==
    S!Send([from |-> Grain, cost |-> StaminaCost[s]])

CallLevel(s) ==
    L!Send([from |-> Grain, exp |-> RewardExp[s]])

CallWallet(s) ==
    W!Send([from |-> Grain, op |-> "Add", cur |-> RewardCurrency[s],
            amt |-> RewardAmount[s]])

\* RewardHelper.GrantAsync, the last thing a clear does.
GrantCurrency(s) ==
    \/ /\ RewardAmount[s] > 0
       /\ CallWallet(s) /\ turn' = [pc |-> "wallet", stage |-> s]
    \/ /\ RewardAmount[s] = 0
       /\ EndTurn /\ UNCHANGED <<walletVars, lost>>

-----------------------------------------------------------------------------
Init ==
    /\ S!Init /\ L!Init /\ W!Init
    /\ rows = NoCache /\ cache = NoCache
    /\ act = FALSE
    /\ turn = Idle
    /\ entered = {} /\ due = 0
    /\ clears = 0 /\ earned = 0
    /\ faults = 0

Activate ==
    /\ ~act
    /\ act' = TRUE
    /\ cache' = rows
    /\ UNCHANGED <<staminaVars, levelVars, walletVars, lost, rows, turn,
                   history, faults>>

Deactivate ==
    /\ act /\ turn = Idle
    /\ act' = FALSE
    /\ cache' = NoCache
    /\ UNCHANGED <<staminaVars, levelVars, walletVars, lost, rows, turn,
                   history, faults>>

\* No such stage, or a locked one, is refused at once.
EnterUnlocked(s) ==
    /\ act /\ turn = Idle
    /\ \/ s \notin Stages /\ UNCHANGED <<staminaVars, lost, turn>>
       \/ /\ s \in Stages
          /\ CallStamina(s) /\ turn' = [pc |-> "stamina", stage |-> s]
    /\ UNCHANGED <<levelVars, walletVars, rows, cache, act, history, faults>>
Enter(s) ==
    /\ act /\ turn = Idle
    /\ \/ ~(s \in Stages /\ Unlocked(s)) /\ UNCHANGED <<staminaVars, lost, turn>>
       \/ /\ s \in Stages /\ Unlocked(s)
          /\ CallStamina(s) /\ turn' = [pc |-> "stamina", stage |-> s]
    /\ UNCHANGED <<levelVars, walletVars, rows, cache, act, history, faults>>

ClearUnchecked(s, r) ==
    /\ act /\ turn = Idle /\ clears < MaxClears
    /\ turn' = [pc |-> "await", stage |-> s, new |-> Merged(s, r), had |-> s \in DOMAIN cache]
    /\ UNCHANGED <<staminaVars, levelVars, walletVars, lost, rows, cache, act,
                   history, faults>>
Clear(s, r) ==
    /\ act /\ turn = Idle /\ clears < MaxClears
    /\ turn' = IF s \notin Stages THEN turn
               ELSE [pc  |-> "await", stage |-> s,
                     new |-> Merged(s, r), had |-> s \in DOMAIN cache]
    /\ UNCHANGED <<staminaVars, levelVars, walletVars, lost, rows, cache, act,
                   history, faults>>

GrantedAny(r) == TRUE
Granted(r) == r.res = "Success"

Consumed ==
    /\ turn.pc = "stamina"
    /\ \E r \in sreps :
        /\ r.from = Grain
        /\ entered' = IF Granted(r) THEN entered \cup {turn.stage} ELSE entered
        /\ due' = IF Granted(r) THEN due + StaminaCost[turn.stage] ELSE due
    /\ S!Receive(Grain)
    /\ EndTurn
    /\ UNCHANGED <<levelVars, walletVars, rows, cache, act, clears, earned, faults>>

Save ==
    /\ turn.pc = "await" /\ ~Conflict
    /\ IF Affected THEN Written ELSE UNCHANGED <<rows, clears, earned>>
    /\ turn' = [turn EXCEPT !.pc = IF Affected THEN "ok" ELSE "norow"]
    /\ UNCHANGED <<staminaVars, levelVars, walletVars, lost, cache, act,
                   entered, due, faults>>

\* affectedRow <= 0 ends the request; otherwise the rewards follow.
Saved ==
    /\ \/ turn.pc = "norow" /\ EndTurn /\ UNCHANGED <<levelVars, walletVars, lost, cache>>
       \/ /\ turn.pc = "ok"
          /\ cache' = With(cache, turn.stage, turn.new)
          /\ \/ /\ RewardExp[turn.stage] > 0
                /\ CallLevel(turn.stage) /\ turn' = [pc |-> "level", stage |-> turn.stage]
                /\ UNCHANGED walletVars
             \/ /\ RewardExp[turn.stage] = 0
                /\ GrantCurrency(turn.stage) /\ UNCHANGED levelVars
    /\ UNCHANGED <<staminaVars, rows, act, history, faults>>

\* An exception ends the request before its currency is granted; any other
\* answer of AddExpAsync is dropped.
Leveled ==
    /\ turn.pc = "level"
    /\ \E r \in lreps :
        /\ r.from = Grain
        /\ \/ r.res = "Exception" /\ EndTurn /\ UNCHANGED <<walletVars, lost>>
           \/ r.res # "Exception" /\ GrantCurrency(turn.stage)
    /\ L!Receive(Grain)
    /\ UNCHANGED <<staminaVars, rows, cache, act, history, faults>>

Paid ==
    /\ turn.pc = "wallet"
    /\ W!Receive(Grain)
    /\ EndTurn
    /\ UNCHANGED <<staminaVars, levelVars, rows, cache, act, history, faults>>

-----------------------------------------------------------------------------
\* What fails: the statement throws, before or after it is applied.
SaveFailsUnseen ==
    /\ turn.pc = "await"
    /\ turn' = [turn EXCEPT !.pc = "ok"]
    /\ UNCHANGED <<staminaVars, levelVars, walletVars, lost, rows, cache, act,
                   history>>
SaveFails ==
    /\ turn.pc = "await"
    /\ EndTurn
    /\ UNCHANGED <<staminaVars, levelVars, walletVars, lost, rows, cache, act,
                   history>>

SaveLost ==
    /\ turn.pc = "await" /\ ~Conflict /\ Affected /\ lost < MaxLost
    /\ Written
    /\ lost' = lost + 1
    /\ EndTurn
    /\ UNCHANGED <<staminaVars, levelVars, walletVars, cache, act, entered, due>>

\* An awaited grain does not answer in time: the call throws here.
CallTimesOut ==
    /\ \/ turn.pc = "stamina" /\ S!TimeOut(Grain) /\ UNCHANGED <<levelVars, walletVars>>
       \/ turn.pc = "level" /\ L!TimeOut(Grain) /\ UNCHANGED <<staminaVars, walletVars>>
       \/ turn.pc = "wallet" /\ W!TimeOut(Grain) /\ UNCHANGED <<staminaVars, levelVars>>
    /\ EndTurn
    /\ UNCHANGED <<rows, cache, act, history>>

Crash ==
    /\ S!Crash /\ L!Crash /\ W!Crash
    /\ \/ UNCHANGED <<rows, clears, earned>>
       \/ turn.pc = "await" /\ ~Conflict /\ Affected /\ Written
    /\ act' = FALSE /\ cache' = NoCache
    /\ EndTurn
    /\ UNCHANGED <<entered, due>>

ComponentFails ==
    \/ S!Fault /\ UNCHANGED <<levelVars, walletVars, grainVars>>
    \/ L!Fault /\ UNCHANGED <<staminaVars, walletVars, grainVars>>
    \/ W!Fault /\ UNCHANGED <<staminaVars, levelVars, grainVars>>

\* An INSERT of a row that is there throws, however few failures are allowed.
Conflicts ==
    \/ Conflict /\ SaveFails
    \/ S!Conflict /\ S!Fail /\ UNCHANGED <<levelVars, walletVars, grainVars>>
    \/ L!Conflict /\ L!Fail /\ UNCHANGED <<staminaVars, walletVars, grainVars>>

-----------------------------------------------------------------------------
Components ==
    \/ (S!Serve \/ S!Tick) /\ UNCHANGED <<levelVars, walletVars, grainVars, faults>>
    \/ L!Serve /\ UNCHANGED <<staminaVars, walletVars, grainVars, faults>>
    \/ W!Serve /\ UNCHANGED <<staminaVars, levelVars, grainVars, faults>>

GrainStep ==
    \/ Activate \/ Deactivate
    \/ \E s \in StageIds : Enter(s) \/ \E r \in Reports : Clear(s, r)
    \/ Consumed \/ Save \/ Saved \/ Leveled \/ Paid

Faults ==
    /\ \/ SaveFails \/ SaveLost \/ CallTimesOut
       \/ Crash \/ ComponentFails
    /\ faults < MaxFaults /\ faults' = faults + 1

Next ==
    \/ GrainStep \/ Components \/ Faults
    \/ Conflicts /\ UNCHANGED faults

Spec == Init /\ [][Next]_vars

-----------------------------------------------------------------------------
(* Every variable of the grain stays in its type, and so do the grains it calls. *)
TypeOK ==
    /\ S!TypeOK /\ L!TypeOK /\ W!TypeOK
    /\ rows \in [DOMAIN rows -> Result] /\ DOMAIN rows \subseteq Stages
    /\ cache \in [DOMAIN cache -> Result] /\ DOMAIN cache \subseteq Stages
    /\ act \in BOOLEAN /\ faults \in 0..MaxFaults
    /\ turn \in Turn \cup {Idle}
    /\ entered \subseteq Stages
    /\ due \in Nat /\ clears \in Nat /\ earned \in Nat

(* "Missions achieved and the best score are merged so that a retry does not
   lower them" (PlayerStageGrain.cs:110).  The merge reads the cache, not the
   row: no failed statement, timeout or restart makes a row worse, and only a
   lost acknowledgement leaves a cache stale enough to do so.              *)
BestIsKept ==
    [][lost = 0 => \A s \in DOMAIN rows :
         /\ s \in DOMAIN rows'
         /\ rows[s].missions \subseteq rows'[s].missions
         /\ rows[s].score <= rows'[s].score]_vars

(* A stage that was ever granted has a written clear of the one before it:
   the cache the lock is decided from never runs ahead of the rows.        *)
EnteredIsUnlocked == \A s \in entered : s > 1 => s - 1 \in DOMAIN rows

(* No stage is granted that was not paid for in stamina the player had or
   recovered, whatever fails; stamina is taken for nothing only by a fault. *)
EnteredIsPaid ==
    /\ due <= sused /\ S!NoFreeStamina
    /\ faults = 0 /\ turn = Idle => due = sused

(* A written clear brings its experience at most once, and without a fault
   exactly once, although AddExpAsync runs after the clear is written and
   nothing looks at its result.                                            *)
ClearsAreRewarded ==
    /\ lgained <= earned
    /\ faults = 0 /\ turn = Idle => lgained = earned

(* Across both grains: until an acknowledgement is lost the player's level is
   the one reached by one climb with the experience of the clears that brought
   any, however they were split, failed, timed out or were restarted.      *)
ExpIsCounted == L!ExpIsCounted
=============================================================================
