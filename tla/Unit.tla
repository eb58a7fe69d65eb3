-------------------------------- MODULE Unit --------------------------------
(***************************************************************************)
(* One player's PlayerUnitGrain, composed with the wallet grain its        *)
(* level-ups are paid from.  Adding a unit inserts its row or stacks it,   *)
(* as the cache says; a level-up asks the wallet, spends, and then writes  *)
(* the level.  The stack a level-up requires is not consumed.              *)
(***************************************************************************)
EXTENDS Integers, Sequences

CONSTANTS
    Adders,         \* grains that add units
    Self,           \* this grain, as a caller of the wallet
    Units,          \* unit ids
    MaxUnitStack,   \* Constants.MaxUnitStack
    LevelStack,     \* UnitLevel table: unit -> RequireStack of level 1, 2, ...
    LevelCost,      \* the same for RequireCurrencyAmount
    LevelCurrency,  \* RequireCurrencyType
    Currencies, Start, Amounts, MaxAmount,      \* see Wallet
    MaxLost

\* What the constants must satisfy.
UnitTableOK ==
    /\ Self \notin Adders
    /\ MaxUnitStack \in Nat
    /\ LevelStack \in [Units -> Seq(Nat)] /\ LevelCost \in [Units -> Seq(Amounts)]
    /\ \A u \in Units : Len(LevelStack[u]) = Len(LevelCost[u])
    /\ LevelCurrency \in Currencies

VARIABLES
    wrows, wcache, wact, wturn, wreqs, wreps, wtaken,   \* the wallet
    lost,
    urows,      \* player_units: unit -> level, stack
    ucache,     \* _units
    uact,       \* is the unit grain activated?
    uturn,      \* the request the activation is running, at its await
    ureqs,      \* requests queued at the grain
    ureps       \* replies not yet received

W == INSTANCE Wallet WITH Callers <- {Self} \cup Adders

walletVars == <<wrows, wcache, wact, wturn, wreqs, wreps, wtaken>>
unitVars == <<urows, ucache, uact, uturn, ureqs, ureps>>

-----------------------------------------------------------------------------
Request == [from : Adders, op : {"AddOrUpdate", "Get"}, unit : Units]

Reply == [from : Adders, res : {"Success", "MaxUnitStack", "DbError", "Exception"}]

UnitDto == [level : Nat, stack : Nat]

Turn == [pc : {"enough", "spend", "await", "ok", "norow", "failed"},
         from : {Self} \cup Adders, live : BOOLEAN,
         stmt : {"insert", "stack", "level"}, unit : Units]

Idle == [pc |-> "idle"]

NoUnits == [u \in {} |-> 0]

\* A level-up was refused above the last row of the table, or for its stack.
LevelsUp(u) ==
    /\ u \in DOMAIN ucache
    /\ ucache[u].level \in DOMAIN LevelCost[u]
    /\ LevelStack[u][ucache[u].level] <= ucache[u].stack

\* A full stack is full by the cache.
FullByOneMore(u) == u \in DOMAIN ucache /\ ucache[u].stack > MaxUnitStack
Full(u) == u \in DOMAIN ucache /\ ucache[u].stack >= MaxUnitStack

AddStatement(u) == IF u \in DOMAIN ucache THEN "stack" ELSE "insert"

\* player_units is keyed by (player_id, unit_id).
Conflict == uturn.pc = "await" /\ uturn.stmt = "insert" /\ uturn.unit \in DOMAIN urows

Affected == uturn.stmt = "insert" \/ uturn.unit \in DOMAIN urows

\* A table or the cache after the pending statement.  The level written is
\* one above that of the cache, whatever the row holds.
Changed(f) ==
    LET u == uturn.unit
        new == CASE uturn.stmt = "insert" -> [level |-> 1, stack |-> 0]
                 [] uturn.stmt = "stack"  -> [f[u] EXCEPT !.stack = @ + 1]
                 [] uturn.stmt = "level"  -> [f[u] EXCEPT !.level = ucache[u].level + 1]
    IN  [x \in DOMAIN f \cup {u} |-> IF x = u THEN new ELSE f[x]]

\* affectedRow <= 0 and exceptions leave the cache alone
Succeeded == uturn.pc = "ok"

\* c awaits an answer of this grain
Calling(c) ==
    \/ \E m \in ureqs : m.from = c
    \/ uturn # Idle /\ uturn.from = c /\ uturn.live

Answer(c, res) == ureps \cup {[from |-> c, res |-> res]}

At(pc, from, stmt, u) ==
    [pc |-> pc, from |-> from, live |-> TRUE, stmt |-> stmt, unit |-> u]

EndTurn == uturn' = Idle

CallWallet(op, u) ==
    W!Send([from |-> Self, op |-> op, cur |-> LevelCurrency,
            amt |-> LevelCost[u][ucache[u].level]])

-----------------------------------------------------------------------------
Init ==
    /\ W!Init
    /\ urows = NoUnits /\ ucache = NoUnits
    /\ uact = FALSE
    /\ uturn = Idle
    /\ ureqs = {} /\ ureps = {}

Send(m) ==
    /\ ~Calling(m.from)
    /\ ureqs' = ureqs \cup {m}
    /\ ureps' = {r \in ureps : r.from # m.from}
    /\ UNCHANGED <<urows, ucache, uact, uturn>>

Receive(c) ==
    /\ \E r \in ureps : r.from = c
    /\ ureps' = {r \in ureps : r.from # c}
    /\ UNCHANGED <<urows, ucache, uact, uturn, ureqs>>

TimeOut(c) ==
    \/ /\ \E m \in ureqs : m.from = c
       /\ ureqs' = {m \in ureqs : m.from # c}
       /\ UNCHANGED <<urows, ucache, uact, uturn, ureps>>
    \/ /\ uturn # Idle /\ uturn.from = c /\ uturn.live
       /\ uturn' = [uturn EXCEPT !.live = FALSE]
       /\ UNCHANGED <<urows, ucache, uact, ureqs, ureps>>

Activate ==
    /\ ~uact
    /\ uact' = TRUE
    /\ ucache' = urows
    /\ UNCHANGED <<walletVars, lost, urows, uturn, ureqs, ureps>>

ActivateFails ==
    /\ ~uact /\ ureqs # {}
    /\ ureps' = ureps \cup [from : {m.from : m \in ureqs}, res : {"Exception"}]
    /\ ureqs' = {}
    /\ UNCHANGED <<walletVars, lost, urows, ucache, uact, uturn>>

Deactivate ==
    /\ uact /\ uturn = Idle /\ ureqs = {}
    /\ uact' = FALSE
    /\ ucache' = NoUnits
    /\ UNCHANGED <<walletVars, lost, urows, uturn, ureqs, ureps>>

\* AddOrUpdateAsync up to its statement; GetAsync answers at once.
Begin(m) ==
    /\ uact /\ uturn = Idle /\ m \in ureqs
    /\ ureqs' = ureqs \ {m}
    /\ \/ /\ m.op = "Get"
          /\ ureps' = Answer(m.from, "Success") /\ UNCHANGED uturn
       \/ /\ m.op = "AddOrUpdate" /\ Full(m.unit)
          /\ ureps' = Answer(m.from, "MaxUnitStack") /\ UNCHANGED uturn
       \/ /\ m.op = "AddOrUpdate" /\ ~Full(m.unit)
          /\ uturn' = At("await", m.from, AddStatement(m.unit), m.unit)
          /\ UNCHANGED ureps
    /\ UNCHANGED <<walletVars, lost, urows, ucache, uact>>

\* LevelUpAsync, asked for by a client.
LevelUp(u) ==
    /\ uact /\ uturn = Idle
    /\ \/ ~LevelsUp(u) /\ UNCHANGED <<walletVars, lost, uturn>>
       \/ /\ LevelsUp(u)
          /\ CallWallet("IsEnough", u)
          /\ uturn' = At("enough", Self, "level", u)
    /\ UNCHANGED <<urows, ucache, uact, ureqs, ureps>>

GrantedAny(r) == TRUE
Granted(r) == r.res = "Success"

Enough ==
    /\ uturn.pc = "enough"
    /\ \E r \in wreps :
        /\ r.from = Self
        /\ \/ /\ Granted(r)
              /\ CallWallet("Spend", uturn.unit)
              /\ uturn' = [uturn EXCEPT !.pc = "spend"]
           \/ ~Granted(r) /\ W!Receive(Self) /\ EndTurn
    /\ UNCHANGED <<urows, ucache, uact, ureqs, ureps>>

Spent ==
    /\ uturn.pc = "spend"
    /\ \E r \in wreps :
        /\ r.from = Self
        /\ \/ Granted(r) /\ uturn' = [uturn EXCEPT !.pc = "await"]
           \/ ~Granted(r) /\ EndTurn
    /\ W!Receive(Self)
    /\ UNCHANGED <<urows, ucache, uact, ureqs, ureps>>

Apply ==
    /\ uturn.pc = "await" /\ ~Conflict
    /\ urows' = IF Affected THEN Changed(urows) ELSE urows
    /\ uturn' = [uturn EXCEPT !.pc = IF Affected THEN "ok" ELSE "norow"]
    /\ UNCHANGED <<walletVars, lost, ucache, uact, ureqs, ureps>>

Resume ==
    /\ uturn.pc \in {"ok", "norow", "failed"}
    /\ ucache' = IF Succeeded THEN Changed(ucache) ELSE ucache
    /\ ureps' = IF uturn.from = Self \/ ~uturn.live THEN ureps
                ELSE Answer(uturn.from,
                       CASE Succeeded           -> "Success"
                         [] uturn.pc = "failed" -> "Exception"
                         [] OTHER                -> "DbError")
    /\ EndTurn
    /\ UNCHANGED <<walletVars, lost, urows, uact, ureqs>>

-----------------------------------------------------------------------------
\* What fails: the statement throws, before or after it is applied.
Fail ==
    /\ uturn.pc = "await"
    /\ uturn' = [uturn EXCEPT !.pc = "failed"]
    /\ UNCHANGED <<walletVars, lost, urows, ucache, uact, ureqs, ureps>>

LoseAck ==
    /\ uturn.pc = "await" /\ ~Conflict /\ Affected /\ lost < MaxLost
    /\ urows' = Changed(urows)
    /\ uturn' = [uturn EXCEPT !.pc = "failed"]
    /\ lost' = lost + 1
    /\ UNCHANGED <<walletVars, ucache, uact, ureqs, ureps>>

\* The wallet does not answer in time: the level-up throws here.
CallTimesOut ==
    /\ uturn.pc \in {"enough", "spend"}
    /\ W!TimeOut(Self)
    /\ EndTurn
    /\ UNCHANGED <<urows, ucache, uact, ureqs, ureps>>

Crash ==
    /\ W!Crash
    /\ \/ UNCHANGED urows
       \/ uturn.pc = "await" /\ ~Conflict /\ Affected /\ urows' = Changed(urows)
    /\ ucache' = NoUnits
    /\ uact' = FALSE
    /\ EndTurn
    /\ ureqs' = {} /\ ureps' = {}

-----------------------------------------------------------------------------
Serve ==
    \/ Activate \/ Deactivate
    \/ \E m \in ureqs : Begin(m)
    \/ \E u \in Units : LevelUp(u)
    \/ Enough \/ Spent \/ Apply \/ Resume
    \/ W!Serve /\ UNCHANGED unitVars

Fault ==
    \/ ActivateFails \/ Fail \/ LoseAck \/ CallTimesOut
    \/ W!Fault /\ UNCHANGED unitVars

-----------------------------------------------------------------------------
(* Every variable stays in its type. *)
TypeOK ==
    /\ W!TypeOK
    /\ urows \in [DOMAIN urows -> UnitDto] /\ DOMAIN urows \subseteq Units
    /\ ucache \in [DOMAIN ucache -> UnitDto] /\ DOMAIN ucache \subseteq Units
    /\ uact \in BOOLEAN
    /\ uturn \in Turn \cup {Idle}
    /\ ureqs \subseteq Request /\ ureps \subseteq Reply

(* MaxUnitStack is compared with the cache and the UPDATE compares nothing:
   a row exceeds the maximum by at most one for each lost acknowledgement.  *)
StackBounded == \A u \in DOMAIN urows : urows[u].stack <= MaxUnitStack + lost
=============================================================================
