------------------------------ MODULE Stamina -------------------------------
(***************************************************************************)
(* One player's PlayerStaminaGrain.  Nothing recovers by itself: the row   *)
(* and the cache hold an amount and the instant it was right, and          *)
(* CalculateRecoveredAmount adds what the time since then is worth.  The   *)
(* row is inserted by the first ConsumeAsync and overwritten by the others.*)
(***************************************************************************)
EXTENDS Integers

CONSTANTS
    Callers,        \* grains that call this one
    Costs,          \* the amounts they consume
    Full,           \* StaminaDefaultMaxAmount, and max_amount of the row
    Interval,       \* StaminaRecoverIntervalSeconds
    Recover,        \* StaminaRecoverAmount
    MaxNow,         \* bound: the clock stops there
    MaxLost         \* how many acknowledgements the database link may lose

ASSUME StaminaAssumption ==
    /\ Costs \subseteq Nat
    /\ Full \in Nat /\ Interval \in Nat /\ Recover \in Nat
    /\ MaxNow \in Nat /\ MaxLost \in Nat

VARIABLES
    now,        \* TimeUtil.UtcNow, in seconds
    srows,      \* player_stamina: no row, or the player's one
    scache,     \* _amount, _lastUpdatedAt and _exists
    sact,       \* is the grain activated?
    sturn,      \* the request the activation is running, at its await
    sreqs,      \* requests queued at the grain
    sreps,      \* replies not yet received
    sused,      \* history: what ConsumeAsync granted in all
    prompt,     \* history: no time passed while a statement was awaited
    lost        \* history: statements applied whose answer never arrived

svars == <<now, srows, scache, sact, sturn, sreqs, sreps, sused, prompt, lost>>

-----------------------------------------------------------------------------
Request == [from : Callers, cost : Costs]

ResultCode == {"Success", "InvalidParameter", "NotEnoughStamina", "DbUpdateError",
               "Exception"}

Reply == [from : Callers, res : ResultCode]

Stock == [amt : 0..Full, last : 0..MaxNow]

Turn == [pc : {"await", "ok", "norow", "failed"}, from : Callers, live : BOOLEAN,
         stmt : {"insert", "update"}, cost : Costs, new : Stock]

Idle == [pc |-> "idle"]

NoCache == [amt |-> 0, last |-> 0, exists |-> FALSE]

\* What s is worth by now: whole intervals only, and never above Full.
Intervals(s) == IF Interval = 0 THEN 0 ELSE (now - s.last) \div Interval

RecoveredAmount(s) ==
    IF s.amt >= Full \/ Intervals(s) <= 0 THEN s.amt
    ELSE IF s.amt + Intervals(s) * Recover >= Full THEN Full
    ELSE s.amt + Intervals(s) * Recover

RecoveredAtOld(s) == s.last
RecoveredAtNow(s) == IF s.amt >= Full \/ Intervals(s) <= 0 THEN s.last ELSE now
RecoveredAt(s) ==
    IF s.amt >= Full \/ Intervals(s) <= 0 THEN s.last
    ELSE IF RecoveredAmount(s) >= Full THEN now
    ELSE s.last + Intervals(s) * Interval

Conflict == sturn.pc = "await" /\ sturn.stmt = "insert" /\ srows # {}

Affected == sturn.stmt = "insert" \/ srows # {}

Calling(c) ==
    \/ \E m \in sreqs : m.from = c
    \/ sturn # Idle /\ sturn.from = c /\ sturn.live

\* affectedRow <= 0 and exceptions leave the cache alone
Succeeded == sturn.pc = "ok"

Answer(c, res) == sreps \cup {[from |-> c, res |-> res]}

-----------------------------------------------------------------------------
Init ==
    /\ now = 0
    /\ srows = {}
    /\ scache = NoCache /\ sact = FALSE
    /\ sturn = Idle
    /\ sreqs = {} /\ sreps = {}
    /\ sused = 0 /\ prompt = TRUE /\ lost = 0

Tick ==
    /\ now < MaxNow
    /\ now' = now + 1
    /\ prompt' = (prompt /\ sturn = Idle)
    /\ UNCHANGED <<srows, scache, sact, sturn, sreqs, sreps, sused, lost>>

Send(m) ==
    /\ ~Calling(m.from)
    /\ sreqs' = sreqs \cup {m}
    /\ sreps' = {r \in sreps : r.from # m.from}
    /\ UNCHANGED <<now, srows, scache, sact, sturn, sused, prompt, lost>>

Receive(c) ==
    /\ \E r \in sreps : r.from = c
    /\ sreps' = {r \in sreps : r.from # c}
    /\ UNCHANGED <<now, srows, scache, sact, sturn, sreqs, sused, prompt, lost>>

TimeOut(c) ==
    \/ /\ \E m \in sreqs : m.from = c
       /\ sreqs' = {m \in sreqs : m.from # c}
       /\ UNCHANGED <<now, srows, scache, sact, sturn, sreps, sused, prompt, lost>>
    \/ /\ sturn # Idle /\ sturn.from = c /\ sturn.live
       /\ sturn' = [sturn EXCEPT !.live = FALSE]
       /\ UNCHANGED <<now, srows, scache, sact, sreqs, sreps, sused, prompt, lost>>

\* Without a row the player is full as of now.
Activate ==
    /\ ~sact /\ sreqs # {}
    /\ sact' = TRUE
    /\ \/ srows = {} /\ scache' = [amt |-> Full, last |-> now, exists |-> FALSE]
       \/ \E s \in srows : scache' = [amt |-> s.amt, last |-> s.last, exists |-> TRUE]
    /\ UNCHANGED <<now, srows, sturn, sreqs, sreps, sused, prompt, lost>>

ActivateFails ==
    /\ ~sact /\ sreqs # {}
    /\ sreps' = sreps \cup [from : {m.from : m \in sreqs}, res : {"Exception"}]
    /\ sreqs' = {}
    /\ UNCHANGED <<now, srows, scache, sact, sturn, sused, prompt, lost>>

Covers(cost) == RecoveredAmount(scache) >= cost

Submit(m) ==
    sturn' = [pc |-> "await", from |-> m.from, live |-> TRUE, cost |-> m.cost,
              stmt |-> IF scache.exists THEN "update" ELSE "insert",
              new  |-> [amt  |-> RecoveredAmount(scache) - m.cost,
                        last |-> IF scache.exists THEN RecoveredAt(scache) ELSE now]]

Begin(m) ==
    /\ sact /\ sturn = Idle /\ m \in sreqs
    /\ sreqs' = sreqs \ {m}
    /\ \/ m.cost = 0 /\ sreps' = Answer(m.from, "InvalidParameter") /\ UNCHANGED sturn
       \/ /\ m.cost > 0 /\ ~Covers(m.cost)
          /\ sreps' = Answer(m.from, "NotEnoughStamina") /\ UNCHANGED sturn
       \/ m.cost > 0 /\ Covers(m.cost) /\ Submit(m) /\ UNCHANGED sreps
    /\ UNCHANGED <<now, srows, scache, sact, sused, prompt, lost>>

Apply ==
    /\ sturn.pc = "await" /\ ~Conflict
    /\ srows' = IF Affected THEN {sturn.new} ELSE srows
    /\ sturn' = [sturn EXCEPT !.pc = IF Affected THEN "ok" ELSE "norow"]
    /\ UNCHANGED <<now, scache, sact, sreqs, sreps, sused, prompt, lost>>

Fail ==
    /\ sturn.pc = "await"
    /\ sturn' = [sturn EXCEPT !.pc = "failed"]
    /\ UNCHANGED <<now, srows, scache, sact, sreqs, sreps, sused, prompt, lost>>

LoseAck ==
    /\ sturn.pc = "await" /\ ~Conflict /\ Affected /\ lost < MaxLost
    /\ srows' = {sturn.new}
    /\ sturn' = [sturn EXCEPT !.pc = "failed"]
    /\ lost' = lost + 1
    /\ UNCHANGED <<now, scache, sact, sreqs, sreps, sused, prompt>>

\* After an INSERT the cache counts from the answer, the row from the call.
Resume ==
    /\ sturn.pc \in {"ok", "norow", "failed"}
    /\ scache' = IF ~Succeeded THEN scache
                 ELSE [amt |-> sturn.new.amt, exists |-> TRUE,
                       last |-> IF sturn.stmt = "insert" THEN now ELSE sturn.new.last]
    /\ sused' = IF Succeeded THEN sused + sturn.cost ELSE sused
    /\ sreps' = IF ~sturn.live THEN sreps
                ELSE Answer(sturn.from,
                       CASE Succeeded           -> "Success"
                         [] sturn.pc = "failed" -> "Exception"
                         [] OTHER                -> "DbUpdateError")
    /\ sturn' = Idle
    /\ UNCHANGED <<now, srows, sact, sreqs, prompt, lost>>

Deactivate ==
    /\ sact /\ sturn = Idle /\ sreqs = {}
    /\ sact' = FALSE /\ scache' = NoCache
    /\ UNCHANGED <<now, srows, sturn, sreqs, sreps, sused, prompt, lost>>

Crash ==
    /\ \/ UNCHANGED srows
       \/ sturn.pc = "await" /\ ~Conflict /\ Affected /\ srows' = {sturn.new}
    /\ sact' = FALSE /\ scache' = NoCache
    /\ sturn' = Idle
    /\ sreqs' = {} /\ sreps' = {}
    /\ UNCHANGED <<now, sused, prompt, lost>>

Serve ==
    \/ Activate \/ Deactivate
    \/ \E m \in sreqs : Begin(m)
    \/ Apply \/ Resume

Fault == ActivateFails \/ Fail \/ LoseAck

Next ==
    \/ \E m \in Request : Send(m)
    \/ \E c \in Callers : Receive(c) \/ TimeOut(c)
    \/ Tick \/ Serve \/ Fault \/ Crash

Spec == Init /\ [][Next]_svars

-----------------------------------------------------------------------------
(* Every variable stays in its type, and no instant lies in the future.    *)
TypeOK ==
    /\ now \in 0..MaxNow
    /\ srows \in SUBSET Stock
    /\ scache \in [amt : 0..Full, last : 0..now, exists : BOOLEAN]
    /\ sact \in BOOLEAN /\ prompt \in BOOLEAN
    /\ sturn \in Turn \cup {Idle}
    /\ sreqs \subseteq Request
    /\ sreps \subseteq Reply
    /\ sused \in Nat /\ lost \in Nat

(* Whatever is lost, crashes, times out or restarts, ConsumeAsync never grants
   more than the player started with and the time since then is worth: no
   interval is counted twice, by cache and row or before and after an await. *)
NoFreeStamina ==
    sused <= Full + IF Interval = 0 THEN 0 ELSE (now \div Interval) * Recover

(* As long as statements take no time and none is lost, a player cannot tell
   the amount computed on demand from stamina that recovers second by second,
   restarts of the grain included.                                         *)
Worth == IF srows = {} THEN Full ELSE RecoveredAmount(CHOOSE s \in srows : TRUE)
Since ==
    IF Worth >= Full \/ Interval = 0 THEN 0
    ELSE (now - (CHOOSE s \in srows : TRUE).last) % Interval

R == INSTANCE Regeneration WITH stock <- Worth, phase <- Since
ImplementsRegeneration ==
    R!Init /\ [][lost = 0 /\ prompt' => R!Next \/ UNCHANGED <<Worth, Since>>]_svars
=============================================================================
