------------------------------- MODULE Level --------------------------------
(***************************************************************************)
(* One player's PlayerLevelGrain.  AddExpAsync inserts the player's row    *)
(* when the cache knows of none, climbs the level table with what the      *)
(* cache holds, and overwrites the row with the result.                    *)
(***************************************************************************)
EXTENDS Integers

CONSTANTS
    Callers,        \* grains that call this one
    Gains,          \* the experience they add
    RequiredExp,    \* the Level table: level -> experience to leave it
    NextLevel,      \* and where that leads
    MaxExp,         \* bound: callers add no more once this much was added
    MaxLost         \* how many acknowledgements the database link may lose

Levels == DOMAIN RequiredExp

\* What the constants must satisfy.
LevelTableOK ==
    /\ Gains \subseteq Nat /\ MaxExp \in Nat /\ MaxLost \in Nat
    /\ 1 \in Levels /\ Levels \subseteq Nat \ {0}
    /\ RequiredExp \in [Levels -> Nat \ {0}]
    /\ NextLevel \in [Levels -> Nat]

VARIABLES
    lrows,      \* player_levels: no row, or the player's one
    lcache,     \* _level, _exp and _exists
    lact,       \* is the grain activated?
    lturn,      \* the request the activation is running, at its await
    lreqs,      \* requests queued at the grain
    lreps,      \* replies not yet received
    lgained,    \* history: the experience of the UPDATEs applied
    lost        \* history: statements applied whose answer never arrived

lvars == <<lrows, lcache, lact, lturn, lreqs, lreps, lgained, lost>>

-----------------------------------------------------------------------------
Request == [from : Callers, exp : Gains]

ResultCode == {"Success", "InvalidParameter", "DbInsertError", "DbUpdateError",
               "Exception"}

Reply == [from : Callers, res : ResultCode]

Standing == [lvl : Nat, exp : Nat]

Turn == [pc : {"await", "ok", "norow", "failed"}, from : Callers, live : BOOLEAN,
         stmt : {"insert", "update"}, gain : Gains, new : Standing]

Idle == [pc |-> "idle"]

NoCache == [lvl |-> 1, exp |-> 0, exists |-> FALSE]

\* The level-up loop: where e experience leads from level l.  Experience is
\* dropped at a level the table does not have.
ClimbOnce(l, e) ==
    IF l \notin Levels THEN [lvl |-> l, exp |-> 0]
    ELSE IF e >= RequiredExp[l] THEN [lvl |-> NextLevel[l], exp |-> e - RequiredExp[l]]
    ELSE [lvl |-> l, exp |-> e]
Climb(l, e) ==
    LET up[x \in 0..e] == [k \in Nat |->
            IF k \notin Levels THEN [lvl |-> k, exp |-> 0]
            ELSE IF x >= RequiredExp[k] THEN up[x - RequiredExp[k]][NextLevel[k]]
            ELSE [lvl |-> k, exp |-> x]]
    IN  up[e][l]

Conflict == lturn.pc = "await" /\ lturn.stmt = "insert" /\ lrows # {}

Affected == lturn.stmt = "insert" \/ lrows # {}

Calling(c) ==
    \/ \E m \in lreqs : m.from = c
    \/ lturn # Idle /\ lturn.from = c /\ lturn.live

\* affectedRow <= 0 and exceptions leave the cache alone
Succeeded == lturn.pc = "ok"

Answer(c, res) == lreps \cup {[from |-> c, res |-> res]}

-----------------------------------------------------------------------------
Init ==
    /\ lrows = {}
    /\ lcache = NoCache /\ lact = FALSE
    /\ lturn = Idle
    /\ lreqs = {} /\ lreps = {}
    /\ lgained = 0 /\ lost = 0

Send(m) ==
    /\ ~Calling(m.from)
    /\ lgained + m.exp <= MaxExp
    /\ lreqs' = lreqs \cup {m}
    /\ lreps' = {r \in lreps : r.from # m.from}
    /\ UNCHANGED <<lrows, lcache, lact, lturn, lgained, lost>>

Receive(c) ==
    /\ \E r \in lreps : r.from = c
    /\ lreps' = {r \in lreps : r.from # c}
    /\ UNCHANGED <<lrows, lcache, lact, lturn, lreqs, lgained, lost>>

TimeOut(c) ==
    \/ /\ \E m \in lreqs : m.from = c
       /\ lreqs' = {m \in lreqs : m.from # c}
       /\ UNCHANGED <<lrows, lcache, lact, lturn, lreps, lgained, lost>>
    \/ /\ lturn # Idle /\ lturn.from = c /\ lturn.live
       /\ lturn' = [lturn EXCEPT !.live = FALSE]
       /\ UNCHANGED <<lrows, lcache, lact, lreqs, lreps, lgained, lost>>

Activate ==
    /\ ~lact /\ lreqs # {}
    /\ lact' = TRUE
    /\ \/ lrows = {} /\ lcache' = NoCache
       \/ \E r \in lrows : lcache' = [lvl |-> r.lvl, exp |-> r.exp, exists |-> TRUE]
    /\ UNCHANGED <<lrows, lturn, lreqs, lreps, lgained, lost>>

ActivateFails ==
    /\ ~lact /\ lreqs # {}
    /\ lreps' = lreps \cup [from : {m.from : m \in lreqs}, res : {"Exception"}]
    /\ lreqs' = {}
    /\ UNCHANGED <<lrows, lcache, lact, lturn, lgained, lost>>

\* The row the INSERT writes holds the level of the cache and no experience.
Inserting(m) ==
    [pc |-> "await", from |-> m.from, live |-> TRUE, stmt |-> "insert",
     gain |-> m.exp, new |-> [lvl |-> lcache.lvl, exp |-> 0]]

Updating(from, live, gain) ==
    [pc |-> "await", from |-> from, live |-> live, stmt |-> "update",
     gain |-> gain, new |-> Climb(lcache.lvl, lcache.exp + gain)]

Begin(m) ==
    /\ lact /\ lturn = Idle /\ m \in lreqs
    /\ lreqs' = lreqs \ {m}
    /\ \/ m.exp = 0 /\ lreps' = Answer(m.from, "InvalidParameter") /\ UNCHANGED lturn
       \/ /\ m.exp > 0 /\ UNCHANGED lreps
          /\ lturn' = IF lcache.exists THEN Updating(m.from, TRUE, m.exp)
                      ELSE Inserting(m)
    /\ UNCHANGED <<lrows, lcache, lact, lgained, lost>>

GainApplied == IF lturn.stmt = "update" THEN lgained + lturn.gain ELSE lgained

Apply ==
    /\ lturn.pc = "await" /\ ~Conflict
    /\ lrows' = IF Affected THEN {lturn.new} ELSE lrows
    /\ lgained' = IF Affected THEN GainApplied ELSE lgained
    /\ lturn' = [lturn EXCEPT !.pc = IF Affected THEN "ok" ELSE "norow"]
    /\ UNCHANGED <<lcache, lact, lreqs, lreps, lost>>

Fail ==
    /\ lturn.pc = "await"
    /\ lturn' = [lturn EXCEPT !.pc = "failed"]
    /\ UNCHANGED <<lrows, lcache, lact, lreqs, lreps, lgained, lost>>

LoseAck ==
    /\ lturn.pc = "await" /\ ~Conflict /\ Affected /\ lost < MaxLost
    /\ lrows' = {lturn.new} /\ lgained' = GainApplied
    /\ lturn' = [lturn EXCEPT !.pc = "failed"]
    /\ lost' = lost + 1
    /\ UNCHANGED <<lcache, lact, lreqs, lreps>>

\* The INSERT is back: the request goes on to its UPDATE.
Inserted ==
    /\ lturn.pc # "idle" /\ lturn.stmt = "insert" /\ Succeeded
    /\ lcache' = [lcache EXCEPT !.exists = TRUE]
    /\ lturn' = Updating(lturn.from, lturn.live, lturn.gain)
    /\ UNCHANGED <<lrows, lact, lreqs, lreps, lgained, lost>>

Resume ==
    /\ lturn.pc \in {"ok", "norow", "failed"}
    /\ ~(lturn.stmt = "insert" /\ Succeeded)
    /\ lcache' = IF ~Succeeded THEN lcache
                 ELSE [lvl |-> lturn.new.lvl, exp |-> lturn.new.exp, exists |-> TRUE]
    /\ lreps' = IF ~lturn.live THEN lreps
                ELSE Answer(lturn.from,
                       CASE Succeeded           -> "Success"
                         [] lturn.pc = "failed" -> "Exception"
                         [] OTHER                -> "DbUpdateError")
    /\ lturn' = Idle
    /\ UNCHANGED <<lrows, lact, lreqs, lgained, lost>>

Deactivate ==
    /\ lact /\ lturn = Idle /\ lreqs = {}
    /\ lact' = FALSE /\ lcache' = NoCache
    /\ UNCHANGED <<lrows, lturn, lreqs, lreps, lgained, lost>>

Crash ==
    /\ \/ UNCHANGED <<lrows, lgained>>
       \/ /\ lturn.pc = "await" /\ ~Conflict /\ Affected
          /\ lrows' = {lturn.new} /\ lgained' = GainApplied
    /\ lact' = FALSE /\ lcache' = NoCache
    /\ lturn' = Idle
    /\ lreqs' = {} /\ lreps' = {}
    /\ UNCHANGED lost

Serve ==
    \/ Activate \/ Deactivate
    \/ \E m \in lreqs : Begin(m)
    \/ Apply \/ Inserted \/ Resume

Fault == ActivateFails \/ Fail \/ LoseAck

Next ==
    \/ \E m \in Request : Send(m)
    \/ \E c \in Callers : Receive(c) \/ TimeOut(c)
    \/ Serve \/ Fault \/ Crash

Spec == Init /\ [][Next]_lvars

-----------------------------------------------------------------------------
(* Every variable stays in its type. *)
TypeOK ==
    /\ lrows \in SUBSET Standing
    /\ lcache.lvl \in Nat /\ lcache.exp \in Nat /\ lcache.exists \in BOOLEAN
    /\ lact \in BOOLEAN
    /\ lturn \in Turn \cup {Idle}
    /\ lreqs \subseteq Request
    /\ lreps \subseteq Reply
    /\ lgained \in Nat /\ lost \in Nat

(* A level is reached by the experience added in all, however it was split
   over calls, failures, timeouts and restarts: until an acknowledgement is
   lost the row is where one climb with the whole sum would have led.      *)
ExpIsCounted == lost = 0 => \A r \in lrows : r = Climb(1, lgained)
=============================================================================
