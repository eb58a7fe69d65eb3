----------------------------- MODULE Inventory ------------------------------
(***************************************************************************)
(* One player's PlayerInventoryGrain: the rows of player_inventory, the    *)
(* cache its activation keeps, and the calls other grains make.  The grain *)
(* runs one request at a time, as Wallet does; unlike a wallet it inserts  *)
(* the row of an item it has not cached.                                   *)
(***************************************************************************)
EXTENDS Integers

CONSTANTS
    Callers,        \* grains that call this inventory
    Items,          \* item ids
    MaxStack,       \* Item table: item -> MaxStack, 0 where it has no maximum
    Counts,         \* the counts callers ask for
    MaxCount,       \* a bound on Counts
    MaxLost,        \* how many acknowledgements the database link may lose
    MaxHeld         \* bound: callers add no more once a row holds this many

ASSUME InventoryAssumption ==
    /\ MaxStack \in [Items -> Nat]
    /\ MaxCount \in Nat /\ Counts \subseteq 0..MaxCount
    /\ MaxLost \in Nat /\ MaxHeld \in Nat

VARIABLES
    irows,      \* player_inventory: item -> count
    icache,     \* _items: item -> count
    iact,       \* is the grain activated?
    iturn,      \* the request the activation is running, at its await
    ireqs,      \* requests queued at the grain
    ireps,      \* replies not yet received
    lost        \* history: statements applied whose answer never arrived

ivars == <<irows, icache, iact, iturn, ireqs, ireps, lost>>

-----------------------------------------------------------------------------
Request == [from : Callers, op : {"Add", "Spend"}, item : Items, count : Counts]

ResultCode == {"Success", "InvalidParameter", "NotEnoughItemCount",
               "DbUpdateError", "Exception"}

Reply == [from : Callers, res : ResultCode]

Turn == [pc : {"await", "ok", "norow", "failed"}, from : Callers, live : BOOLEAN,
         stmt : {"insert", "add", "spend"}, item : Items, count : 0..MaxCount]

Idle == [pc |-> "idle"]

Nothing == [i \in {} |-> 0]

CountIn(f, i) == IF i \in DOMAIN f THEN f[i] ELSE 0

Put(f, i, n) == [x \in DOMAIN f \cup {i} |-> IF x = i THEN n ELSE f[x]]

AddCountUnclamped(i, n) == n

\* Math.Max(0, Math.Min(count, room))
AddCount(i, n) ==
    LET room == IF MaxStack[i] > 0 THEN MaxStack[i] - CountIn(icache, i) ELSE n
    IN  IF room <= 0 THEN 0 ELSE IF n <= room THEN n ELSE room

\* player_inventory is keyed by (player_id, item_id): an INSERT of a row that
\* exists throws, an UPDATE of one that does not affects no row.
Conflict == iturn.stmt = "insert" /\ iturn.item \in DOMAIN irows

Affected == iturn.stmt = "insert" \/ iturn.item \in DOMAIN irows

Changed(f) ==
    Put(f, iturn.item, IF iturn.stmt = "spend"
                       THEN CountIn(f, iturn.item) - iturn.count
                       ELSE CountIn(f, iturn.item) + iturn.count)

\* c awaits an answer
Calling(c) ==
    \/ \E m \in ireqs : m.from = c
    \/ iturn # Idle /\ iturn.from = c /\ iturn.live

\* affectedRow <= 0 and exceptions leave the cache alone
Succeeded == iturn.pc = "ok"

\* The statement that adds: an item in the cache is taken to have a row.
AddStatement(i) == IF i \in DOMAIN icache THEN "add" ELSE "insert"

Answer(c, res) == ireps \cup {[from |-> c, res |-> res]}

-----------------------------------------------------------------------------
Init ==
    /\ irows = Nothing
    /\ icache = Nothing
    /\ iact = FALSE
    /\ iturn = Idle
    /\ ireqs = {} /\ ireps = {}
    /\ lost = 0

\* A caller that got its answer may go on to its next call.
Send(m) ==
    /\ ~Calling(m.from)
    /\ m.op = "Add" => CountIn(irows, m.item) < MaxHeld
    /\ ireqs' = ireqs \cup {m}
    /\ ireps' = {r \in ireps : r.from # m.from}
    /\ UNCHANGED <<irows, icache, iact, iturn, lost>>

Receive(c) ==
    /\ \E r \in ireps : r.from = c
    /\ ireps' = {r \in ireps : r.from # c}
    /\ UNCHANGED <<irows, icache, iact, iturn, ireqs, lost>>

TimeOut(c) ==
    \/ /\ \E m \in ireqs : m.from = c
       /\ ireqs' = {m \in ireqs : m.from # c}
       /\ UNCHANGED <<irows, icache, iact, iturn, ireps, lost>>
    \/ /\ iturn # Idle /\ iturn.from = c /\ iturn.live
       /\ iturn' = [iturn EXCEPT !.live = FALSE]
       /\ UNCHANGED <<irows, icache, iact, ireqs, ireps, lost>>

ActivateEmpty ==
    /\ ~iact /\ ireqs # {}
    /\ iact' = TRUE
    /\ UNCHANGED <<irows, icache, iturn, ireqs, ireps, lost>>
Activate ==
    /\ ~iact /\ ireqs # {}
    /\ iact' = TRUE
    /\ icache' = irows
    /\ UNCHANGED <<irows, iturn, ireqs, ireps, lost>>

ActivateFails ==
    /\ ~iact /\ ireqs # {}
    /\ ireps' = ireps \cup [from : {m.from : m \in ireqs}, res : {"Exception"}]
    /\ ireqs' = {}
    /\ UNCHANGED <<irows, icache, iact, iturn, lost>>

AnswerAtOnce(m) ==
    \/ /\ m.count = 0
       /\ ireps' = Answer(m.from, "InvalidParameter")
    \/ /\ m.count > 0 /\ m.op = "Add" /\ AddCount(m.item, m.count) = 0
       /\ ireps' = Answer(m.from, "Success")
    \/ /\ m.count > 0 /\ m.op = "Spend" /\ CountIn(icache, m.item) < m.count
       /\ ireps' = Answer(m.from, "NotEnoughItemCount")

Awaiting(m, stmt, n) ==
    [pc |-> "await", from |-> m.from, live |-> TRUE, stmt |-> stmt,
     item |-> m.item, count |-> n]

Submit(m) ==
    /\ m.count > 0
    /\ \/ /\ m.op = "Add" /\ AddCount(m.item, m.count) > 0
          /\ iturn' = Awaiting(m, AddStatement(m.item), AddCount(m.item, m.count))
       \/ /\ m.op = "Spend" /\ CountIn(icache, m.item) >= m.count
          /\ iturn' = Awaiting(m, "spend", m.count)

Begin(m) ==
    /\ iact /\ iturn = Idle /\ m \in ireqs
    /\ ireqs' = ireqs \ {m}
    /\ \/ AnswerAtOnce(m) /\ UNCHANGED iturn
       \/ Submit(m) /\ UNCHANGED ireps
    /\ UNCHANGED <<irows, icache, iact, lost>>

Apply ==
    /\ iturn.pc = "await" /\ ~Conflict
    /\ irows' = IF Affected THEN Changed(irows) ELSE irows
    /\ iturn' = [iturn EXCEPT !.pc = IF Affected THEN "ok" ELSE "norow"]
    /\ UNCHANGED <<icache, iact, ireqs, ireps, lost>>

Fail ==
    /\ iturn.pc = "await"
    /\ iturn' = [iturn EXCEPT !.pc = "failed"]
    /\ UNCHANGED <<irows, icache, iact, ireqs, ireps, lost>>

LoseAck ==
    /\ iturn.pc = "await" /\ ~Conflict /\ Affected /\ lost < MaxLost
    /\ irows' = Changed(irows)
    /\ iturn' = [iturn EXCEPT !.pc = "failed"]
    /\ lost' = lost + 1
    /\ UNCHANGED <<icache, iact, ireqs, ireps>>

Resume ==
    /\ iturn.pc \in {"ok", "norow", "failed"}
    /\ icache' = IF Succeeded THEN Changed(icache) ELSE icache
    /\ ireps' = IF ~iturn.live THEN ireps
                ELSE Answer(iturn.from,
                       CASE Succeeded           -> "Success"
                         [] iturn.pc = "failed" -> "Exception"
                         [] OTHER                -> "DbUpdateError")
    /\ iturn' = Idle
    /\ UNCHANGED <<irows, iact, ireqs, lost>>

Deactivate ==
    /\ iact /\ iturn = Idle /\ ireqs = {}
    /\ iact' = FALSE
    /\ icache' = Nothing
    /\ UNCHANGED <<irows, iturn, ireqs, ireps, lost>>

Crash ==
    /\ \/ UNCHANGED irows
       \/ iturn.pc = "await" /\ ~Conflict /\ Affected /\ irows' = Changed(irows)
    /\ iact' = FALSE
    /\ icache' = Nothing
    /\ iturn' = Idle
    /\ ireqs' = {} /\ ireps' = {}
    /\ UNCHANGED lost

\* What the grain and its database do by themselves, and how that fails.
Serve ==
    \/ Activate \/ Deactivate
    \/ \E m \in ireqs : Begin(m)
    \/ Apply \/ Resume

Fault == ActivateFails \/ Fail \/ LoseAck

Next ==
    \/ \E m \in Request : Send(m)
    \/ \E c \in Callers : Receive(c) \/ TimeOut(c)
    \/ Serve \/ Fault \/ Crash

Spec == Init /\ [][Next]_ivars

-----------------------------------------------------------------------------
(* Every variable stays in its type, and only cached items with a row in
   the table are ever cached.                                              *)
TypeOK ==
    /\ irows \in [DOMAIN irows -> Int] /\ DOMAIN irows \subseteq Items
    /\ icache \in [DOMAIN icache -> Int] /\ DOMAIN icache \subseteq DOMAIN irows
    /\ iact \in BOOLEAN
    /\ iturn \in Turn \cup {Idle}
    /\ ireqs \subseteq Request
    /\ ireps \subseteq Reply
    /\ lost \in Nat

(* AddAsync clamps what it grants to the room it sees in its cache, SpendAsync
   refuses what its cache does not hold, and the UPDATE checks neither: a row
   leaves 0 .. MaxStack only through lost acknowledgements, each of which
   hides at most one count.  Crashes, failures and callers that gave up in
   the middle never take it there.                                         *)
CountWithinStack ==
    \A i \in DOMAIN irows :
        /\ irows[i] >= -(lost * MaxCount)
        /\ MaxStack[i] > 0 => irows[i] <= MaxStack[i] + lost * MaxCount

(* Until an acknowledgement is lost an activated grain's cache equals its rows
   between two requests, whatever failed, timed out or died before.        *)
CacheIsExact == lost = 0 /\ iact /\ iturn = Idle => icache = irows
=============================================================================
