------------------------------- MODULE Wallet -------------------------------
(***************************************************************************)
(* One player's PlayerWalletGrain: the rows of player_wallets, the cache   *)
(* the activation keeps of them, and the calls other grains make.          *)
(*                                                                         *)
(* A grain runs one request at a time.  A request runs up to its await on  *)
(* DbConnector (Begin), the database executes the statement (Apply, Fail   *)
(* or LoseAck), and the request resumes (Resume).  In between the caller   *)
(* may give up (TimeOut) and the process may die (Crash).                  *)
(***************************************************************************)
EXTENDS Integers

CONSTANTS
    Callers,        \* grains and controllers that call this wallet
    Currencies,     \* CurrencyType
    Start,          \* the rows the database holds at first
    Amounts,        \* the amounts callers ask for
    MaxAmount,      \* a bound on Amounts
    MaxLost         \* how many acknowledgements the database link may lose

ASSUME WalletAssumption ==
    /\ DOMAIN Start \subseteq Currencies
    /\ Start \in [DOMAIN Start -> Nat]
    /\ MaxAmount \in Nat /\ Amounts \subseteq 0..MaxAmount
    /\ MaxLost \in Nat

VARIABLES
    wrows,      \* player_wallets: currency -> amount
    wcache,     \* _wallets: currency -> amount
    wact,       \* is the grain activated?
    wturn,      \* the request the activation is running, at its await
    wreqs,      \* requests queued at the grain
    wreps,      \* replies not yet received
    wtaken,     \* history: what applied Spend statements took, per caller
    lost        \* history: statements applied whose answer never arrived

wvars == <<wrows, wcache, wact, wturn, wreqs, wreps, wtaken, lost>>

-----------------------------------------------------------------------------
Request == [from : Callers, op : {"IsEnough", "Spend", "Add"},
            cur : Currencies, amt : Amounts]

ResultCode == {"Success", "NotEnoughCurrency", "DbUpdateError", "Exception"}

Reply == [from : Callers, res : ResultCode]

\* "live" is FALSE once the caller stopped waiting; "bal" is the balance the
\* request read before its await.
Turn == [pc : {"await", "ok", "norow", "failed"}, from : Callers, live : BOOLEAN,
         op : {"Spend", "Add"}, cur : Currencies, amt : 0..MaxAmount, bal : Int]

Idle == [pc |-> "idle"]

NoCache == [c \in {} |-> 0]

Balance(c) == IF c \in DOMAIN wcache THEN wcache[c] ELSE 0

IsEnough(c, amt) == c \in DOMAIN wcache /\ wcache[c] >= amt

\* balance < amount refuses a Spend
CoversAlways(c, amt) == TRUE
CoversOneShort(c, amt) == Balance(c) + 1 >= amt
Covers(c, amt) == Balance(c) >= amt

\* Math.Min(amount, - balance)
AddAmount(amt, bal) == IF amt <= -bal THEN amt ELSE -bal

SetBalanceOfNew(c, amt) ==
    IF c \in DOMAIN wcache THEN wcache ELSE [x \in DOMAIN wcache \cup {c} |-> amt]
SetBalance(c, amt) ==
    [x \in DOMAIN wcache \cup {c} |-> IF x = c THEN amt ELSE wcache[x]]

\* player_wallets once the pending UPDATE is applied; it never inserts.
Updated ==
    IF wturn.cur \notin DOMAIN wrows THEN wrows
    ELSE [wrows EXCEPT ![wturn.cur] =
             IF wturn.op = "Spend" THEN @ - wturn.amt ELSE @ + wturn.amt]

Taken ==
    IF wturn.op = "Spend" /\ wturn.cur \in DOMAIN wrows
    THEN [wtaken EXCEPT ![wturn.from] = @ + wturn.amt]
    ELSE wtaken

\* c awaits an answer
Calling(c) ==
    \/ \E m \in wreqs : m.from = c
    \/ wturn # Idle /\ wturn.from = c /\ wturn.live

\* affectedRow <= 0 and exceptions leave the cache alone
SucceededAnyRow == wturn.pc \in {"ok", "norow"}
Succeeded == wturn.pc = "ok"

Answer(c, res) == wreps \cup {[from |-> c, res |-> res]}

-----------------------------------------------------------------------------
Init ==
    /\ wrows = Start
    /\ wcache = NoCache
    /\ wact = FALSE
    /\ wturn = Idle
    /\ wreqs = {}
    /\ wreps = {}
    /\ wtaken = [c \in Callers |-> 0]
    /\ lost = 0

\* A caller that got its answer may go on to its next call.
Send(m) ==
    /\ ~Calling(m.from)
    /\ wreqs' = wreqs \cup {m}
    /\ wreps' = {r \in wreps : r.from # m.from}
    /\ UNCHANGED <<wrows, wcache, wact, wturn, wtaken, lost>>

Receive(c) ==
    /\ \E r \in wreps : r.from = c
    /\ wreps' = {r \in wreps : r.from # c}
    /\ UNCHANGED <<wrows, wcache, wact, wturn, wreqs, wtaken, lost>>

\* The caller's response timeout: a queued request expires, a running one
\* goes on without its caller.
TimeOut(c) ==
    \/ /\ \E m \in wreqs : m.from = c
       /\ wreqs' = {m \in wreqs : m.from # c}
       /\ UNCHANGED <<wrows, wcache, wact, wturn, wreps, wtaken, lost>>
    \/ /\ wturn # Idle /\ wturn.from = c /\ wturn.live
       /\ wturn' = [wturn EXCEPT !.live = FALSE]
       /\ UNCHANGED <<wrows, wcache, wact, wreqs, wreps, wtaken, lost>>

Activate ==
    /\ ~wact /\ wreqs # {}
    /\ wact' = TRUE
    /\ wcache' = wrows
    /\ UNCHANGED <<wrows, wturn, wreqs, wreps, wtaken, lost>>

\* The query throws: the activation is rejected, and what waited for it.
ActivateFails ==
    /\ ~wact /\ wreqs # {}
    /\ wreps' = wreps \cup [from : {m.from : m \in wreqs}, res : {"Exception"}]
    /\ wreqs' = {}
    /\ UNCHANGED <<wrows, wcache, wact, wturn, wtaken, lost>>

\* The part of a request that needs no statement: it answers at once.
AnswerAtOnce(m) ==
    \/ /\ m.op = "IsEnough"
       /\ wreps' = Answer(m.from, IF IsEnough(m.cur, m.amt)
                                  THEN "Success" ELSE "NotEnoughCurrency")
    \/ /\ m.op = "Spend" /\ ~Covers(m.cur, m.amt)
       /\ wreps' = Answer(m.from, "NotEnoughCurrency")
    \/ /\ m.op = "Add" /\ AddAmount(m.amt, Balance(m.cur)) <= 0
       /\ wreps' = Answer(m.from, "Success")

Awaiting(m, amt) ==
    [pc |-> "await", from |-> m.from, live |-> TRUE, op |-> m.op,
     cur |-> m.cur, amt |-> amt, bal |-> Balance(m.cur)]

Submit(m) ==
    \/ /\ m.op = "Spend" /\ Covers(m.cur, m.amt)
       /\ wturn' = Awaiting(m, m.amt)
    \/ /\ m.op = "Add" /\ AddAmount(m.amt, Balance(m.cur)) > 0
       /\ wturn' = Awaiting(m, AddAmount(m.amt, Balance(m.cur)))

Begin(m) ==
    /\ wact /\ wturn = Idle /\ m \in wreqs
    /\ wreqs' = wreqs \ {m}
    /\ \/ AnswerAtOnce(m) /\ UNCHANGED wturn
       \/ Submit(m) /\ UNCHANGED wreps
    /\ UNCHANGED <<wrows, wcache, wact, wtaken, lost>>

\* The statement runs and its affected rows come back.
Apply ==
    /\ wturn.pc = "await"
    /\ wrows' = Updated /\ wtaken' = Taken
    /\ wturn' = [wturn EXCEPT !.pc = IF wturn.cur \in DOMAIN wrows
                                     THEN "ok" ELSE "norow"]
    /\ UNCHANGED <<wcache, wact, wreqs, wreps, lost>>

\* The statement throws and nothing was applied.
Fail ==
    /\ wturn.pc = "await"
    /\ wturn' = [wturn EXCEPT !.pc = "failed"]
    /\ UNCHANGED <<wrows, wcache, wact, wreqs, wreps, wtaken, lost>>

\* The statement is applied, but the link fails before its answer: it throws.
LoseAck ==
    /\ wturn.pc = "await" /\ wturn.cur \in DOMAIN wrows /\ lost < MaxLost
    /\ wrows' = Updated /\ wtaken' = Taken
    /\ wturn' = [wturn EXCEPT !.pc = "failed"]
    /\ lost' = lost + 1
    /\ UNCHANGED <<wcache, wact, wreqs, wreps>>

Resume ==
    /\ wturn.pc \in {"ok", "norow", "failed"}
    /\ wcache' = IF ~Succeeded THEN wcache
                 ELSE SetBalance(wturn.cur,
                        IF wturn.op = "Spend" THEN wturn.bal - wturn.amt
                                              ELSE wturn.bal + wturn.amt)
    /\ wreps' = IF ~wturn.live THEN wreps
                ELSE Answer(wturn.from,
                       CASE Succeeded           -> "Success"
                         [] wturn.pc = "failed" -> "Exception"
                         [] OTHER                -> "DbUpdateError")
    /\ wturn' = Idle
    /\ UNCHANGED <<wrows, wact, wreqs, wtaken, lost>>

\* Idle collection drops the activation and its cache.
Deactivate ==
    /\ wact /\ wturn = Idle /\ wreqs = {}
    /\ wact' = FALSE
    /\ wcache' = NoCache
    /\ UNCHANGED <<wrows, wturn, wreqs, wreps, wtaken, lost>>

\* The process dies and restarts; the statement it had sent ran or did not.
Crash ==
    /\ \/ UNCHANGED <<wrows, wtaken>>
       \/ wturn.pc = "await" /\ wrows' = Updated /\ wtaken' = Taken
    /\ wact' = FALSE
    /\ wcache' = NoCache
    /\ wturn' = Idle
    /\ wreqs' = {} /\ wreps' = {}
    /\ UNCHANGED lost

\* What the grain and its database do by themselves, and how that fails.
Serve ==
    \/ Activate \/ Deactivate
    \/ \E m \in wreqs : Begin(m)
    \/ Apply \/ Resume

Fault == ActivateFails \/ Fail \/ LoseAck

Next ==
    \/ \E m \in Request : Send(m)
    \/ \E c \in Callers : Receive(c) \/ TimeOut(c)
    \/ Serve \/ Fault \/ Crash

Spec == Init /\ [][Next]_wvars

-----------------------------------------------------------------------------
(* Every variable stays in its type; rows are neither inserted nor deleted,
   since no code of the server inserts into player_wallets.                *)
TypeOK ==
    /\ wrows \in [DOMAIN Start -> Int]
    /\ wcache \in [DOMAIN wcache -> Int] /\ DOMAIN wcache \subseteq DOMAIN Start
    /\ wact \in BOOLEAN
    /\ wturn \in Turn \cup {Idle}
    /\ wreqs \subseteq Request
    /\ wreps \subseteq Reply
    /\ wtaken \in [Callers -> Nat]
    /\ lost \in Nat

(* "Spend and Add update [the cache] together with the database"
   (PlayerWalletGrain.cs:23): whenever the activated grain is between requests
   its cache equals its rows.                                              *)
CacheIsWriteThrough == wact /\ wturn = Idle => wcache = wrows

(* That comment holds until an acknowledgement is lost: no failed statement,
   caller that gave up, deactivation or crash makes cache and rows differ.  *)
CacheIsExact == lost = 0 => CacheIsWriteThrough

(* SpendAsync checks the cached balance and the UPDATE checks nothing, so a
   stale cache can overdraw the row; but crashes, failed statements and
   callers that gave up never do: each unit of overdraft is traced to a lost
   acknowledgement, and each of those hides at most one amount.            *)
OverdraftBounded == \A c \in DOMAIN wrows : wrows[c] >= -(lost * MaxAmount)

(* As long as no acknowledgement was lost the grain, with its cache, queue,
   crashes and timeouts, is an account that is debited atomically by amounts
   it covers: L!Spec, up to the step that first loses one.  AddAsync clamps
   to "- balance", so no Add ever credits it.                              *)
L == INSTANCE Ledger WITH balance <- wrows, taken <- wtaken
ImplementsLedger ==
    L!Init /\ [][lost = 0 => L!Next \/ UNCHANGED <<wrows, wtaken>>]_wvars
=============================================================================
