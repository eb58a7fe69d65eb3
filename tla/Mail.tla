-------------------------------- MODULE Mail --------------------------------
(***************************************************************************)
(* One player's PlayerMailGrain, composed with the wallet and inventory    *)
(* grains its rewards go to.  Reading a mail that has rewards grants them, *)
(* in RewardHelper, and only then empties the mail's row and its cache:    *)
(* what fails, times out or dies in between finds the mail still full.     *)
(***************************************************************************)
EXTENDS Integers, FiniteSets, FiniteSetsExt

CONSTANTS
    Clients,        \* connections that send mail packets for the player
    Mails,          \* the player's mails
    Rewarded,       \* those that come with rewards, and below what they hold
    RewardCurrency, RewardAmount, RewardItem, RewardCount,
    Mailer,         \* this grain as a caller
    Currencies, Start, Amounts, MaxAmount,                  \* see Wallet
    Items, MaxStack, Counts, MaxCount, MaxHeld,             \* see Inventory
    MaxLost,
    MaxCut          \* bound: no claim begins after this many ended short

ASSUME MailAssumption ==
    /\ Rewarded \subseteq Mails
    /\ RewardCurrency \in [Rewarded -> Currencies]
    /\ RewardAmount \in [Rewarded -> Amounts]
    /\ RewardItem \in [Rewarded -> Items]
    /\ RewardCount \in [Rewarded -> Counts]

VARIABLES
    wrows, wcache, wact, wturn, wreqs, wreps, wtaken,   \* the wallet
    irows, icache, iact, iturn, ireqs, ireps,           \* the inventory
    lost,
    mrows,      \* player_mails: mail -> has it rewards, is it read
    mcache,     \* _mails
    mact,       \* is the mail grain activated?
    mturn,      \* the request it is running, at its await
    mqueue,     \* requests queued at it
    expired,    \* mails whose expired_at had passed at the last activation
    cut         \* history: how many claims of a mail ended short of success

W == INSTANCE Wallet WITH Callers <- {Mailer}
I == INSTANCE Inventory WITH Callers <- {Mailer}

walletVars == <<wrows, wcache, wact, wturn, wreqs, wreps, wtaken>>
inventoryVars == <<irows, icache, iact, iturn, ireqs, ireps>>
vars == <<walletVars, inventoryVars, lost, mrows, mcache, mact, mturn, mqueue,
          expired, cut>>

-----------------------------------------------------------------------------
Request == [from : Clients, op : {"Read", "Delete", "DeleteAll"}, mail : Mails]

Turn == [pc : {"wallet", "inventory"}, op : {"claim"}, mail : Rewarded]
        \cup [pc : {"await", "ok", "norow", "failed"},
              op : {"claim", "read", "delete", "deleteAll"}, mail : Mails]

Idle == [pc |-> "idle"]

NoMails == [m \in {} |-> 0]

At(pc, op, m) == [pc |-> pc, op |-> op, mail |-> m]

EndTurn == mturn' = Idle

\* A turn ends short of updating the cache; cut counts the claims among them.
EndShort ==
    /\ EndTurn
    /\ cut' = IF mturn # Idle /\ mturn.op = "claim"
              THEN [cut EXCEPT ![mturn.mail] = @ + 1] ELSE cut

\* The statement of the running request, on a table or on the cache.
Affected(f) ==
    IF mturn.op = "deleteAll" THEN {m \in DOMAIN f : f[m].read}
    ELSE DOMAIN f \cap {mturn.mail}

Changed(f) ==
    IF mturn.op \in {"delete", "deleteAll"}
    THEN [m \in DOMAIN f \ Affected(f) |-> f[m]]
    ELSE [m \in DOMAIN f |->
            IF m # mturn.mail THEN f[m]
            ELSE [f[m] EXCEPT !.read = TRUE,
                              !.rewards = mturn.op # "claim" /\ @]]

-----------------------------------------------------------------------------
\* RewardHelper.GrantAsync: the currencies, then the items, and what is
\* absent is skipped; then the mail is emptied.
AddItemOneMore(m) ==
    I!Send([from |-> Mailer, op |-> "Add", item |-> RewardItem[m],
            count |-> RewardCount[m] + 1])
AddItem(m) ==
    I!Send([from |-> Mailer, op |-> "Add", item |-> RewardItem[m],
            count |-> RewardCount[m]])

GrantItem(m) ==
    \/ /\ RewardCount[m] > 0
       /\ AddItem(m)
       /\ mturn' = At("inventory", "claim", m)
    \/ /\ RewardCount[m] = 0
       /\ mturn' = At("await", "claim", m)
       /\ UNCHANGED <<inventoryVars, lost>>

Grant(m) ==
    \/ /\ RewardAmount[m] > 0
       /\ W!Send([from |-> Mailer, op |-> "Add", cur |-> RewardCurrency[m],
                  amt |-> RewardAmount[m]])
       /\ mturn' = At("wallet", "claim", m)
       /\ UNCHANGED inventoryVars
    \/ RewardAmount[m] = 0 /\ GrantItem(m) /\ UNCHANGED walletVars

Init ==
    /\ W!Init /\ I!Init
    /\ mrows = [m \in Mails |-> [rewards |-> m \in Rewarded, read |-> FALSE]]
    /\ mcache = NoMails
    /\ mact = FALSE
    /\ mturn = Idle
    /\ mqueue = {} /\ expired = {}
    /\ cut = [m \in Rewarded |-> 0]

Ask(m) ==
    /\ \A x \in mqueue : x.from # m.from
    /\ mqueue' = mqueue \cup {m}
    /\ UNCHANGED <<walletVars, inventoryVars, lost, mrows, mcache, mact, mturn, expired, cut>>

\* Only mails that have not expired are loaded; time passes until then.
Activate ==
    /\ ~mact /\ mqueue # {}
    /\ mact' = TRUE
    /\ \E late \in SUBSET (Mails \ expired) : expired' = expired \cup late
    /\ mcache' = [m \in DOMAIN mrows \ expired' |-> mrows[m]]
    /\ UNCHANGED <<walletVars, inventoryVars, lost, mrows, mturn, mqueue, cut>>

Deactivate ==
    /\ mact /\ mturn = Idle /\ mqueue = {}
    /\ mact' = FALSE
    /\ mcache' = NoMails
    /\ UNCHANGED <<walletVars, inventoryVars, lost, mrows, mturn, mqueue, expired, cut>>

HasRewards(m) == m \in DOMAIN mcache /\ mcache[m].rewards

\* Answers that change nothing: not found, already read, rewards not claimed,
\* nothing to delete.
DeletableUnclaimed(m) == m \in DOMAIN mcache
Deletable(m) == m \in DOMAIN mcache /\ ~HasRewards(m)

Marks(x) ==
    x.op = "Read" /\ x.mail \in DOMAIN mcache /\ ~HasRewards(x.mail) /\ ~mcache[x.mail].read
Deletes(x) == x.op = "Delete" /\ Deletable(x.mail)
DeletesAll(x) == x.op = "DeleteAll" /\ \E m \in DOMAIN mcache : mcache[m].read
Claims(x) == x.op = "Read" /\ HasRewards(x.mail)

Cuts == MapThenSumSet(LAMBDA m : cut[m], Rewarded)

Begin(x) ==
    /\ mact /\ mturn = Idle /\ x \in mqueue
    /\ mqueue' = mqueue \ {x}
    /\ \/ Claims(x) /\ Cuts < MaxCut /\ Grant(x.mail)
       \/ /\ ~Claims(x)
          /\ \/ Marks(x) /\ mturn' = At("await", "read", x.mail)
             \/ Deletes(x) /\ mturn' = At("await", "delete", x.mail)
             \/ DeletesAll(x) /\ mturn' = At("await", "deleteAll", x.mail)
             \/ ~Marks(x) /\ ~Deletes(x) /\ ~DeletesAll(x) /\ UNCHANGED mturn
          /\ UNCHANGED <<walletVars, inventoryVars, lost>>
    /\ UNCHANGED <<mrows, mcache, mact, expired, cut>>

\* A result code of AddAsync is noted in the answer; an exception ends here.
Added(r) == r.from = Mailer /\ r.res # "Exception"

WalletAdded ==
    /\ mturn.pc = "wallet"
    /\ \E r \in wreps : Added(r)
    /\ W!Receive(Mailer)
    /\ GrantItem(mturn.mail)
    /\ UNCHANGED <<mrows, mcache, mact, mqueue, expired, cut>>

InventoryAdded ==
    /\ mturn.pc = "inventory"
    /\ \E r \in ireps : Added(r)
    /\ I!Receive(Mailer)
    /\ mturn' = At("await", "claim", mturn.mail)
    /\ UNCHANGED <<walletVars, mrows, mcache, mact, mqueue, expired, cut>>

Apply ==
    /\ mturn.pc = "await"
    /\ mrows' = Changed(mrows)
    /\ mturn' = [mturn EXCEPT !.pc = IF Affected(mrows) # {} THEN "ok" ELSE "norow"]
    /\ UNCHANGED <<walletVars, inventoryVars, lost, mcache, mact, mqueue, expired, cut>>

\* DeleteAllAsync does not look at the affected rows.
SucceededAnyway == mturn.pc \in {"ok", "norow", "failed"}
Succeeded == mturn.pc = "ok" \/ (mturn.pc = "norow" /\ mturn.op = "deleteAll")

ResumeUncached ==
    /\ mturn.pc \in {"ok", "norow", "failed"}
    /\ IF Succeeded THEN EndTurn /\ UNCHANGED cut ELSE EndShort
    /\ UNCHANGED <<walletVars, inventoryVars, lost, mrows, mcache, mact, mqueue, expired>>
Resume ==
    /\ mturn.pc \in {"ok", "norow", "failed"}
    /\ \/ Succeeded /\ mcache' = Changed(mcache) /\ EndTurn /\ UNCHANGED cut
       \/ ~Succeeded /\ EndShort /\ UNCHANGED mcache
    /\ UNCHANGED <<walletVars, inventoryVars, lost, mrows, mact, mqueue, expired>>

-----------------------------------------------------------------------------
\* A call to the wallet or the inventory throws, or is not answered in time.
CallFails ==
    /\ \/ /\ mturn.pc = "wallet" /\ UNCHANGED inventoryVars
          /\ \/ (\E r \in wreps : ~Added(r)) /\ W!Receive(Mailer)
             \/ W!TimeOut(Mailer)
       \/ /\ mturn.pc = "inventory" /\ UNCHANGED walletVars
          /\ \/ (\E r \in ireps : ~Added(r)) /\ I!Receive(Mailer)
             \/ I!TimeOut(Mailer)
    /\ EndShort
    /\ UNCHANGED <<mrows, mcache, mact, mqueue>>

Fail ==
    /\ mturn.pc = "await"
    /\ mturn' = [mturn EXCEPT !.pc = "failed"]
    /\ UNCHANGED <<walletVars, inventoryVars, lost, mrows, mcache, mact, mqueue, cut>>

LoseAck ==
    /\ mturn.pc = "await" /\ Affected(mrows) # {} /\ lost < MaxLost
    /\ mrows' = Changed(mrows)
    /\ mturn' = [mturn EXCEPT !.pc = "failed"]
    /\ lost' = lost + 1
    /\ UNCHANGED <<walletVars, inventoryVars, mcache, mact, mqueue, cut>>

\* The query of the activation throws, or the client's request expires.
RequestDropped ==
    /\ \E x \in mqueue : mqueue' = mqueue \ {x}
    /\ UNCHANGED <<walletVars, inventoryVars, lost, mrows, mcache, mact, mturn, cut>>

Crash ==
    /\ W!Crash /\ I!Crash
    /\ \/ UNCHANGED mrows
       \/ mturn.pc = "await" /\ mrows' = Changed(mrows)
    /\ mcache' = NoMails /\ mact' = FALSE
    /\ EndShort
    /\ mqueue' = {}

ComponentFails ==
    /\ \/ W!Fault /\ UNCHANGED inventoryVars
       \/ I!Fault /\ UNCHANGED walletVars
    /\ UNCHANGED <<mrows, mcache, mact, mturn, mqueue, cut>>

Components ==
    /\ \/ W!Serve /\ UNCHANGED inventoryVars
       \/ I!Serve /\ UNCHANGED walletVars
    /\ UNCHANGED <<mrows, mcache, mact, mturn, mqueue, expired, cut>>

Faults ==
    /\ \/ CallFails \/ Fail \/ LoseAck
       \/ RequestDropped \/ Crash \/ ComponentFails
    /\ UNCHANGED expired

MailStep ==
    \/ Activate \/ Deactivate
    \/ \E x \in mqueue : Begin(x)
    \/ WalletAdded \/ InventoryAdded \/ Apply \/ Resume

Next ==
    \/ \E m \in Request : Ask(m)
    \/ MailStep \/ Components \/ Faults

Spec == Init /\ [][Next]_vars

-----------------------------------------------------------------------------
\* The mails whose rewards the table no longer holds.
Claimed == {m \in Rewarded : m \in DOMAIN mrows => ~mrows[m].rewards}

Held(i) == IF i \in DOMAIN irows THEN irows[i] ELSE 0

Owed(i) ==
    MapThenSumSet(LAMBDA m : RewardCount[m], {m \in Claimed : RewardItem[m] = i})

Unbounded == {i \in Items : MaxStack[i] = 0}

(* Every variable stays in its type. *)
TypeOK ==
    /\ W!TypeOK /\ I!TypeOK
    /\ mrows \in [DOMAIN mrows -> [rewards : BOOLEAN, read : BOOLEAN]]
    /\ mcache \in [DOMAIN mcache -> [rewards : BOOLEAN, read : BOOLEAN]]
    /\ DOMAIN mrows \subseteq Mails /\ DOMAIN mcache \subseteq Mails
    /\ mact \in BOOLEAN
    /\ cut \in [Rewarded -> Nat]
    /\ mturn \in Turn \cup {Idle}
    /\ mqueue \subseteq Request
    /\ expired \subseteq Mails

(* ReadAsync grants before it empties the row, and DeleteAsync refuses a mail
   it thinks is full: whatever fails, times out, crashes or is stale, a row
   whose rewards are gone had its item granted at least once.              *)
ClaimedIsGranted == \A i \in Unbounded : Held(i) >= Owed(i)

\* Of item i, what claims that ended short may have granted on top of what is owed.
Regranted(i) ==
    MapThenSumSet(LAMBDA m : RewardCount[m] * cut[m], {m \in Rewarded : RewardItem[m] = i})

\* What the running claim grants before its row is emptied.
Granting(i) ==
    IF mturn # Idle /\ mturn.op = "claim" /\ RewardItem[mturn.mail] = i
    THEN RewardCount[mturn.mail] ELSE 0

(* The grant comes before the UPDATE, so a claim that ends short is made, and
   granted, once more.  But no more than that: every grant beyond the first
   of a mail stands against one claim of it that failed, timed out, crashed
   or found no row, however late its grant arrives and however often the
   cache is rebuilt; without one a reward is never granted twice.          *)
RegrantsAreCutClaims ==
    \A i \in Unbounded : Held(i) <= Owed(i) + Regranted(i) + Granting(i)

(* While no acknowledgement is lost an activated grain between two requests
   takes no mail for full, unread or existing that its table says is not.  *)
CacheIsExact ==
    mact /\ mturn = Idle /\ lost = 0 =>
        \A m \in DOMAIN mcache : m \in DOMAIN mrows /\ mcache[m] = mrows[m]

(* "If rewards remain in the mail, reading it means receiving them"
   (PlayerMailGrain.cs:55): a mail that was emptied, and no claim of it ended
   short, has put its currency into the wallet.                            *)
ReadIsReceived ==
    mturn = Idle =>
        \A m \in Claimed : cut[m] = 0 /\ RewardCurrency[m] \in DOMAIN Start =>
            wrows[RewardCurrency[m]] >= Start[RewardCurrency[m]] + RewardAmount[m]
=============================================================================
