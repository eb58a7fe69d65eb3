# A TLA+ development of the Orleans game server

The server keeps one set of Orleans grains per player (wallet, inventory, shop,
mail, stage, stamina, level, unit, gacha, attendance), a front server that
terminates the clients' TCP connections (DotNetty), an API server for login, one
MySQL link and one Redis link. A grain runs one request at a time, but a request
awaits the database and other grains, and at every such await other grains run,
a statement or a call may fail, a caller may give up, and the process may die.
What these modules are about is what survives that.

Paths below are relative to `src/GameServer/`.

## Inventory of the system

| part | state | operations | talks to | what is hard | what makes it correct | module |
|---|---|---|---|---|---|---|
| wallet grain `PlayerWalletGrain.cs` | `_wallets` cache, rows of `player_wallets` | SpendAsync, AddAsync, IsEnoughAsync | database | the guard is on the cache, the UPDATE has none; lost answers; crash between statement and answer | no overdraft, cache = rows, atomic account | `Wallet`, `Ledger` |
| inventory grain `PlayerInventoryGrain.cs` | `_items`, rows of `player_inventory` | AddAsync, SpendAsync | database | INSERT or UPDATE is chosen by the cache; clamping to MaxStack | counts within the stack, cache = rows | `Inventory` |
| shop grain `PlayerShopGrain.cs` | rows of `player_purchase_product_limits` | PurchaseProductAsync | database, wallet, inventory | limit read long before it is written; pay, record, grant are separate | limit, nothing granted unrecorded, nothing recorded unpaid, a purchase ends unless its statement is abandoned | `Shop` |
| mail grain `PlayerMailGrain.cs`, `RewardHelper.cs` | `_mails`, rows of `player_mails` | ReadAsync, DeleteAsync, DeleteAllAsync | database, wallet, inventory | grant, then empty the row; result codes not looked at | claimed is granted, granted again only for a claim that ended short | `Mail` |
| pipeline `DbConnector.cs`, `DbPipelineContext.cs` | unbounded channel, one reader | PipelineAsync | MySQL | failed opens, exceptions after the fact | order, answers, no silent execution | `DbPipeline`, `DbCall` |
| sessions `SessionService.cs`, `PlayerSession.cs`, `GameServerHandler.cs`, `AuthController.cs` | two dictionaries, a timer per connection | connect, Auth, disconnect, exception | Redis, DotNetty | Auth awaits Redis; timer and disconnect race it; two connections of one player | registered = live, no lingering connection | `Sessions` |
| stage grain `PlayerStageGrain.cs` | `_stages`, rows of `player_stage_states` | EnterStageAsync, ClearStageAsync, FailStageAsync | database, stamina, level, wallet | merge against a stale cache; stamina consumed before, rewards granted after | best results never fall, entries paid, one reward per clear | `Stage` |
| stamina grain `PlayerStaminaGrain.cs` | amount and instant, row of `player_stamina` | ConsumeAsync | database, the clock | recovery computed on demand, from a cache or a row | no interval counted twice | `Stamina`, `Regeneration` |
| level grain `PlayerLevelGrain.cs` | level and experience, row of `player_levels` | AddExpAsync | database | INSERT, then UPDATE | the level is where the experience leads | `Level` |
| unit grain `PlayerUnitGrain.cs` | `_units`, rows of `player_units` | AddOrUpdateAsync, LevelUpAsync | database, wallet | MaxUnitStack is compared with the cache; the level is written after the money is gone | levels paid, stacks within the maximum | `Unit` |
| gacha grain `PlayerGachaGrain.cs` | none | RollingGachaAsync | wallet, unit | all rolls are paid at once, then added one by one | rolls paid, none lost but by a fault or a full stack | `Gacha` |
| attendance grain `PlayerAttendanceGrain.cs` | `_progress` and its flags, rows of `player_event_attendance_rewards` | ReceiveRewardAsync | database, wallet, inventory | marked received, then granted; the flags of an activation are not updated | a reward is granted at most once | `Attendance` |
| login `ApiServer/`, `PlayerAccessTokenSet.cs` | accounts, players, access tokens | LoginAsync | database, Redis | no serialisation: first logins of one guid interleave; a request cut short leaves half an account | one player per guid, tokens name it, nobody is locked out | `Login` |
| dispatch, codec, `ServerRunner` | handler table | DispatchAsync | sessions, controllers | session gone while a packet is in flight | (the session part is in `Sessions`) | partly |
| transactions `DbTransactionScope.cs`, Redis lock | - | no caller in the server | - | callbacks after commit | - | not modelled |
| resource tables, utilities, packets, bot, hosting, `wwwroot` | read-only data, pure functions, vendored files | - | - | - | - | not modelled |

## The modules

**Wallet.** `wrows` is the table, `wcache` is `_wallets`, `wact` whether the
grain is activated, `wturn` the request whose turn is at its await, `wreqs` and
`wreps` the calls queued at the grain and their answers. `Begin` is the part of
SpendAsync, AddAsync and IsEnoughAsync up to the await (or the whole request
when it needs no statement), `Apply`/`Fail`/`LoseAck` the statement, `Resume`
the rest: the affected-rows check, SetBalance, the answer. `TimeOut` is the
caller's response timeout: a queued request expires, a running one goes on
without a caller. `Deactivate` and `Crash` drop the cache; a crash may leave the
statement applied. `wtaken` and `lost` are history: what applied Spend
statements took per caller, and how many statements were applied without an
answer. AddAsync clamps with `Math.Min(amount, - balance)` (l. 81), so `Add`
grants nothing to a balance that is not negative; the module models it as it is.

**Ledger** is what a wallet promises: an account debited atomically by amounts
it covers. `Wallet!ImplementsLedger` maps `balance` to the rows.

**Inventory** has the same shape. `AddStatement` chooses INSERT or UPDATE from
the cache; an INSERT of a row that exists conflicts with the key.

**Shop** composes Wallet and Inventory by INSTANCE, sharing their variables; the
purchase is a program counter over its awaits: `readLimit`, `isEnough`, `spend`,
`record`, `recorded`, `grant`. `Others` are grains that use the same wallet
between the shop's turns (PlayerUnitGrain.LevelUpAsync does). The grain keeps
nothing between purchases, so its own queue is left out: `Begin` takes any
purchase a client may ask for, and `Continue` are the steps of one that began.
`StatementAbandoned` is the outcome DbConnector gives a work whose OpenAsync threw: its task
is never completed. Nothing in the shop times out there, so the turn stays `abandoned` until the
process dies; later purchases wait, and their clients time out. (What Orleans itself may
do about an activation that is stuck is not modelled.)
`clean` is history: nothing failed, timed out or crashed yet.

**Unit** has the shape of Wallet, with requests from `Adders` and level-ups from
clients; a level-up is a turn of its own that awaits the wallet (`enough`, `spend`)
and then its UPDATE. `Changed` writes, for a level-up, one more than the level of the
*cache*, as l. 134 does. **Gacha** composes Unit and Wallet: a request awaits
`enough`, `spend`, and for each roll `add` and `get`; `RollUnit` draws any unit of the
pool, which positive weights allow. It keeps nothing between requests either.

**Attendance** composes Wallet and Inventory: a claim awaits its INSERT, then, in
RewardHelper, the wallet and the inventory. `Claimable` are the early returns of
ReceiveRewardAsync; `aflags` is what the activation loaded and no claim changes it.
`Conflict` is the INSERT of a reward that is there, which throws.

**Login** is a program counter per client over the awaits of LoginAsync. `Abort` cuts
a request short at any of them, before or after its statement was applied, which is
how a failed statement, a server that dies and an answer that is lost look alike
to the client. `tokens` numbers the tokens in the order they were set; `Vouched` is the
Auth handler's lookup. `Out` is every failed answer, result code or HTTP error.

**Mail** composes the same two. A mail's row is what can be told apart: has it
reward entries, is it read. A claim goes `wallet`, `inventory`, then the
statement that empties the row. `Activate` loads only mails that have not
expired; which have is chosen there, since expiry matters to this grain's state
only when rows are loaded. `cut` is history: per mail, the claims that ended short (a
call or statement failed, a timeout, a crash, no row to empty); those are the claims after
which a mail may be granted again, and `RegrantsAreCutClaims` says that it is granted once more
for each of them at most.

**Stamina** has the shape of Wallet, with the clock as a variable that `Tick`
moves at any moment, awaits included. The row and the cache hold an amount and the
instant it was right; `RecoveredAmount` and `RecoveredAt` are the two results of
CalculateRecoveredAmount. `prompt` is history: no time passed while a statement
was awaited. **Regeneration** is what a player expects of stamina: a stock that
gains when an interval has passed and stands still while it is full.
`ImplementsRegeneration` maps its stock to what the row is worth now.

**Level**: `Begin` goes to the INSERT or straight to the UPDATE, `Inserted` is
the code between the two, `Climb` the level-up loop as a recursive
function of the experience left, whose values are functions of the level: the loop ends
because every level of the table costs some.

**Stage** composes Stamina, Level and Wallet by INSTANCE. Entering awaits
ConsumeAsync; clearing awaits the INSERT or UPDATE of the merged result (`await`,
then `ok` or `norow`), then AddExpAsync (`level`) and AddAsync (`wallet`) when the
stage has such a reward. Requests waiting at this grain change nothing and any
of them may be next, so its queue is left out. `entered` (the stages ever granted),
`due` (the stamina those grants cost), `clears` and `earned` (the clears written and the
experience they bring) are history. FailStageAsync changes nothing and is no action. A conflicting INSERT
always throws, so it is not one of the `MaxFaults` faults.

**DbPipeline / DbCall.** `queue`, `reader` and `task` are the channel,
ProcessQueueAsync and the completion sources. A failed OpenAsync is caught and
logged and the work's task is never completed; the models call it *abandoned*, as in Shop.
`DbCall` is the contract the grain modules assume of the database
(result: applied; exception: applied or not; perhaps no answer), and DbPipeline
implements it.

**Sessions.** Connections are used once. `AuthAsync` reads the token and awaits
Redis; `AuthCompletes` is what follows (CompleteAuth, AddSession), or
`AuthRefused`. Cancelling the disposed token source throws, which is what keeps
a removed connection out of `_sessions`. `authedAs` is history: the players a connection
authenticated as while it was connected. `UnreachableOnlyByDuplicate` asks it whether another
connection authenticated as the very player that cannot be reached, and whether
that one, if it is still connected, is the one registered.

The MC modules give CONSTANTS their values; no definition is replaced.

## What is assumed

- Orleans: at most one activation of a grain, one turn-taking request at a time
  (no grain here is reentrant), a response timeout for each call, expired
  queued requests dropped, an idle activation collected.
- After a crash, a statement that had been sent either ran or did not before the
  new activation reads the table.
- Tables are keyed by player and item, product, currency, stage, unit or attendance
  reward, those of stamina, level and player by player, and accounts by guid. The
  repository has no schema and some rows have a surrogate `id` as well, so these keys
  are an assumption; where the code cannot do without one is under Observations.
- MySqlConnector counts matched rows, so an UPDATE of an existing row affects one. An
  INSERT affects one row or throws, so LoginAsync's `insertedRow <= 0` and the account
  that is not found after its INSERT do not happen. The `account_id` 0 of an inserted row
  stands for the next AUTO_INCREMENT value.
- No code inserts into `player_event_attendance`: which events a player attends is a
  constant. LevelUpAsync has no caller; it is modelled as an operation of the grain's
  interface. Tokens have no expiry and Redis keeps them.
- No code inserts into `player_wallets` or deletes from it.
- The handlers of one connection, and what follows their awaits, run on its
  event loop; different connections interleave freely.
- The clock of the process does not go back, and API and database use none of
  their own: every instant in a row was written by a grain.
- The resource tables are constants. In `ResourceService.LoadAll` the loads of
  most tables are commented out, so their values cannot be taken from `TableData/`.
- Calls that change nothing (GetBalanceAsync, GetAllAsync...) are left out. That
  includes the GetAllBalanceAsync a mail's answer awaits after the row and cache
  are written, and what Enter and Clear read for theirs.

## Runs

Every run explores its whole state space.

| run | question | instance and bounds |
|---|---|---|
| `wallet` | does the wallet stay exact, and how far off can it be after a lost answer? | two callers; one currency with a row (3), one without; amounts 0..2, so that zero, covered and refused amounts occur; one lost answer, which is enough for the first stale decision |
| `inventory` | stack limit, cache, INSERT against UPDATE | an item with MaxStack 3 and one without, counts 0 and 2 (a grant that is clamped, one that is not), one lost answer; `MaxHeld` stops adding |
| `shop` | limit, records, payments under every fault and with a shared wallet; a purchase ends unless its statement is abandoned | a product with limit 2 and one without, counts 0..2, 3 coins, one lost answer, crash at any await; another caller spends and adds 1 between the awaits; a statement may be abandoned |
| `mail` | is what is claimed granted, and granted again only for a claim that ended short? | a full mail, one whose reward entry is empty, one without rewards; one lost answer; `MaxCut = 2` claims that end short let a stale cache claim, and claim again, a mail whose row is emptied or gone; `MaxHeld = 3` leaves room for one grant more than those allow |
| `mail_received` | does reading a mail mean receiving it? No | one mail, no claim of which ended short |
| `gacha` | are rolls and level-ups paid, and is money lost only by a fault? | one gacha with two units and one with an empty pool, counts 0..2, five coins, MaxUnitStack 1, levels that cost 1 and 2, two faults at any awaits, one of which may be a lost answer |
| `attendance` | is a reward granted once? | two events, one attended; rewards of gold and a ticket, a ticket, gold, one of the other event; three faults at any awaits, so that a claim can be retried twice |
| `login` | one player per guid, nobody locked out | two clients of one guid, one of another; three requests cut short |
| `db_pipeline` | order, answers, contract | four works, two failed opens, any exception, crash at any point |
| `sessions` | tables against disconnects, timers, Redis | two connections; one may authenticate as two players or with a bad token |
| `stamina` | is stamina ever counted twice? is on-demand recovery the recovery a player expects? | three points, one every two seconds, costs 0, 2, 3, eight seconds: full, partial and several intervals at once, and consumption in mid-interval; one lost answer |
| `stage` | best results, locks, payment and rewards across four grains | two stages (1 and 3 experience, the second climbs two levels; the second pays currency), one mission and scores 0 and 1, two clears, one stamina point that recovers once, two faults at any awaits, one of which may be a lost answer |

`wallet` and `inventory` use symmetry over callers; they check safety only.
Runs with liveness use none. `sessions` and `login` disable the deadlock check since each
connection is used once and each client logs in once, and everything may be over; no
other run does. `TypeOK` of Inventory, Stamina and Level is checked as part of that of the modules that
compose them.

One run shows a disagreement with a comment in the code. `mail_received`:
PlayerMailGrain.cs:55 says reading a mail with rewards is receiving them, yet the row is
emptied whatever the grant returned, and AddAsync's clamp makes every currency grant 0.

## Fairness

- Shop: the silo schedules the shop's turns and fires its response timeouts
  (`WF` on `CallTimesOut`; no client has to buy anything). A statement of the shop comes to some
  end, be it a result, an exception or being abandoned (`WF` on `Continue` or a
  `StatementFault`, not on `Continue` alone): the reader gets to it, and connecting and executing have timeouts
  in the driver. That it is answered is not assumed, and
  `PurchaseEnds` excuses a purchase whose statement was abandoned, as `EveryWorkSettles` does a
  work. Nothing is assumed of the wallet and the inventory, whose own statements
  may be abandoned too: `PurchaseEnds` holds even if they never run, because of the timeout.
- DbPipeline: `WF(ReaderStep)`. The reader task runs for the life of the process and
  opens, statements and the link have timeouts of their own, so each step
  returns or throws. Works need not be written.
- Login: `WF(Serve(c))`, as servers go on with the requests they run or cut them short, and
  `WF(LoginAsync(c))`: a client that was refused tries again, which is an assumption about
  clients, without which `EveryoneGetsIn` would ask for what nobody wants. At most
  `MaxFaults` requests are cut short; losing a race for an INSERT is no fault and is
  not bounded.
- Sessions: timers elapse, posted continuations run, a closing channel becomes
  inactive. Redis may never answer and clients need do nothing.

## Proofs

The proofs hold for every value of the constants that satisfies the named assumptions of
the modules (`WalletAssumption`, `InventoryAssumption`, `ShopAssumption`,
`ComponentsAssumption` of Shop and of Stage, `LoginAssumption`, `SessionsAssumption`,
`PipelineAssumption`, `StaminaAssumption`, `StageAssumption`): types of the tables, finitely
many products and clients, levels that cost at least one point of experience, a bound on
clears within the one on experience, and, for the shop and the stages, that the grains
they call are ones their own modules describe. TLC evaluates
them on every run. Every module shows, of its invariants, Init => IInv and IInv /\ [Next]_vars => IInv',
with one lemma per action or group of actions that disturb the same parts.

| module | theorems | what the invariant adds, and why |
|---|---|---|
| `WalletProofs` | `TypeOK`, `OverdraftBounded`, `CacheIsExact`, `ImplementsLedger`; with `MaxLost = 0`, Spec => L!Spec | `TurnOK`: a turn carries the balance of the cache, and says truthfully whether its statement ran; `SeenBounded`: the balance the cache shows exceeds the row by at most `lost * MaxAmount`. The bound on the row needs the bound on what was seen when the Spend was let through, which needs that between check and statement only this turn touches the row |
| `InventoryProofs` | `TypeOK`, `CountWithinStack`, `CacheIsExact` | the same with counts on both sides, since adding and removing both compare with the cache; and `RowsKnown`, that until an answer is lost every row is cached or about to be, without which `AddStatement` could choose an INSERT for a row that is there |
| `ShopProofs` | `TypeOK`, `LimitRespected`, `RecordsArePaid`, `GrantsAreRecorded`; the lemmas before them say what `SumFunctionOnSet` does when a member joins or one value changes, that it is monotone and a natural | see below; the library's induction theorems take an operator as a parameter, so the induction over a sum is by a least counterexample among the subsets of a finite set |
| `StageProofs` | `TypeOK`, `EnteredIsUnlocked`, `BestIsKept`, `EnteredIsPaid`, `ClearsAreRewarded`, `ExpIsCounted`; `ClimbSplits` | see below |
| `LoginProofs` | `TypeOK`, `LoggedInAsOne` | account ids are `1..n`, each to one guid (so that the next id is fresh), and what each await of LoginAsync has established: from `player` on the request's player is its guid's, from `token` on that player has a row, from `answer` on its token is vouched for |
| `SessionsProofs` | `TypeOK`, `RegisteredIsLive`, `UnreachableOnlyByDuplicate` | per connection, when it is in `_contextSessions`, disposed, authenticated and as whom, now and before (`authedAs`); and that a player is registered to a connection that authenticated as it |
| `StaminaProofs` | `TypeOK`, `NoFreeStamina`, `ImplementsRegeneration` | `NothingFree`: what was granted so far together with the amount a row, a cache or a pending statement holds can be given out by the instant it counts from, so whole intervals are counted once wherever they are; for the refinement `Exact`: the cache is the row, and the pending statement takes its cost from what the row is worth now |
| `DbPipelineProofs` | `TypeOK`, `NoOvertaking`, `ImplementsDbCall` as Spec => DbCall's specification | the queue is the end of what was submitted, the work in hand is the one before it, and neither was answered or applied |

**The shop.** `LimitRespected` alone is not inductive: the count is compared with the row at
`ReadLimit` and added at `Record`, four awaits later. `Fresh` says that while a purchase is on
its way its count still fits under the row as it is; it holds since the shop's turn
is the only writer of the row. That money and items match the rows rests on the
conversation with the other two grains, each of which runs at its own pace, can be
given up by a timeout and can go on with a request the shop no longer waits for:
`WalletCallOK` and `InventoryCallOK` say that there is at most one request, running turn or
answer of the shop, that it belongs to the running purchase, and which one. `PaidOK`
then says that what was taken covers the rows and the running purchase's cost from the moment its Spend
is applied (`Paid`) until it is recorded, and `GrantsOK` that what is held, being added,
asked for and still to be asked for is within what the rows are worth. `AnswerMeansHeld`
is for purchases without a limit, which leave no row: until something fails, an answer
means that the item is there. The wallet and the inventory keep the invariants proved in
their own modules, which are used through `WP` and `IP`, INSTANCEs of these proofs;
`LossElsewhereKeepsInv` says that they stand an answer lost by somebody else,
`lost` being shared.

**The stages.** Three arguments over one state, each an invariant of its own.

- The lock and the best results (`GrainInv`). `EnteredIsUnlocked` reads the rows and the
  lock the cache: `CacheBehind` says that no stage is cached that has no row, also while a
  clear is between its statement and its answer, and that a request awaiting its stamina was let
  through by a row. `CacheCurrent` says that until an acknowledgement is lost the
  cache *is* the rows, up to the one the running clear has just written, and that what a
  pending statement will write was merged from the row it overwrites. `BestIsKept`, an
  action property, follows: the only step that changes rows is that statement.
- The level (`LevelInv`). `ExpIsCounted` compares the row with one climb over all the
  experience, the code climbs a call at a time. `ClimbSplits` closes the gap, for every
  table: climbing with a part and then, from there, with the rest is climbing with both. It is an
  induction over the experience, again by a least counterexample (`ClosedSetOfNaturals`), and
  needs that the recursive function exists and is unique (`ClimbExists`, `ClimbsAgree`),
  which `ClimbUnfolds` turns into the loop's one step. `LevelTurnOK` and
  `LevelCurrent` say what the cache and a pending statement know of the row.
- The conversations. The stamina and the level grain run at their own pace, may be given up
  by a timeout and go on, and may fail. `StaminaCallOK` and `LevelCallOK` say that of
  request, running turn and answer there is one at most and that it is the running request's,
  and that without a fault no turn runs that nobody waits for. Then `DueOK`: what the
  grants cost, plus what an answer under way will grant (`Owing`), is within what was
  consumed; and `EarnedOK`: the experience gained, plus what is on its way to the row (`Coming`: not
  yet asked for, queued, or in a turn), is within what the written clears bring. Without
  a fault both are equalities. For the second that needs `RowIsThere`: an UPDATE always
  finds its row and an INSERT never meets one, so no call fails by itself.

`StaminaMoves`, `LevelMoves` and `WalletMoves` classify the steps of the system as each called
grain sees them; the stamina and wallet grains' own invariants come from `StaminaProofs`
and `WalletProofs`, through `SP` and `WP`.

Only model-checked:

- liveness (`PurchaseEnds`, `EveryWorkSettles`, `NoLingering`, `EveryoneGetsIn`), which is out of
  the prover's reach;
- the properties of Mail (`TypeOK`, `ClaimedIsGranted`, `RegrantsAreCutClaims`, `CacheIsExact`), Gacha with Unit
  (`TypeOK`, `StackBounded`, `RollsArePaid`, `LevelsArePaid`) and Attendance (`TypeOK`,
  `RewardedOnce`). Nothing about them is out of reach: they are conversations with the wallet
  and inventory grains, as in the shop and the stages, and sums over rows, for which
  `ShopProofs` has the lemmas.

## Bounds

`MaxLost` bounds lost answers, `MaxHeld` what callers go on adding to an item,
`MaxOpenFails` the failed opens, `MaxFaults` the failures, timeouts and crashes
of Stage, Gacha, Attendance and Login (two: one to make a cache stale or drop a caller, one
more while that is outstanding; three where a retry of a retry is short), `MaxClears` the clears of Stage, `MaxCut` the claims of mails that end short, `MaxNow` where the clock stops. `MaxAmount` and `MaxCount` bound the amounts
asked for. Counters of history (`wtaken`) and the rolls are bounded by the coins there are, tokens by the requests that can end.

## Observations

- `count` multiplies a purchase's price and its recorded count, but
  `RewardItemCount` is granted once per purchase (PlayerShopGrain.cs:82, 114);
  `GrantsAreRecorded` is an upper bound for that reason.
- `MaxCurrencyAmount` (RConstants.cs:11) is not used, and is what AddAsync's
  clamp seems to lack.
- ClearStageAsync checks neither that the stage was entered nor that it is unlocked;
  only EnterStageAsync does. FailStageAsync gives no stamina back.
- The entries of `Level.json` have no `NextLevel`, so with that file a level-up would lead to
  level 0, which the table lacks, and experience would be dropped from then on.
  `Climb` is stated for any table.
- After the first ConsumeAsync the row counts from the INSERT's call and the cache from its
  answer; `NoFreeStamina` holds all the same.
- `DbConnector` declares `SingleWriter = true` and every grain writes; the model
  takes writes to be atomic.
- `ShopProduct.json` has no `MaxPurchaseCount`, so ShopPurchaseScenario.cs:20, which
  expects Success, would be refused.
- When the emptying of a mail was applied and its answer lost, the cache still has the rewards and
  the next ReadAsync grants them again. If DeleteAllAsync has removed the row meanwhile (it is
  marked read), every ReadAsync until the grain is reactivated grants them, finds no row and
  answers DbUpdateError. `RegrantsAreCutClaims` counts those reads among the claims that ended short.
- A statement that DbConnector abandons holds the turn that awaits it; in the shop that may be
  after the wallet was debited. Any grain that awaits a statement is held the same way: the others'
  models have no liveness property, and a turn that takes no further step is one of their behaviours.
- The mail grain's DeleteAllAsync has no controller; it is modelled as an
  operation of the grain's interface.
- RewardHelper copies AddAsync's result codes into the answer without looking at them. A
  DbUpdateError would lose the reward; no path leads there now, since rows of
  wallet and inventory are never deleted while they are cached.
- PlayerWalletGrain.cs:23 says the cache is updated together with the database
  (write-through). A statement that was applied and whose answer was lost throws at l. 66 and the
  cache stays behind the row until the next activation: `CacheIsExact` says "until an
  acknowledgement is lost" for that reason. In the inventory a row whose INSERT was lost
  is inserted again by every AddAsync, which throws, until the grain is reactivated.
- GachaController.cs:22 refuses every count (`!= 1 || != 10` is always true), so no roll gets
  past the front server. `Gacha` models the grain.
- The second claim of a reward in one activation throws on the table's key instead of
  answering AlreadyRewardReceived, which AttendanceScenario.cs:33 expects; without that
  key it would be granted twice, and the duplicate row would make OnActivateAsync
  throw at l. 43 from then on. AttendanceGrain.GetAsync answers a null Task for an event without progress.
- A first login that loses the race for an INSERT answers an HTTP error; the next one finds
  the row. It is `accounts` being keyed by guid that makes this so: without the key, guids
  would get two players.
- Rolls that were paid and not drawn because a stack was full are not paid back; a level-up
  requires a stack and does not consume it.
- PlayerDbSet.UpdateNickNameAsync and DeleteAsync name a column `id` that PlayerRow lacks;
  nothing calls them.

## Not modelled

What is left of the repository has no behaviour of its own to check: PlayerGrain answers its
key; the token encodings, the Redis lock, the transaction scope and BulkInsertAsync have
no caller; the other controllers forward one packet to one grain and format the answer; the
resource tables are read-only and are the modules' constants; packets, the codec, the
scenario bot, hosting and web assets are data and plumbing. `wwwroot/js/site.js` holds
only comments.

## Plan

1. Done: Wallet, Inventory, Shop, Mail, DbPipeline, Sessions, Stamina, Level, Stage, Unit,
   Gacha, Attendance, Login.
2. Done, proofs: Wallet, Inventory, Shop, Login, Sessions, DbPipeline, Stamina, Stage with
   the level grain.
3. Left, proofs: `RewardedOnce`, `ClaimedIsGranted` and `RegrantsAreCutClaims`, by the shop's argument about what is
   held and being added; `StackBounded`, `LevelsArePaid` and `RollsArePaid` of Gacha, by the
   stages' about what is taken and not yet rolled.
