----------------------------- MODULE StageProofs ----------------------------
(***************************************************************************)
(* The stage grain with the stamina, level and wallet grains it calls, for *)
(* every table of stages and levels.                                       *)
(*                                                                         *)
(* Three arguments, over one state.  The lock and the best results rest on *)
(* the cache: it never runs ahead of the rows, and until an acknowledgement*)
(* is lost it is the rows (GrainInv).  The level rests on the climb being  *)
(* one function of the experience: climbing with a part of it and then     *)
(* with the rest leads where climbing with the whole does, so it does not  *)
(* matter where calls, failures and restarts split it (LevelInv).  That    *)
(* grants are paid for, and clears rewarded, rests on the conversation     *)
(* with those grains: a request, a running turn or an answer belongs to    *)
(* the request the stage grain is running, or to one it gave up           *)
(* (StaminaCallOK, LevelCallOK), and from where it stands follows what is  *)
(* taken and not yet granted (Owing), or written and not yet gained        *)
(* (Coming).  The stamina and wallet grains' own invariants come from      *)
(* their proofs, through SP and WP.                                        *)
(***************************************************************************)
EXTENDS Stage, WellFoundedInduction, TLAPS

SP == INSTANCE StaminaProofs WITH
        Callers <- {Grain}, Costs <- {StaminaCost[s] : s \in Stages}
WP == INSTANCE WalletProofs WITH
        Callers <- {Grain}, Amounts <- amounts, MaxAmount <- Max(amounts)

-----------------------------------------------------------------------------
GrainTyped ==
    /\ rows \in [DOMAIN rows -> Result] /\ DOMAIN rows \subseteq Stages
    /\ cache \in [DOMAIN cache -> Result]
    /\ act \in BOOLEAN /\ faults \in 0..MaxFaults
    /\ turn \in Turn \cup {Idle}
    /\ entered \subseteq Stages
    /\ due \in Nat /\ clears \in Nat /\ earned \in Nat

\* Nothing is cached that is not a row, nor entered before the stage before
\* it was written.
CacheBehind ==
    /\ DOMAIN cache \subseteq DOMAIN rows
    /\ turn.pc = "ok" => turn.stage \in DOMAIN rows
    /\ turn.pc = "stamina" /\ turn.stage > 1 => turn.stage - 1 \in DOMAIN rows

\* a is at least as good a result as b.
AsGood(a, b) == b.missions \subseteq a.missions /\ b.score <= a.score

\* Until an acknowledgement is lost the cache is the rows, up to the one the
\* running clear has written, and what a clear writes was merged from it.
CacheCurrent ==
    lost = 0 /\ act =>
        /\ turn.pc # "ok" => cache = rows
        /\ turn.pc = "ok" => rows = With(cache, turn.stage, turn.new)
        /\ turn.pc = "await" => /\ turn.had = (turn.stage \in DOMAIN cache)
                                /\ turn.had => AsGood(turn.new, cache[turn.stage])

Activated == turn # Idle => act

\* Only a failure loses an acknowledgement.
LossIsFault == lost \in Nat /\ (faults = 0 => lost = 0)

GrainInv ==
    /\ GrainTyped /\ CacheBehind /\ CacheCurrent /\ Activated /\ LossIsFault
    /\ EnteredIsUnlocked

-----------------------------------------------------------------------------
\* There is one level row at most; experience comes only with a row; a
\* request runs on an activation and knows whether it is the first.
LevelTurnOK ==
    /\ \A r, s \in lrows : r = s
    /\ lrows = {} => lgained = 0
    /\ lcache.exists => lrows # {}
    /\ ~lcache.exists => lcache = L!NoCache
    /\ lturn # L!Idle =>
         /\ lact /\ (lturn.stmt = "update" <=> lcache.exists)
         /\ lturn.stmt = "insert" => lturn.new = [lvl |-> 1, exp |-> 0]
    /\ lturn.pc = "ok" => lrows = {lturn.new}

\* Until an acknowledgement is lost the cache is the row, up to the one the
\* running statement has written, and that was climbed to from the cache.
LevelCurrent ==
    lost = 0 /\ lact =>
        /\ lturn.pc # "ok" /\ lcache.exists => lrows = {[lvl |-> lcache.lvl, exp |-> lcache.exp]}
        /\ lturn.pc # "ok" /\ ~lcache.exists => lrows = {}
        /\ lturn.pc = "await" /\ lturn.stmt = "update" =>
             lturn.new = L!Climb(lcache.lvl, lcache.exp + lturn.gain)

LevelInv == L!TypeOK /\ LevelTurnOK /\ LevelCurrent /\ ExpIsCounted

\* Each grain for itself.
CInv == GrainInv /\ LevelInv /\ SP!IInv /\ WP!IInv

-----------------------------------------------------------------------------
\* Of a request, a turn that is waited for and an answer there is one at
\* most, and it is the running request's; without a failure there is no
\* turn nobody waits for.
StaminaRuns == sturn # S!Idle /\ sturn.live

StaminaCallOK ==
    /\ sreqs # {} \/ StaminaRuns \/ sreps # {} => turn.pc = "stamina"
    /\ \A m \in sreqs : /\ m.cost = StaminaCost[turn.stage]
                        /\ sreqs = {m} /\ ~StaminaRuns /\ sreps = {}
    /\ StaminaRuns => sturn.cost = StaminaCost[turn.stage] /\ sreps = {}
    /\ \A r, q \in sreps : r = q
    /\ faults = 0 /\ sturn # S!Idle => sturn.live

\* Consumed for the running request, which does not know it yet.
Owing ==
    IF turn.pc = "stamina" /\ \E r \in sreps : r.res = "Success"
    THEN StaminaCost[turn.stage] ELSE 0

DueOK ==
    /\ due + Owing <= sused
    /\ faults = 0 => due + Owing = sused

PaidInv == CInv /\ StaminaCallOK /\ DueOK

-----------------------------------------------------------------------------
LevelRuns == lturn # L!Idle /\ lturn.live

LevelCallOK ==
    /\ lreqs # {} \/ LevelRuns \/ lreps # {} => turn.pc = "level"
    /\ \A m \in lreqs : /\ m.exp = RewardExp[turn.stage]
                        /\ lreqs = {m} /\ ~LevelRuns /\ lreps = {}
    /\ LevelRuns => lreps = {}
    /\ \A r, q \in lreps : r = q
    /\ faults = 0 /\ lturn # L!Idle => lturn.live

\* Experience of written clears on its way to the level row: not yet asked
\* for, queued at the level grain, or in the turn that grain is running.
Unasked == IF turn.pc = "ok" THEN RewardExp[turn.stage] ELSE 0
Queued == IF lreqs # {} THEN RewardExp[turn.stage] ELSE 0
Running ==
    IF lturn.pc = "await" \/ (lturn.pc = "ok" /\ lturn.stmt = "insert")
    THEN lturn.gain ELSE 0
Coming == Unasked + Queued + Running

EarnedOK ==
    /\ lgained + Coming <= earned
    /\ faults = 0 => lgained + Coming = earned /\ lturn.pc \notin {"failed", "norow"}

RewardInv == CInv /\ LevelCallOK /\ EarnedOK

-----------------------------------------------------------------------------
(* The level table. *)
LEMMA LevelTable ==
    /\ 1 \in L!Levels /\ L!Levels \subseteq Nat
    /\ \A k \in L!Levels : /\ RequiredExp[k] \in Nat /\ RequiredExp[k] > 0
                           /\ NextLevel[k] \in Nat
  BY StageAssumption DEF L!LevelTableOK, L!Levels

\* What is climbed to with x experience from level k, if g climbs from there.
ClimbStep(g, x, k) ==
    IF k \notin L!Levels THEN [lvl |-> k, exp |-> 0]
    ELSE IF x >= RequiredExp[k] THEN g[x - RequiredExp[k]][NextLevel[k]]
    ELSE [lvl |-> k, exp |-> x]

\* g is a recursive function L!Climb is a value of.
Climbs(g, e) == g = [x \in 0..e |-> [k \in Nat |-> ClimbStep(g, x, k)]]

(* A set of naturals closed under successor has them all: were one missing,
   the least missing one would have a predecessor that is not.  The
   induction theorems of the library take an operator the provers cannot
   supply.                                                                 *)
LEMMA ClosedSetOfNaturals ==
    ASSUME NEW N, 0 \in N, \A n \in Nat : n \in N => n + 1 \in N
    PROVE  Nat \subseteq N
  <1> SUFFICES ASSUME Nat \ N # {} PROVE FALSE
    OBVIOUS
  <1> DEFINE R == OpToRel(<, Nat)
  <1>1. IsWellFoundedOn(R, Nat)
    BY NatLessThanWellFounded
  <1>2. PICK n \in Nat \ N : \A m \in Nat \ N : ~(<<m, n>> \in R)
    <2> HIDE DEF R
    <2> QED
      BY <1>1, WFMin
  <1> HIDE DEF R
  <1>3. n \in Nat /\ n \notin N /\ n # 0 /\ n - 1 \in Nat /\ n - 1 < n
    OBVIOUS
  <1>4. <<n - 1, n>> \in R
    BY <1>3 DEF OpToRel, R
  <1>5. n - 1 \in N
    BY <1>2, <1>3, <1>4
  <1>6. (n - 1) + 1 \in N
    BY <1>3, <1>5
  <1> QED
    BY <1>3, <1>6

(* The recursion ends, since a level that is left costs experience: there is
   a solution up to e, for every e.                                        *)
LEMMA ClimbExists ==
    ASSUME NEW e \in Nat
    PROVE  \E g : Climbs(g, e)
  <1> DEFINE N == {n \in Nat : \E g : \A x \in 0..n, k \in Nat : g[x][k] = ClimbStep(g, x, k)}
  <1>1. 0 \in N
    <2> DEFINE g == [x \in 0..0 |-> [k \in Nat |-> IF k \notin L!Levels
                                     THEN [lvl |-> k, exp |-> 0] ELSE [lvl |-> k, exp |-> x]]]
    <2>1. \A x \in 0..0, k \in Nat : g[x][k] = ClimbStep(g, x, k)
      <3> SUFFICES ASSUME NEW x \in 0..0, NEW k \in Nat PROVE g[x][k] = ClimbStep(g, x, k)
        OBVIOUS
      <3>1. x = 0 /\ (k \in L!Levels => ~(x >= RequiredExp[k]))
        BY LevelTable
      <3> QED
        BY <3>1 DEF ClimbStep
    <2> HIDE DEF g
    <2> QED
      BY <2>1
  <1>2. ASSUME NEW n \in Nat, n \in N PROVE n + 1 \in N
    <2>1. PICK g : \A x \in 0..n, k \in Nat : g[x][k] = ClimbStep(g, x, k)
      BY <1>2
    <2> DEFINE h == [x \in 0..(n + 1) |-> [k \in Nat |-> ClimbStep(g, x, k)]]
    <2>2. \A x \in 0..n, k \in Nat : h[x][k] = g[x][k]
      BY <2>1
    <2>3. \A x \in 0..(n + 1), k \in Nat : h[x][k] = ClimbStep(h, x, k)
      <3> SUFFICES ASSUME NEW x \in 0..(n + 1), NEW k \in Nat
                   PROVE  h[x][k] = ClimbStep(h, x, k)
        OBVIOUS
      <3>1. h[x][k] = ClimbStep(g, x, k)
        OBVIOUS
      <3>2. CASE k \in L!Levels /\ x >= RequiredExp[k]
        <4>1. x - RequiredExp[k] \in 0..n /\ NextLevel[k] \in Nat
          BY <3>2, LevelTable
        <4> HIDE DEF h
        <4> QED
          BY <2>2, <3>1, <3>2, <4>1 DEF ClimbStep
      <3>3. CASE ~(k \in L!Levels /\ x >= RequiredExp[k])
        <4> HIDE DEF h
        <4> QED
          BY <3>1, <3>3 DEF ClimbStep
      <3> QED
        BY <3>2, <3>3
    <2> HIDE DEF h
    <2> QED
      BY <2>3
  <1>3. e \in N
    <2> HIDE DEF N
    <2> QED
      BY <1>1, <1>2, ClosedSetOfNaturals
  <1>4. PICK g : \A x \in 0..e, k \in Nat : g[x][k] = ClimbStep(g, x, k)
    BY <1>3
  <1> DEFINE h == [x \in 0..e |-> [k \in Nat |-> g[x][k]]]
  <1>5. \A x \in 0..e, k \in Nat : ClimbStep(h, x, k) = g[x][k]
    <2> SUFFICES ASSUME NEW x \in 0..e, NEW k \in Nat PROVE ClimbStep(h, x, k) = g[x][k]
      OBVIOUS
    <2>1. CASE k \in L!Levels /\ x >= RequiredExp[k]
      <3>1. x - RequiredExp[k] \in 0..e /\ NextLevel[k] \in Nat
        BY <2>1, LevelTable
      <3>2. h[x - RequiredExp[k]][NextLevel[k]] = g[x - RequiredExp[k]][NextLevel[k]]
        BY <3>1
      <3> HIDE DEF h
      <3> QED
        BY <1>4, <2>1, <3>2 DEF ClimbStep
    <2>2. CASE ~(k \in L!Levels /\ x >= RequiredExp[k])
      <3> HIDE DEF h
      <3> QED
        BY <1>4, <2>2 DEF ClimbStep
    <2> QED
      BY <2>1, <2>2
  <1>6. Climbs(h, e)
    <2>1. h = [x \in 0..e |-> [k \in Nat |-> ClimbStep(h, x, k)]]
      BY <1>5
    <2> HIDE DEF h
    <2> QED
      BY <2>1 DEF Climbs
  <1> QED
    BY <1>6

LEMMA ClimbsBySteps ==
    ASSUME NEW e \in Nat, NEW g, Climbs(g, e), NEW x \in 0..e, NEW k \in Nat
    PROVE  g[x][k] = ClimbStep(g, x, k)
  <1>1. g[x] = [j \in Nat |-> ClimbStep(g, x, j)]
    BY Zenon DEF Climbs
  <1> QED
    BY <1>1

(* Solutions agree as far as both go. *)
LEMMA ClimbsAgree ==
    ASSUME NEW e \in Nat, NEW f \in Nat, NEW g, NEW h, Climbs(g, e), Climbs(h, f),
           NEW x \in Nat, x <= e, x <= f, NEW k \in Nat
    PROVE  g[x][k] = h[x][k]
  <1> DEFINE N == {n \in Nat : \A y \in 0..n : y <= e /\ y <= f =>
                                   \A j \in Nat : g[y][j] = h[y][j]}
  <1>1. ASSUME NEW n \in Nat, \A y \in Nat : y < n /\ y <= e /\ y <= f =>
                                   \A j \in Nat : g[y][j] = h[y][j],
               n <= e, n <= f, NEW j \in Nat
        PROVE  g[n][j] = h[n][j]
    <2>1. g[n][j] = ClimbStep(g, n, j) /\ h[n][j] = ClimbStep(h, n, j)
      <3>1. n \in 0..e /\ n \in 0..f
        BY <1>1
      <3> QED
        BY <1>1, <3>1, ClimbsBySteps
    <2>2. CASE j \in L!Levels /\ n >= RequiredExp[j]
      <3>1. /\ n - RequiredExp[j] \in Nat /\ n - RequiredExp[j] < n /\ NextLevel[j] \in Nat
            /\ n - RequiredExp[j] <= e /\ n - RequiredExp[j] <= f
        BY <1>1, <2>2, LevelTable
      <3> QED
        BY <1>1, <2>1, <2>2, <3>1 DEF ClimbStep
    <2>3. CASE ~(j \in L!Levels /\ n >= RequiredExp[j])
      BY <2>1, <2>3 DEF ClimbStep
    <2> QED
      BY <2>2, <2>3
  <1>2. 0 \in N
    BY <1>1
  <1>3. ASSUME NEW n \in Nat, n \in N PROVE n + 1 \in N
    <2>1. \A y \in Nat : y < n + 1 /\ y <= e /\ y <= f => \A j \in Nat : g[y][j] = h[y][j]
      BY <1>3
    <2>2. \A y \in 0..(n + 1) : y < n + 1 \/ y = n + 1
      OBVIOUS
    <2> QED
      BY <1>1, <2>1, <2>2
  <1>4. x \in N
    <2> HIDE DEF N
    <2> QED
      BY <1>2, <1>3, ClosedSetOfNaturals
  <1> QED
    BY <1>4

(* The loop, one turn at a time. *)
LEMMA ClimbUnfolds ==
    ASSUME NEW l \in Nat, NEW e \in Nat
    PROVE  L!Climb(l, e) =
             IF l \notin L!Levels THEN [lvl |-> l, exp |-> 0]
             ELSE IF e >= RequiredExp[l]
                  THEN L!Climb(NextLevel[l], e - RequiredExp[l])
             ELSE [lvl |-> l, exp |-> e]
  <1>1. ASSUME NEW j \in Nat, NEW f \in Nat
        PROVE  \E g : Climbs(g, f) /\ L!Climb(j, f) = g[f][j]
    <2> DEFINE up[x \in 0..f] == [k \in Nat |->
                  IF k \notin L!Levels THEN [lvl |-> k, exp |-> 0]
                  ELSE IF x >= RequiredExp[k] THEN up[x - RequiredExp[k]][NextLevel[k]]
                  ELSE [lvl |-> k, exp |-> x]]
    <2>1. L!Climb(j, f) = up[f][j]
      BY DEF L!Climb
    <2>2. PICK g : Climbs(g, f)
      BY ClimbExists
    <2>3. Climbs(up, f)
      BY <2>2 DEF Climbs, ClimbStep
    <2> QED
      BY <2>1, <2>3
  <1>2. PICK g : Climbs(g, e) /\ L!Climb(l, e) = g[e][l]
    BY <1>1
  <1>3. g[e][l] = ClimbStep(g, e, l)
    BY <1>2, ClimbsBySteps
  <1>4. ASSUME l \in L!Levels, e >= RequiredExp[l]
        PROVE  g[e - RequiredExp[l]][NextLevel[l]] = L!Climb(NextLevel[l], e - RequiredExp[l])
    <2>1. e - RequiredExp[l] \in Nat /\ e - RequiredExp[l] <= e /\ NextLevel[l] \in Nat
      BY <1>4, LevelTable
    <2>2. PICK h : /\ Climbs(h, e - RequiredExp[l])
                   /\ L!Climb(NextLevel[l], e - RequiredExp[l])
                        = h[e - RequiredExp[l]][NextLevel[l]]
      BY <1>1, <2>1
    <2> QED
      BY <1>2, <2>1, <2>2, ClimbsAgree
  <1> QED
    BY <1>2, <1>3, <1>4 DEF ClimbStep

(* A climb ends at a level, with experience to go on from there. *)
LEMMA ClimbTyped ==
    ASSUME NEW l \in Nat, NEW e \in Nat
    PROVE  L!Climb(l, e) \in L!Standing
  <1> DEFINE N == {n \in Nat : \A f \in 0..n, j \in Nat : L!Climb(j, f) \in L!Standing}
  <1>1. ASSUME NEW n \in Nat,
               \A f \in Nat, j \in Nat : f < n => L!Climb(j, f) \in L!Standing,
               NEW j \in Nat
        PROVE  L!Climb(j, n) \in L!Standing
    <2>1. CASE j \in L!Levels /\ n >= RequiredExp[j]
      <3>1. n - RequiredExp[j] \in Nat /\ n - RequiredExp[j] < n /\ NextLevel[j] \in Nat
        BY <2>1, LevelTable
      <3>2. L!Climb(j, n) = L!Climb(NextLevel[j], n - RequiredExp[j])
        BY <2>1, ClimbUnfolds
      <3> QED
        BY <1>1, <3>1, <3>2
    <2>2. CASE ~(j \in L!Levels /\ n >= RequiredExp[j])
      <3>1. L!Climb(j, n) = [lvl |-> j, exp |-> 0] \/ L!Climb(j, n) = [lvl |-> j, exp |-> n]
        BY <2>2, ClimbUnfolds
      <3> QED
        BY <3>1 DEF L!Standing
    <2> QED
      BY <2>1, <2>2
  <1>2. 0 \in N
    BY <1>1
  <1>3. ASSUME NEW n \in Nat, n \in N PROVE n + 1 \in N
    <2>1. \A f \in Nat, j \in Nat : f < n + 1 => L!Climb(j, f) \in L!Standing
      BY <1>3
    <2>2. \A f \in 0..(n + 1) : (f \in Nat /\ f < n + 1) \/ f = n + 1
      OBVIOUS
    <2> QED
      BY <1>1, <2>1, <2>2
  <1>4. e \in N
    <2> HIDE DEF N
    <2> QED
      BY <1>2, <1>3, ClosedSetOfNaturals
  <1> QED
    BY <1>4

(* AddExpAsync's loop climbs with the experience of one call from where the
   last call left the player: with the sum of both it gets to the same level
   with the same experience left, whatever the table, and also where the
   table ends.                                                             *)
THEOREM ClimbSplits ==
    ASSUME NEW l \in Nat, NEW e \in Nat, NEW g \in Nat
    PROVE  L!Climb(L!Climb(l, e).lvl, L!Climb(l, e).exp + g) = L!Climb(l, e + g)
  <1> DEFINE Split(j, f) ==
               L!Climb(L!Climb(j, f).lvl, L!Climb(j, f).exp + g) = L!Climb(j, f + g)
             N == {n \in Nat : \A f \in 0..n, j \in Nat : Split(j, f)}
  <1>1. ASSUME NEW n \in Nat, \A f \in Nat, j \in Nat : f < n => Split(j, f), NEW j \in Nat
        PROVE  Split(j, n)
    <2>1. CASE j \notin L!Levels
      <3>1. L!Climb(j, n) = [lvl |-> j, exp |-> 0]
        BY <2>1, ClimbUnfolds
      <3>2. L!Climb(j, 0 + g) = [lvl |-> j, exp |-> 0]
        BY <2>1, ClimbUnfolds
      <3>3. n + g \in Nat
        BY <1>1
      <3>4. L!Climb(j, n + g) = [lvl |-> j, exp |-> 0]
        BY <2>1, <3>3, ClimbUnfolds
      <3> QED
        BY <3>1, <3>2, <3>4
    <2>2. CASE j \in L!Levels /\ n >= RequiredExp[j]
      <3>1. /\ n - RequiredExp[j] \in Nat /\ n - RequiredExp[j] < n /\ NextLevel[j] \in Nat
            /\ n + g \in Nat /\ n + g >= RequiredExp[j]
            /\ (n + g) - RequiredExp[j] = (n - RequiredExp[j]) + g
        BY <2>2, LevelTable
      <3>2. Split(NextLevel[j], n - RequiredExp[j])
        BY <1>1, <3>1
      <3>3. L!Climb(j, n) = L!Climb(NextLevel[j], n - RequiredExp[j])
        BY <2>2, ClimbUnfolds
      <3>4. L!Climb(j, n + g) = L!Climb(NextLevel[j], (n + g) - RequiredExp[j])
        BY <2>2, <3>1, ClimbUnfolds
      <3> QED
        BY <3>1, <3>2, <3>3, <3>4
    <2>3. CASE j \in L!Levels /\ ~(n >= RequiredExp[j])
      <3>1. L!Climb(j, n) = [lvl |-> j, exp |-> n]
        BY <2>3, ClimbUnfolds
      <3> QED
        BY <3>1
    <2> QED
      BY <2>1, <2>2, <2>3
  <1> HIDE DEF Split
  <1>2. 0 \in N
    BY <1>1
  <1>3. ASSUME NEW n \in Nat, n \in N PROVE n + 1 \in N
    <2>1. \A f \in Nat, j \in Nat : f < n + 1 => Split(j, f)
      BY <1>3
    <2>2. \A f \in 0..(n + 1) : (f \in Nat /\ f < n + 1) \/ f = n + 1
      OBVIOUS
    <2> QED
      BY <1>1, <2>1, <2>2
  <1>4. e \in N
    <2> HIDE DEF N
    <2> QED
      BY <1>2, <1>3, ClosedSetOfNaturals
  <1> QED
    BY <1>4 DEF Split

-----------------------------------------------------------------------------
(* The record of the running request, and what its tables hold for it. *)
LEMMA TurnFields ==
    ASSUME GrainTyped, turn # Idle
    PROVE  /\ turn \in Turn /\ turn.stage \in Stages
           /\ turn.pc \in {"stamina", "level", "wallet", "await", "ok", "norow"}
           /\ turn.pc \in {"await", "ok", "norow"} =>
                /\ turn \in [pc : {"await", "ok", "norow"}, stage : Stages, new : Result,
                             had : BOOLEAN]
                /\ turn.new \in Result /\ turn.had \in BOOLEAN
           /\ StaminaCost[turn.stage] \in Nat /\ RewardExp[turn.stage] \in Nat
  <1>1. turn \in Turn
    BY DEF GrainTyped
  <1>2. turn.stage \in Stages
    BY <1>1 DEF Turn
  <1>3. /\ turn.pc \in {"stamina", "level", "wallet", "await", "ok", "norow"}
        /\ turn.pc \in {"await", "ok", "norow"} =>
                /\ turn \in [pc : {"await", "ok", "norow"}, stage : Stages, new : Result,
                             had : BOOLEAN]
                /\ turn.new \in Result /\ turn.had \in BOOLEAN
    BY <1>1 DEF Turn
  <1> QED
    BY <1>1, <1>2, <1>3, StageAssumption

LEMMA RunningPc ==
    ASSUME GrainTyped
    PROVE  turn # Idle <=> turn.pc # "idle"
  BY TurnFields DEF Idle

(* Results overwritten or added at one stage. *)
LEMMA WithTyped ==
    ASSUME NEW f, f \in [DOMAIN f -> Result], DOMAIN f \subseteq Stages,
           NEW s \in Stages, NEW r \in Result
    PROVE  /\ DOMAIN With(f, s, r) = DOMAIN f \cup {s}
           /\ With(f, s, r) \in [DOMAIN With(f, s, r) -> Result]
           /\ With(f, s, r)[s] = r
           /\ \A x \in DOMAIN f : x # s => With(f, s, r)[x] = f[x]
  BY DEF With

LEMMA MergedTyped ==
    ASSUME GrainTyped, DOMAIN cache \subseteq Stages, NEW s \in Stages, NEW r \in Reports
    PROVE  /\ Merged(s, r) \in Result
           /\ s \in DOMAIN cache => AsGood(Merged(s, r), cache[s])
  <1>1. r \in Result /\ r.missions \subseteq Missions /\ r.score \in Nat
    BY StageAssumption DEF Result
  <1>2. s \in DOMAIN cache => cache[s].missions \subseteq Missions /\ cache[s].score \in Nat
    BY DEF GrainTyped, Result
  <1>3. CASE s \notin DOMAIN cache
    BY <1>1, <1>3 DEF Merged
  <1>4. CASE s \in DOMAIN cache
    <2>1. /\ Larger(cache[s].score, r.score) \in Nat
          /\ cache[s].score <= Larger(cache[s].score, r.score)
      BY <1>1, <1>2, <1>4 DEF Larger
    <2>2. Merged(s, r) = [missions |-> cache[s].missions \cup r.missions,
                          score |-> Larger(cache[s].score, r.score)]
      BY <1>4 DEF Merged
    <2> QED
      BY <1>1, <1>2, <1>4, <2>1, <2>2 DEF Result, AsGood
  <1> QED
    BY <1>3, <1>4

(* Acknowledgements are lost, one at a time, by what counts as a failure. *)
LEMMA LossCounts ==
    [Next]_vars =>
        \/ lost' = lost /\ faults' = faults
        \/ lost' \in {lost, lost + 1} /\ faults < MaxFaults /\ faults' = faults + 1
  <1> SUFFICES ASSUME [Next]_vars
               PROVE  \/ lost' = lost /\ faults' = faults
                      \/ /\ lost' \in {lost, lost + 1}
                         /\ faults < MaxFaults /\ faults' = faults + 1
    OBVIOUS
  <1>1. /\ \A m : S!Send(m) \/ L!Send(m) \/ W!Send(m) => lost' = lost
        /\ S!Receive(Grain) \/ L!Receive(Grain) \/ W!Receive(Grain) => lost' = lost
        /\ S!TimeOut(Grain) \/ L!TimeOut(Grain) \/ W!TimeOut(Grain) => lost' = lost
        /\ S!Fail \/ L!Fail \/ S!Tick \/ S!Crash => lost' = lost
    BY DEF S!Send, L!Send, W!Send, S!Receive, L!Receive, W!Receive, S!TimeOut, L!TimeOut,
           W!TimeOut, S!Fail, L!Fail, S!Tick, S!Crash
  <1>2. S!Serve \/ L!Serve \/ W!Serve => lost' = lost
    BY DEF S!Serve, S!Activate, S!Deactivate, S!Begin, S!Apply, S!Resume,
           L!Serve, L!Activate, L!Deactivate, L!Begin, L!Apply, L!Inserted, L!Resume,
           W!Serve, W!Activate, W!Deactivate, W!Begin, W!Apply, W!Resume
  <1>3. S!Fault \/ L!Fault \/ W!Fault => lost' \in {lost, lost + 1}
    BY DEF S!Fault, S!ActivateFails, S!Fail, S!LoseAck, L!Fault, L!ActivateFails, L!Fail,
           L!LoseAck, W!Fault, W!ActivateFails, W!Fail, W!LoseAck
  <1>4. CASE GrainStep
    <2>0. \A s : CallLevel(s) \/ GrantCurrency(s) => lost' = lost
      BY <1>1 DEF CallLevel, GrantCurrency, CallWallet
    <2>1. CASE Activate \/ Deactivate \/ Save
      BY <2>1 DEF Activate, Deactivate, Save
    <2>2. CASE \E s \in StageIds : Enter(s) \/ \E r \in Reports : Clear(s, r)
      <3>1. \A s : CallStamina(s) => lost' = lost
        BY <1>1 DEF CallStamina
      <3> QED
        BY <2>2, <3>1 DEF Enter, Clear
    <2>3. CASE Consumed \/ Paid
      BY <1>1, <2>3 DEF Consumed, Paid
    <2>4. CASE Saved
      BY <2>0, <2>4 DEF Saved
    <2>5. CASE Leveled
      BY <2>0, <2>5 DEF Leveled
    <2> QED
      BY <1>4, <2>1, <2>2, <2>3, <2>4, <2>5 DEF GrainStep
  <1>5. CASE Components
    BY <1>1, <1>2, <1>5 DEF Components
  <1>6. CASE Faults
    <2>1. faults < MaxFaults /\ faults' = faults + 1
      BY <1>6 DEF Faults
    <2>2. CASE SaveFails \/ SaveLost
      BY <2>1, <2>2 DEF SaveFails, SaveLost
    <2>3. CASE CallTimesOut \/ Crash
      BY <1>1, <2>1, <2>3 DEF CallTimesOut, Crash
    <2>4. CASE ComponentFails
      BY <1>3, <2>1, <2>4 DEF ComponentFails
    <2> QED
      BY <1>6, <2>2, <2>3, <2>4 DEF Faults
  <1>7. CASE Conflicts /\ UNCHANGED faults
    BY <1>1, <1>7 DEF Conflicts, SaveFails
  <1>8. CASE UNCHANGED vars
    BY <1>8 DEF vars
  <1> QED
    BY <1>4, <1>5, <1>6, <1>7, <1>8 DEF Next

(* So until one is lost none was lost before. *)
LEMMA LossKept ==
    ASSUME GrainInv, [Next]_vars
    PROVE  /\ LossIsFault' /\ faults' \in 0..MaxFaults
           /\ (lost' = 0 => lost = 0) /\ (faults' = 0 => faults = 0)
  <1>1. faults \in Nat /\ faults <= MaxFaults /\ MaxFaults \in Nat /\ lost \in Nat
    BY StageAssumption DEF GrainInv, GrainTyped, LossIsFault
  <1> QED
    BY <1>1, LossCounts DEF GrainInv, LossIsFault

-----------------------------------------------------------------------------
LEMMA InitGrain == Init => GrainInv
  <1> SUFFICES ASSUME Init PROVE GrainInv
    OBVIOUS
  <1> USE DEF Init, NoCache, Idle
  <1>1. GrainTyped
    <2>1. 0 \in 0..MaxFaults
      BY StageAssumption
    <2> QED
      BY <2>1 DEF GrainTyped
  <1>2. lost = 0
    BY DEF S!Init
  <1>3. CacheBehind /\ CacheCurrent /\ Activated /\ LossIsFault
    BY <1>2 DEF CacheBehind, CacheCurrent, Activated, LossIsFault
  <1> QED
    BY <1>1, <1>3 DEF GrainInv, EnteredIsUnlocked

grainState == <<rows, cache, act, turn, entered, due, clears, earned>>

(* The other grains move, or nothing does. *)
LEMMA StillKeepsGrain ==
    ASSUME GrainInv, [Next]_vars, UNCHANGED grainState
    PROVE  GrainInv'
  <1>1. LossIsFault' /\ faults' \in 0..MaxFaults /\ (lost' = 0 => lost = 0)
    BY LossKept
  <1>2. UNCHANGED <<rows, cache, act, turn, entered, due, clears, earned>>
    BY DEF grainState
  <1>3. GrainTyped' /\ CacheBehind' /\ Activated' /\ EnteredIsUnlocked'
    BY <1>1, <1>2 DEF GrainInv, GrainTyped, CacheBehind, Activated, EnteredIsUnlocked
  <1>4. CacheCurrent'
    BY <1>1, <1>2 DEF GrainInv, CacheCurrent
  <1> QED
    BY <1>1, <1>3, <1>4 DEF GrainInv

(* The request ends, or goes on to a call that decides nothing. *)
LEMMA OnwardKeepsGrain ==
    ASSUME GrainInv, [Next]_vars, UNCHANGED <<rows, cache, act, entered, due, clears, earned>>,
           turn.pc # "ok", turn' \in Turn \cup {Idle}, turn' # Idle => act,
           turn'.pc \in {"idle", "level", "wallet", "norow"}
    PROVE  GrainInv'
  <1>1. LossIsFault' /\ faults' \in 0..MaxFaults /\ (lost' = 0 => lost = 0)
    BY LossKept
  <1>2. GrainTyped' /\ CacheBehind' /\ Activated' /\ EnteredIsUnlocked'
    BY <1>1 DEF GrainInv, GrainTyped, CacheBehind, Activated, EnteredIsUnlocked
  <1>3. CacheCurrent'
    BY <1>1 DEF GrainInv, CacheCurrent
  <1> QED
    BY <1>1, <1>2, <1>3 DEF GrainInv

(* The rewards follow a written clear, one call after the other. *)
LEMMA GrantMoves ==
    ASSUME GrainTyped, turn # Idle, GrantCurrency(turn.stage)
    PROVE  turn' \in Turn \cup {Idle} /\ turn'.pc \in {"idle", "wallet"}
  BY TurnFields DEF GrantCurrency, EndTurn, Idle, Turn

LEMMA DropKeepsGrain ==
    ASSUME GrainInv, [Next]_vars, act' = FALSE, cache' = NoCache, turn' = Idle,
           rows' \in [DOMAIN rows' -> Result], DOMAIN rows' \subseteq Stages,
           DOMAIN rows \subseteq DOMAIN rows',
           UNCHANGED <<entered, due>>, clears' \in Nat, earned' \in Nat
    PROVE  GrainInv'
  <1>1. LossIsFault' /\ faults' \in 0..MaxFaults
    BY LossKept
  <1>2. DOMAIN cache' = {} /\ cache' \in [DOMAIN cache' -> Result]
    BY DEF NoCache
  <1>3. GrainTyped'
    BY <1>1, <1>2 DEF GrainInv, GrainTyped
  <1>4. CacheBehind' /\ CacheCurrent' /\ Activated' /\ EnteredIsUnlocked'
    BY <1>2 DEF GrainInv, CacheBehind, CacheCurrent, Activated, EnteredIsUnlocked, Idle
  <1> QED
    BY <1>1, <1>3, <1>4 DEF GrainInv

(* The statement of a clear is applied. *)
LEMMA WrittenTyped ==
    ASSUME GrainInv, turn.pc = "await", Written
    PROVE  /\ turn \in [pc : {"await", "ok", "norow"}, stage : Stages, new : Result,
                        had : BOOLEAN]
           /\ turn.stage \in Stages /\ turn.new \in Result
           /\ rows' = With(rows, turn.stage, turn.new)
           /\ rows' \in [DOMAIN rows' -> Result] /\ DOMAIN rows' \subseteq Stages
           /\ DOMAIN rows' = DOMAIN rows \cup {turn.stage}
           /\ clears' \in Nat /\ earned' \in Nat
           /\ earned' = earned + RewardExp[turn.stage]
  <1>1. turn # Idle
    BY DEF Idle
  <1>2. /\ turn \in [pc : {"await", "ok", "norow"}, stage : Stages, new : Result,
                     had : BOOLEAN]
        /\ turn.stage \in Stages /\ turn.new \in Result /\ RewardExp[turn.stage] \in Nat
    BY <1>1, TurnFields DEF GrainInv
  <1>3. /\ rows \in [DOMAIN rows -> Result] /\ DOMAIN rows \subseteq Stages
        /\ clears \in Nat /\ earned \in Nat
    BY DEF GrainInv, GrainTyped
  <1>4. /\ rows' = With(rows, turn.stage, turn.new)
        /\ clears' = clears + 1 /\ earned' = earned + RewardExp[turn.stage]
    BY DEF Written
  <1>5. clears' \in Nat /\ earned' \in Nat
    BY <1>2, <1>3, <1>4
  <1>6. /\ DOMAIN rows' = DOMAIN rows \cup {turn.stage}
        /\ rows' \in [DOMAIN rows' -> Result]
    <2>1. /\ DOMAIN With(rows, turn.stage, turn.new) = DOMAIN rows \cup {turn.stage}
          /\ With(rows, turn.stage, turn.new)
               \in [DOMAIN With(rows, turn.stage, turn.new) -> Result]
      BY <1>2, <1>3 DEF With
    <2> QED
      BY <1>4, <2>1
  <1> QED
    BY <1>2, <1>3, <1>4, <1>5, <1>6

LEMMA SaveKeepsGrain ==
    ASSUME GrainInv, [Next]_vars, Save
    PROVE  GrainInv'
  <1>1. LossIsFault' /\ faults' \in 0..MaxFaults /\ (lost' = 0 => lost = 0)
    BY LossKept
  <1>2. turn # Idle /\ act /\ UNCHANGED <<cache, act, entered, due>> /\ turn.pc = "await"
    BY DEF Save, Idle, GrainInv, Activated
  <1>3. turn \in [pc : {"await", "ok", "norow"}, stage : Stages, new : Result, had : BOOLEAN]
    BY <1>2, TurnFields DEF GrainInv
  <1>4. CASE ~Affected
    <2>1. turn' = [turn EXCEPT !.pc = "norow"] /\ UNCHANGED <<rows, clears, earned>>
      BY <1>4 DEF Save
    <2>2. turn' \in Turn /\ turn' # Idle /\ turn'.pc = "norow"
      BY <1>3, <2>1 DEF Turn, Idle
    <2> QED
      BY <1>2, <2>1, <2>2, OnwardKeepsGrain
  <1>5. CASE Affected
    <2>1. turn' = [turn EXCEPT !.pc = "ok"] /\ Written
      BY <1>5 DEF Save
    <2>2. /\ rows' = With(rows, turn.stage, turn.new)
          /\ rows' \in [DOMAIN rows' -> Result] /\ DOMAIN rows' \subseteq Stages
          /\ DOMAIN rows' = DOMAIN rows \cup {turn.stage}
          /\ clears' \in Nat /\ earned' \in Nat
      BY <1>2, <2>1, WrittenTyped
    <2>3. /\ turn' \in Turn /\ turn' # Idle /\ turn'.pc = "ok"
          /\ turn'.stage = turn.stage /\ turn'.new = turn.new
      BY <1>3, <2>1 DEF Turn, Idle
    <2>4. GrainTyped'
      BY <1>1, <1>2, <2>2, <2>3 DEF GrainInv, GrainTyped
    <2>5. CacheBehind' /\ Activated' /\ EnteredIsUnlocked'
      BY <1>2, <2>2, <2>3 DEF GrainInv, CacheBehind, Activated, EnteredIsUnlocked
    <2>6. CacheCurrent'
      BY <1>1, <1>2, <2>2, <2>3 DEF GrainInv, CacheCurrent
    <2> QED
      BY <1>1, <2>4, <2>5, <2>6 DEF GrainInv
  <1> QED
    BY <1>4, <1>5

(* The cache takes what the rows took, and the rewards follow. *)
LEMMA SavedKeepsGrain ==
    ASSUME GrainInv, [Next]_vars, Saved
    PROVE  GrainInv'
  <1>1. LossIsFault' /\ faults' \in 0..MaxFaults /\ (lost' = 0 => lost = 0)
    BY LossKept
  <1>2. /\ turn # Idle /\ act
        /\ UNCHANGED <<rows, act, entered, due, clears, earned>>
    BY DEF Saved, Idle, GrainInv, Activated, history
  <1>3. turn.stage \in Stages /\ turn.pc \in {"norow", "ok"}
    BY <1>2, TurnFields DEF Saved, GrainInv
  <1>4. turn' \in Turn \cup {Idle} /\ turn'.pc \in {"idle", "level", "wallet"}
    <2>1. CASE turn.pc = "norow" \/ GrantCurrency(turn.stage)
      BY <1>2, <2>1, GrantMoves DEF Saved, EndTurn, Idle, GrainInv
    <2>2. CASE turn' = [pc |-> "level", stage |-> turn.stage]
      BY <1>3, <2>2 DEF Turn
    <2> QED
      BY <2>1, <2>2 DEF Saved
  <1>5. CASE turn.pc = "norow"
    <2>1. UNCHANGED cache
      BY <1>5 DEF Saved
    <2> QED
      BY <1>2, <1>4, <1>5, <2>1, OnwardKeepsGrain
  <1>6. CASE turn.pc = "ok"
    <2>1. cache' = With(cache, turn.stage, turn.new) /\ turn.new \in Result
      BY <1>2, <1>6, TurnFields DEF Saved, GrainInv
    <2>2. cache' \in [DOMAIN cache' -> Result] /\ DOMAIN cache' = DOMAIN cache \cup {turn.stage}
      BY <1>3, <2>1 DEF With, GrainInv, GrainTyped
    <2>3. GrainTyped' /\ Activated' /\ EnteredIsUnlocked'
      BY <1>1, <1>2, <1>4, <2>2 DEF GrainInv, GrainTyped, Activated, EnteredIsUnlocked
    <2>4. CacheBehind'
      BY <1>2, <1>4, <1>6, <2>2 DEF GrainInv, CacheBehind
    <2>5. CacheCurrent'
      BY <1>1, <1>2, <1>4, <1>6, <2>1 DEF GrainInv, CacheCurrent
    <2> QED
      BY <1>1, <2>3, <2>4, <2>5 DEF GrainInv
  <1> QED
    BY <1>3, <1>5, <1>6

LEMMA EnterKeepsGrain ==
    ASSUME GrainInv, [Next]_vars, NEW s \in StageIds, Enter(s)
    PROVE  GrainInv'
  <1>1. UNCHANGED <<rows, cache, act, entered, due, clears, earned>> /\ act
    BY DEF Enter, history
  <1>2. CASE turn' = turn
    BY <1>1, <1>2, StillKeepsGrain DEF grainState
  <1>3. CASE s \in Stages /\ Unlocked(s) /\ turn' = [pc |-> "stamina", stage |-> s]
    <2>1. LossIsFault' /\ faults' \in 0..MaxFaults /\ (lost' = 0 => lost = 0)
      BY LossKept
    <2>2. turn' \in Turn /\ turn'.pc = "stamina" /\ turn'.stage = s /\ turn.pc = "idle"
      BY <1>3 DEF Turn, Enter, Idle
    <2>3. GrainTyped' /\ Activated' /\ EnteredIsUnlocked'
      BY <1>1, <2>1, <2>2 DEF GrainInv, GrainTyped, Activated, EnteredIsUnlocked
    <2>4. CacheBehind'
      BY <1>1, <1>3, <2>2 DEF GrainInv, CacheBehind, Unlocked
    <2>5. CacheCurrent'
      BY <1>1, <2>1, <2>2 DEF GrainInv, CacheCurrent
    <2> QED
      BY <2>1, <2>3, <2>4, <2>5 DEF GrainInv
  <1> QED
    BY <1>2, <1>3 DEF Enter

LEMMA ClearKeepsGrain ==
    ASSUME GrainInv, [Next]_vars, NEW s \in StageIds, NEW r \in Reports, Clear(s, r)
    PROVE  GrainInv'
  <1>1. UNCHANGED <<rows, cache, act, entered, due, clears, earned>> /\ act
    BY DEF Clear, history
  <1>2. CASE turn' = turn
    BY <1>1, <1>2, StillKeepsGrain DEF grainState
  <1>3. CASE s \in Stages /\ turn' = [pc |-> "await", stage |-> s, new |-> Merged(s, r),
                                      had |-> s \in DOMAIN cache]
    <2>1. LossIsFault' /\ faults' \in 0..MaxFaults /\ (lost' = 0 => lost = 0)
      BY LossKept
    <2>2. /\ Merged(s, r) \in Result
          /\ s \in DOMAIN cache => AsGood(Merged(s, r), cache[s])
      BY <1>3, MergedTyped DEF GrainInv, GrainTyped, CacheBehind
    <2>3. /\ turn' \in Turn /\ turn'.pc = "await" /\ turn'.stage = s
          /\ turn'.new = Merged(s, r) /\ turn'.had = (s \in DOMAIN cache)
          /\ turn.pc = "idle"
      BY <1>3, <2>2 DEF Turn, Clear, Idle
    <2>4. GrainTyped' /\ Activated' /\ EnteredIsUnlocked' /\ CacheBehind'
      BY <1>1, <2>1, <2>3
         DEF GrainInv, GrainTyped, Activated, EnteredIsUnlocked, CacheBehind
    <2>5. CacheCurrent'
      <3>1. lost' = 0 => cache = rows
        BY <1>1, <2>1, <2>3 DEF GrainInv, CacheCurrent
      <3>2. (turn'.had = (turn'.stage \in DOMAIN cache'))
            /\ (turn'.had => AsGood(turn'.new, cache'[turn'.stage]))
        BY <1>1, <2>2, <2>3, Zenon
      <3> QED
        BY <1>1, <2>3, <3>1, <3>2 DEF CacheCurrent, AsGood
    <2> QED
      BY <2>1, <2>4, <2>5 DEF GrainInv
  <1> QED
    BY <1>2, <1>3 DEF Clear

LEMMA ConsumedKeepsGrain ==
    ASSUME GrainInv, [Next]_vars, Consumed
    PROVE  GrainInv'
  <1>1. LossIsFault' /\ faults' \in 0..MaxFaults /\ (lost' = 0 => lost = 0)
    BY LossKept
  <1>2. /\ UNCHANGED <<rows, cache, act, clears, earned>>
        /\ turn.pc = "stamina" /\ turn # Idle /\ turn' = Idle /\ turn'.pc = "idle"
    BY DEF Consumed, EndTurn, Idle
  <1>3. turn.stage \in Stages /\ StaminaCost[turn.stage] \in Nat
    BY <1>2, TurnFields DEF GrainInv
  <1>4. /\ entered' = entered \cup {turn.stage} \/ entered' = entered
        /\ due' = due + StaminaCost[turn.stage] \/ due' = due
    BY DEF Consumed
  <1>5. GrainTyped'
    BY <1>1, <1>2, <1>3, <1>4 DEF GrainInv, GrainTyped
  <1>6. EnteredIsUnlocked'
    BY <1>2, <1>4 DEF GrainInv, CacheBehind, EnteredIsUnlocked
  <1>7. CacheBehind' /\ Activated' /\ CacheCurrent'
    BY <1>1, <1>2 DEF GrainInv, CacheBehind, Activated, CacheCurrent
  <1> QED
    BY <1>1, <1>5, <1>6, <1>7 DEF GrainInv

LEMMA StepKeepsGrain == GrainInv /\ [Next]_vars => GrainInv'
  <1> SUFFICES ASSUME GrainInv, [Next]_vars PROVE GrainInv'
    OBVIOUS
  <1> USE DEF grainState, history
  <1>1. CASE Activate
    <2>1. LossIsFault' /\ faults' \in 0..MaxFaults /\ (lost' = 0 => lost = 0)
      BY LossKept
    <2>2. /\ UNCHANGED <<rows, turn, entered, due, clears, earned>>
          /\ cache' = rows /\ act' = TRUE /\ turn = Idle /\ turn.pc = "idle"
      BY <1>1 DEF Activate, GrainInv, Activated, Idle
    <2>3. GrainTyped' /\ CacheBehind' /\ Activated' /\ EnteredIsUnlocked'
      BY <2>1, <2>2 DEF GrainInv, GrainTyped, CacheBehind, Activated, EnteredIsUnlocked
    <2>4. CacheCurrent'
      BY <2>2 DEF CacheCurrent
    <2> QED
      BY <2>1, <2>3, <2>4 DEF GrainInv
  <1>2. CASE Deactivate \/ Crash
    <2>1. /\ act' = FALSE /\ cache' = NoCache /\ turn' = Idle /\ UNCHANGED <<entered, due>>
          /\ \/ UNCHANGED <<rows, clears, earned>>
             \/ turn.pc = "await" /\ Written
      BY <1>2 DEF Deactivate, Crash, EndTurn
    <2>2. /\ rows' \in [DOMAIN rows' -> Result] /\ DOMAIN rows' \subseteq Stages
          /\ DOMAIN rows \subseteq DOMAIN rows'
          /\ clears' \in Nat /\ earned' \in Nat
      <3>1. CASE UNCHANGED <<rows, clears, earned>>
        BY <3>1 DEF GrainInv, GrainTyped
      <3>2. CASE turn.pc = "await" /\ Written
        BY <3>2, WrittenTyped
      <3> QED
        BY <2>1, <3>1, <3>2
    <2> QED
      BY <2>1, <2>2, DropKeepsGrain
  <1>3. CASE \E s \in StageIds : Enter(s) \/ \E r \in Reports : Clear(s, r)
    BY <1>3, EnterKeepsGrain, ClearKeepsGrain
  <1>4. CASE Consumed
    BY <1>4, ConsumedKeepsGrain
  <1>5. CASE Save
    BY <1>5, SaveKeepsGrain
  <1>6. CASE Saved
    BY <1>6, SavedKeepsGrain
  <1>7. CASE Leveled \/ Paid \/ CallTimesOut \/ SaveFails
    <2>1. /\ UNCHANGED <<rows, cache, act, entered, due, clears, earned>>
          /\ turn.pc \in {"level", "wallet", "stamina", "await"}
      BY <1>7 DEF Leveled, Paid, CallTimesOut, SaveFails
    <2>2. turn # Idle /\ act
      BY <2>1 DEF Idle, GrainInv, Activated
    <2>3. turn' = Idle \/ GrantCurrency(turn.stage)
      BY <1>7 DEF Leveled, Paid, CallTimesOut, SaveFails, EndTurn
    <2>4. turn' \in Turn \cup {Idle} /\ turn'.pc \in {"idle", "wallet"}
      BY <2>2, <2>3, GrantMoves DEF Idle, GrainInv
    <2> QED
      BY <2>1, <2>2, <2>4, OnwardKeepsGrain
  <1>8. CASE SaveLost
    <2>1. LossIsFault' /\ faults' \in 0..MaxFaults
      BY LossKept
    <2>2. /\ turn.pc = "await" /\ Written /\ UNCHANGED <<cache, act, entered, due>>
          /\ lost' = lost + 1 /\ turn' = Idle /\ turn'.pc = "idle"
      BY <1>8 DEF SaveLost, EndTurn, Idle
    <2>3. /\ rows' \in [DOMAIN rows' -> Result] /\ DOMAIN rows' \subseteq Stages
          /\ DOMAIN rows \subseteq DOMAIN rows'
          /\ clears' \in Nat /\ earned' \in Nat
      BY <2>2, WrittenTyped
    <2>4. lost' # 0
      BY <2>2 DEF GrainInv, LossIsFault
    <2>5. GrainTyped' /\ CacheBehind' /\ CacheCurrent' /\ Activated' /\ EnteredIsUnlocked'
      BY <2>1, <2>2, <2>3, <2>4
         DEF GrainInv, GrainTyped, CacheBehind, CacheCurrent, Activated, EnteredIsUnlocked
    <2> QED
      BY <2>1, <2>5 DEF GrainInv
  <1>9. CASE Components \/ ComponentFails \/ UNCHANGED vars
    BY <1>9, StillKeepsGrain DEF Components, ComponentFails, grainVars, vars
  <1>10. CASE Conflicts
    BY <1>7, <1>10, StillKeepsGrain DEF Conflicts, grainVars
  <1> QED
    BY <1>1, <1>2, <1>3, <1>4, <1>5, <1>6, <1>7, <1>8, <1>9, <1>10
       DEF Next, GrainStep, Faults

(* PlayerStageGrain.EnterStageAsync: a stage that was ever granted follows
   one whose clear is in the database, whatever fails or restarts.         *)
THEOREM StageEnteredIsUnlocked == Spec => []EnteredIsUnlocked
  <1>1. GrainInv => EnteredIsUnlocked
    BY DEF GrainInv
  <1> QED
    BY <1>1, InitGrain, StepKeepsGrain, PTL DEF Spec

(* Rows change only by the statement of the running clear. *)
LEMMA RowsChangeByClear ==
    ASSUME [Next]_vars
    PROVE  rows' = rows \/ (turn.pc = "await" /\ ~Conflict /\ Affected /\ Written)
  <1>1. CASE GrainStep
    BY <1>1 DEF GrainStep, Activate, Deactivate, Enter, Clear, Consumed, Save, Saved,
                Leveled, Paid
  <1>2. CASE Components \/ Conflicts \/ UNCHANGED vars
    BY <1>2 DEF Components, Conflicts, SaveFails, grainVars, vars
  <1>3. CASE Faults
    BY <1>3 DEF Faults, SaveFails, SaveLost, CallTimesOut, Crash, ComponentFails, grainVars
  <1> QED
    BY <1>1, <1>2, <1>3 DEF Next

LEMMA ClearKeepsBest ==
    ASSUME GrainInv, [Next]_vars, lost = 0, NEW s \in DOMAIN rows
    PROVE  s \in DOMAIN rows' /\ AsGood(rows'[s], rows[s])
  <1>1. rows[s].score \in Nat
    BY DEF GrainInv, GrainTyped, Result
  <1>2. CASE rows' = rows
    BY <1>1, <1>2 DEF AsGood
  <1>3. CASE turn.pc = "await" /\ ~Conflict /\ Affected /\ Written
    <2>1. turn # Idle /\ act
      BY <1>3 DEF Idle, GrainInv, Activated
    <2>2. /\ cache = rows /\ turn.had = (turn.stage \in DOMAIN cache)
          /\ turn.had => AsGood(turn.new, cache[turn.stage])
      BY <1>3, <2>1 DEF GrainInv, CacheCurrent
    <2>3. /\ rows' = With(rows, turn.stage, turn.new)
          /\ DOMAIN rows' = DOMAIN rows \cup {turn.stage}
      BY <1>3, WrittenTyped
    <2>4. CASE s = turn.stage
      <3>1. rows'[s] = turn.new
        BY <2>3, <2>4 DEF With
      <3>2. turn.had
        BY <2>2, <2>4
      <3> QED
        BY <2>2, <2>3, <2>4, <3>1, <3>2
    <2>5. CASE s # turn.stage
      <3>1. rows'[s] = rows[s]
        BY <2>3, <2>5 DEF With
      <3> QED
        BY <1>1, <2>3, <3>1 DEF AsGood
    <2> QED
      BY <2>4, <2>5
  <1> QED
    BY <1>2, <1>3, RowsChangeByClear

(* PlayerStageGrain.ClearStageAsync merges with what it has cached: until an
   acknowledgement is lost that never makes a row worse, whatever else
   fails, times out or restarts between the merge and the statement.       *)
THEOREM StageBestIsKept == Spec => BestIsKept
  <1>1. GrainInv /\ [Next]_vars =>
          [lost = 0 => \A s \in DOMAIN rows :
             /\ s \in DOMAIN rows'
             /\ rows[s].missions \subseteq rows'[s].missions
             /\ rows[s].score <= rows'[s].score]_vars
    BY ClearKeepsBest DEF AsGood
  <1> QED
    BY <1>1, InitGrain, StepKeepsGrain, PTL DEF Spec, BestIsKept

-----------------------------------------------------------------------------
(* The record of the level grain's running request. *)
LEMMA LevelTurnFields ==
    ASSUME L!TypeOK, lturn # L!Idle
    PROVE  /\ lturn \in L!Turn /\ lturn.gain \in Nat /\ lturn.new \in L!Standing
           /\ lturn.from = Grain /\ lturn.live \in BOOLEAN
           /\ lturn.pc \in {"await", "ok", "norow", "failed"}
           /\ lturn.stmt \in {"insert", "update"}
  <1>1. lturn \in L!Turn
    BY DEF L!TypeOK
  <1>2. /\ lturn.gain \in {RewardExp[s] : s \in Stages} /\ lturn.new \in L!Standing
        /\ lturn.from \in {Grain} /\ lturn.live \in BOOLEAN
        /\ lturn.pc \in {"await", "ok", "norow", "failed"}
        /\ lturn.stmt \in {"insert", "update"}
    BY <1>1 DEF L!Turn
  <1> QED
    BY <1>1, <1>2, StageAssumption

LEMMA InitLevel == Init => LevelInv
  <1> SUFFICES ASSUME Init PROVE LevelInv
    OBVIOUS
  <1> USE DEF Init, L!Init, L!NoCache, L!Idle
  <1>1. L!TypeOK
    BY DEF L!TypeOK
  <1>2. LevelTurnOK /\ LevelCurrent /\ ExpIsCounted
    BY DEF LevelTurnOK, LevelCurrent, ExpIsCounted, L!ExpIsCounted
  <1> QED
    BY <1>1, <1>2 DEF LevelInv


(* What the grain's callers, its queue or another grain's loss change. *)
LEMMA CoreKeepsLevel ==
    ASSUME LevelInv, UNCHANGED <<lrows, lcache, lact, lgained>>,
           \/ lturn' = lturn
           \/ lturn # L!Idle /\ lturn' = [lturn EXCEPT !.live = FALSE],
           lreqs' \subseteq L!Request, lreps' \subseteq L!Reply,
           lost' \in Nat, lost' = 0 => lost = 0
    PROVE  LevelInv'
  <1>1. CASE lturn' = lturn
    <2>1. L!TypeOK' /\ LevelTurnOK' /\ LevelCurrent' /\ ExpIsCounted'
      BY <1>1 DEF LevelInv, L!TypeOK, LevelTurnOK, LevelCurrent, ExpIsCounted, L!ExpIsCounted
    <2> QED
      BY <2>1 DEF LevelInv
  <1>2. CASE lturn # L!Idle /\ lturn' = [lturn EXCEPT !.live = FALSE]
    <2>1. lturn \in L!Turn
      BY <1>2, LevelTurnFields DEF LevelInv
    <2>2. /\ lturn' \in L!Turn /\ lturn' # L!Idle /\ lturn'.pc = lturn.pc
          /\ lturn'.stmt = lturn.stmt /\ lturn'.gain = lturn.gain /\ lturn'.new = lturn.new
      BY <1>2, <2>1 DEF L!Turn, L!Idle
    <2>3. L!TypeOK'
      BY <2>2 DEF LevelInv, L!TypeOK
    <2>4. LevelTurnOK' /\ LevelCurrent' /\ ExpIsCounted'
      BY <1>2, <2>2 DEF LevelInv, LevelTurnOK, LevelCurrent, ExpIsCounted, L!ExpIsCounted
    <2> QED
      BY <2>3, <2>4 DEF LevelInv
  <1> QED
    BY <1>1, <1>2

LEMMA LevelCallersKeep ==
    ASSUME LevelInv,
           \/ \E m \in L!Request : L!Send(m)
           \/ L!Receive(Grain) \/ L!TimeOut(Grain)
           \/ L!ActivateFails
    PROVE  LevelInv'
  <1>1. /\ UNCHANGED <<lrows, lcache, lact, lgained, lost>>
        /\ lreqs' \subseteq L!Request /\ lreps' \subseteq L!Reply
        /\ \/ lturn' = lturn
           \/ lturn # L!Idle /\ lturn' = [lturn EXCEPT !.live = FALSE]
    BY DEF LevelInv, L!TypeOK, L!Send, L!Receive, L!TimeOut, L!ActivateFails, L!Request,
           L!Reply, L!ResultCode
  <1>2. lost' \in Nat
    BY <1>1 DEF LevelInv, L!TypeOK
  <1> QED
    BY <1>1, <1>2, CoreKeepsLevel

(* The activation takes the row, or level one when there is none. *)
LEMMA LevelActivateKeeps ==
    ASSUME LevelInv, L!Activate
    PROVE  LevelInv'
  <1>1. /\ UNCHANGED <<lrows, lturn, lreqs, lreps, lgained, lost>>
        /\ lact' /\ lturn = L!Idle /\ lturn.pc = "idle"
    BY DEF LevelInv, LevelTurnOK, L!Activate, L!Idle
  <1>2. CASE lrows = {} /\ lcache' = L!NoCache
    <2>1. L!TypeOK' /\ LevelTurnOK' /\ LevelCurrent' /\ ExpIsCounted'
      BY <1>1, <1>2 DEF LevelInv, L!TypeOK, LevelTurnOK, LevelCurrent, ExpIsCounted,
                        L!ExpIsCounted, L!NoCache
    <2> QED
      BY <2>1 DEF LevelInv
  <1>3. ASSUME NEW r \in lrows, lcache' = [lvl |-> r.lvl, exp |-> r.exp, exists |-> TRUE]
        PROVE  LevelInv'
    <2>1. r \in L!Standing /\ lrows = {r}
      BY DEF LevelInv, L!TypeOK, LevelTurnOK
    <2>2. /\ lcache'.lvl \in Nat /\ lcache'.exp \in Nat /\ lcache'.exists = TRUE
          /\ r = [lvl |-> lcache'.lvl, exp |-> lcache'.exp]
      BY <1>3, <2>1 DEF L!Standing
    <2>3. L!TypeOK'
      BY <1>1, <2>2 DEF LevelInv, L!TypeOK
    <2>4. LevelTurnOK' /\ LevelCurrent' /\ ExpIsCounted'
      BY <1>1, <2>1, <2>2
         DEF LevelInv, LevelTurnOK, LevelCurrent, ExpIsCounted, L!ExpIsCounted
    <2> QED
      BY <2>3, <2>4 DEF LevelInv
  <1> QED
    BY <1>2, <1>3 DEF L!Activate

(* A request that starts climbs from the cache, or inserts level one. *)
LEMMA LevelBeginKeeps ==
    ASSUME LevelInv, NEW m \in lreqs, L!Begin(m)
    PROVE  LevelInv'
  <1>1. /\ m \in L!Request /\ m.from = Grain /\ m.exp \in {RewardExp[s] : s \in Stages}
        /\ m.exp \in Nat
        /\ lturn = L!Idle /\ lact /\ UNCHANGED <<lrows, lcache, lact, lgained, lost>>
        /\ lreqs' \subseteq L!Request
    BY StageAssumption DEF LevelInv, L!TypeOK, L!Begin, L!Request
  <1>2. CASE lturn' = lturn
    <2>1. lreps' = lreps \/ lreps' = L!Answer(m.from, "InvalidParameter")
      BY DEF L!Begin
    <2>2. [from |-> m.from, res |-> "InvalidParameter"] \in L!Reply
      BY <1>1 DEF L!Reply, L!ResultCode
    <2>3. lreps' \subseteq L!Reply /\ lost' \in Nat
      BY <1>1, <2>1, <2>2 DEF LevelInv, L!TypeOK, L!Answer
    <2> QED
      BY <1>1, <1>2, <2>3, CoreKeepsLevel
  <1>3. CASE /\ UNCHANGED lreps
             /\ lturn' = IF lcache.exists THEN L!Updating(m.from, TRUE, m.exp)
                         ELSE L!Inserting(m)
    <2>1. lcache.lvl \in Nat /\ lcache.exp + m.exp \in Nat /\ lcache.exists \in BOOLEAN
      BY <1>1 DEF LevelInv, L!TypeOK
    <2>2. L!Climb(lcache.lvl, lcache.exp + m.exp) \in L!Standing
      BY <2>1, ClimbTyped
    <2>3. CASE lcache.exists
      <3>1. /\ lturn' \in L!Turn /\ lturn' # L!Idle /\ lturn'.pc = "await"
            /\ lturn'.stmt = "update" /\ lturn'.gain = m.exp
            /\ lturn'.new = L!Climb(lcache.lvl, lcache.exp + m.exp)
        BY <1>1, <1>3, <2>2, <2>3 DEF L!Updating, L!Turn, L!Idle
      <3>2. L!TypeOK'
        BY <1>1, <1>3, <3>1 DEF LevelInv, L!TypeOK
      <3>3. LevelTurnOK' /\ LevelCurrent' /\ ExpIsCounted'
        BY <1>1, <2>3, <3>1
           DEF LevelInv, LevelTurnOK, LevelCurrent, ExpIsCounted, L!ExpIsCounted, L!Idle
      <3> QED
        BY <3>2, <3>3 DEF LevelInv
    <2>4. CASE ~lcache.exists
      <3>1. lcache = L!NoCache /\ lcache.lvl = 1
        BY <2>4 DEF LevelInv, LevelTurnOK, L!NoCache
      <3>2. /\ lturn' \in L!Turn /\ lturn' # L!Idle /\ lturn'.pc = "await"
            /\ lturn'.stmt = "insert" /\ lturn'.gain = m.exp
            /\ lturn'.new = [lvl |-> 1, exp |-> 0]
        BY <1>1, <1>3, <2>4, <3>1 DEF L!Inserting, L!Turn, L!Idle, L!Standing
      <3>3. L!TypeOK'
        BY <1>1, <1>3, <3>2 DEF LevelInv, L!TypeOK
      <3>4. LevelTurnOK' /\ LevelCurrent' /\ ExpIsCounted'
        BY <1>1, <2>4, <3>2
           DEF LevelInv, LevelTurnOK, LevelCurrent, ExpIsCounted, L!ExpIsCounted, L!Idle
      <3> QED
        BY <3>3, <3>4 DEF LevelInv
    <2> QED
      BY <2>1, <2>3, <2>4
  <1> QED
    BY <1>2, <1>3 DEF L!Begin

(* The statement: what it writes is a climb with all the experience there is,
   as long as the cache it was computed from is the row.                   *)
LEMMA LevelWrites ==
    ASSUME LevelInv, lturn.pc = "await"
    PROVE  /\ lturn # L!Idle /\ lact /\ lturn.new \in L!Standing
           /\ L!GainApplied \in Nat
           /\ lost = 0 => lturn.new = L!Climb(1, L!GainApplied)
  <1>1. /\ lturn # L!Idle /\ lact /\ lturn.new \in L!Standing /\ lturn.gain \in Nat
        /\ lturn.stmt \in {"insert", "update"} /\ (lturn.stmt = "update" <=> lcache.exists)
    BY LevelTurnFields DEF LevelInv, LevelTurnOK, L!Idle
  <1>2. lgained \in Nat /\ L!GainApplied \in Nat
    BY <1>1 DEF LevelInv, L!TypeOK, L!GainApplied
  <1>3. ASSUME lost = 0, lturn.stmt = "insert"
        PROVE  lturn.new = L!Climb(1, L!GainApplied)
    <2>1. lturn.new = [lvl |-> 1, exp |-> 0] /\ lgained = 0 /\ L!GainApplied = 0
      BY <1>1, <1>3 DEF LevelInv, LevelTurnOK, LevelCurrent, L!GainApplied
    <2>2. L!Climb(1, 0) = [lvl |-> 1, exp |-> 0]
      BY ClimbUnfolds, LevelTable
    <2> QED
      BY <2>1, <2>2
  <1>4. ASSUME lost = 0, lturn.stmt = "update"
        PROVE  lturn.new = L!Climb(1, L!GainApplied)
    <2>1. /\ lturn.new = L!Climb(lcache.lvl, lcache.exp + lturn.gain)
          /\ lrows = {[lvl |-> lcache.lvl, exp |-> lcache.exp]}
          /\ L!GainApplied = lgained + lturn.gain
      BY <1>1, <1>4 DEF LevelInv, LevelCurrent, L!GainApplied
    <2>2. [lvl |-> lcache.lvl, exp |-> lcache.exp] = L!Climb(1, lgained)
      BY <1>4, <2>1 DEF LevelInv, ExpIsCounted, L!ExpIsCounted
    <2>3. L!Climb(1, lgained).lvl = lcache.lvl /\ L!Climb(1, lgained).exp = lcache.exp
      BY <2>2
    <2>4. L!Climb(L!Climb(1, lgained).lvl, L!Climb(1, lgained).exp + lturn.gain)
            = L!Climb(1, lgained + lturn.gain)
      BY <1>1, <1>2, ClimbSplits
    <2> QED
      BY <2>1, <2>3, <2>4
  <1> QED
    BY <1>1, <1>2, <1>3, <1>4

LEMMA LevelAppliedKeeps ==
    ASSUME LevelInv, lturn.pc = "await", lrows' = {lturn.new}, lgained' = L!GainApplied,
           UNCHANGED <<lcache, lact, lreqs, lreps>>,
           lost' \in Nat, lost' = 0 => lost = 0,
           \/ lturn' = [lturn EXCEPT !.pc = "ok"]
           \/ lturn' = [lturn EXCEPT !.pc = "failed"] /\ lost' # 0
    PROVE  LevelInv'
  <1>1. /\ lturn # L!Idle /\ lact /\ lturn.new \in L!Standing
        /\ L!GainApplied \in Nat
        /\ lost = 0 => lturn.new = L!Climb(1, L!GainApplied)
        /\ lturn \in L!Turn
    BY LevelWrites, LevelTurnFields DEF LevelInv
  <1>2. /\ lturn' \in L!Turn /\ lturn' # L!Idle /\ lturn'.stmt = lturn.stmt
        /\ lturn'.new = lturn.new /\ lturn'.pc \in {"ok", "failed"}
        /\ lturn'.pc = "failed" => lost' # 0
    BY <1>1 DEF L!Turn, L!Idle
  <1>3. L!TypeOK'
    BY <1>1, <1>2 DEF LevelInv, L!TypeOK
  <1>4. LevelTurnOK'
    BY <1>1, <1>2 DEF LevelInv, LevelTurnOK
  <1>5. LevelCurrent'
    BY <1>2 DEF LevelCurrent
  <1>6. ExpIsCounted'
    BY <1>1 DEF ExpIsCounted, L!ExpIsCounted
  <1> QED
    BY <1>3, <1>4, <1>5, <1>6 DEF LevelInv

LEMMA LevelUnappliedKeeps ==
    ASSUME LevelInv, lturn.pc = "await", UNCHANGED <<lrows, lcache, lact, lreqs, lreps, lgained, lost>>,
           NEW pc \in {"norow", "failed"}, lturn' = [lturn EXCEPT !.pc = pc]
    PROVE  LevelInv'
  <1>1. lturn # L!Idle /\ lact /\ lturn \in L!Turn
    BY LevelWrites, LevelTurnFields DEF LevelInv
  <1>2. /\ lturn' \in L!Turn /\ lturn' # L!Idle /\ lturn'.stmt = lturn.stmt
        /\ lturn'.new = lturn.new /\ lturn'.pc = pc
    BY <1>1 DEF L!Turn, L!Idle
  <1>3. L!TypeOK'
    BY <1>2 DEF LevelInv, L!TypeOK
  <1>4. LevelTurnOK' /\ LevelCurrent' /\ ExpIsCounted'
    BY <1>1, <1>2 DEF LevelInv, LevelTurnOK, LevelCurrent, ExpIsCounted, L!ExpIsCounted
  <1> QED
    BY <1>3, <1>4 DEF LevelInv

LEMMA LevelStatementKeeps ==
    ASSUME LevelInv, L!Apply \/ L!Fail \/ L!LoseAck
    PROVE  LevelInv'
  <1>1. lost \in Nat
    BY DEF LevelInv, L!TypeOK
  <1>2. CASE L!Apply
    <2>1. lturn.pc = "await" /\ UNCHANGED <<lcache, lact, lreqs, lreps, lost>>
      BY <1>2 DEF L!Apply
    <2>2. CASE L!Affected
      BY <1>1, <1>2, <2>1, <2>2, LevelAppliedKeeps DEF L!Apply
    <2>3. CASE ~L!Affected
      <3>1. lturn' = [lturn EXCEPT !.pc = "norow"] /\ UNCHANGED <<lrows, lgained>>
        BY <1>2, <2>3 DEF L!Apply
      <3> QED
        BY <2>1, <3>1, LevelUnappliedKeeps
    <2> QED
      BY <2>2, <2>3
  <1>3. CASE L!Fail
    BY <1>3, LevelUnappliedKeeps DEF L!Fail
  <1>4. CASE L!LoseAck
    <2>1. lost' \in Nat /\ lost' # 0
      BY <1>1, <1>4 DEF L!LoseAck
    <2> QED
      BY <1>4, <2>1, LevelAppliedKeeps DEF L!LoseAck
  <1> QED
    BY <1>2, <1>3, <1>4

(* After its INSERT the request climbs, from the row it inserted. *)
LEMMA LevelInsertedKeeps ==
    ASSUME LevelInv, L!Inserted
    PROVE  LevelInv'
  <1>1. /\ lturn # L!Idle /\ lturn.stmt = "insert" /\ lturn.pc = "ok" /\ lact
        /\ UNCHANGED <<lrows, lact, lreqs, lreps, lgained, lost>>
        /\ lrows = {lturn.new} /\ ~lcache.exists /\ lcache = L!NoCache
    BY DEF LevelInv, LevelTurnOK, L!Inserted, L!Idle, L!Succeeded
  <1>2. /\ lturn \in L!Turn /\ lturn.from = Grain /\ lturn.live \in BOOLEAN
        /\ lturn.gain \in {RewardExp[s] : s \in Stages} /\ lturn.gain \in Nat
    BY <1>1, LevelTurnFields DEF LevelInv, L!Turn
  <1>3. lcache' = [lvl |-> 1, exp |-> 0, exists |-> TRUE]
    BY <1>1 DEF L!Inserted, L!NoCache
  <1>4. lcache.lvl = 1 /\ lcache.exp = 0
    BY <1>1 DEF L!NoCache
  <1>5. L!Climb(1, 0 + lturn.gain) \in L!Standing
    BY <1>2, ClimbTyped
  <1>6. lturn' = L!Updating(lturn.from, lturn.live, lturn.gain)
    BY DEF L!Inserted
  <1>7. /\ lturn' \in L!Turn /\ lturn' # L!Idle /\ lturn'.pc = "await"
        /\ lturn'.stmt = "update" /\ lturn'.gain = lturn.gain
        /\ lturn'.new = L!Climb(1, 0 + lturn.gain)
    BY <1>2, <1>4, <1>5, <1>6 DEF L!Updating, L!Turn, L!Idle
  <1>8. L!TypeOK'
    BY <1>1, <1>3, <1>7 DEF LevelInv, L!TypeOK
  <1>9. LevelTurnOK'
    BY <1>1, <1>3, <1>7 DEF LevelInv, LevelTurnOK
  <1>10. LevelCurrent'
    <2>1. lturn.new = [lvl |-> 1, exp |-> 0]
      BY <1>1 DEF LevelInv, LevelTurnOK
    <2> QED
      BY <1>1, <1>3, <1>7, <2>1 DEF LevelCurrent
  <1>11. ExpIsCounted'
    BY <1>1 DEF LevelInv, ExpIsCounted, L!ExpIsCounted
  <1> QED
    BY <1>8, <1>9, <1>10, <1>11 DEF LevelInv

(* The answer is back: the cache takes what the row took. *)
LEMMA LevelResumeKeeps ==
    ASSUME LevelInv, L!Resume
    PROVE  LevelInv'
  <1>1. /\ lturn # L!Idle /\ lturn' = L!Idle /\ lturn'.pc = "idle" /\ lact
        /\ UNCHANGED <<lrows, lact, lreqs, lgained, lost>>
    BY DEF LevelInv, LevelTurnOK, L!Resume, L!Idle
  <1>2. lturn.from = Grain /\ lturn.new \in L!Standing
    BY <1>1, LevelTurnFields DEF LevelInv
  <1>3. lreps' \subseteq L!Reply
    <2>1. \A res \in L!ResultCode : [from |-> lturn.from, res |-> res] \in L!Reply
      BY <1>2 DEF L!Reply
    <2>2. \E res \in L!ResultCode : lreps' = lreps \/ lreps' = L!Answer(lturn.from, res)
      <3>1. CASE ~lturn.live
        BY <3>1 DEF L!Resume, L!ResultCode
      <3>2. CASE lturn.live
        BY <3>2 DEF L!Resume, L!ResultCode
      <3> QED
        BY <3>1, <3>2
    <2> QED
      BY <2>1, <2>2 DEF LevelInv, L!TypeOK, L!Answer
  <1>4. CASE lturn.pc = "ok"
    <2>1. /\ lcache' = [lvl |-> lturn.new.lvl, exp |-> lturn.new.exp, exists |-> TRUE]
          /\ lrows = {lturn.new}
      BY <1>4 DEF L!Resume, L!Succeeded, LevelInv, LevelTurnOK
    <2>2. /\ lcache'.lvl \in Nat /\ lcache'.exp \in Nat /\ lcache'.exists = TRUE
          /\ lturn.new = [lvl |-> lcache'.lvl, exp |-> lcache'.exp]
      BY <1>2, <2>1 DEF L!Standing
    <2>3. L!TypeOK'
      BY <1>1, <1>3, <2>2 DEF LevelInv, L!TypeOK
    <2>4. LevelTurnOK' /\ LevelCurrent' /\ ExpIsCounted'
      BY <1>1, <2>1, <2>2 DEF LevelInv, LevelTurnOK, LevelCurrent, ExpIsCounted, L!ExpIsCounted
    <2> QED
      BY <2>3, <2>4 DEF LevelInv
  <1>5. CASE lturn.pc # "ok"
    <2>1. lcache' = lcache
      BY <1>5 DEF L!Resume, L!Succeeded
    <2>2. L!TypeOK'
      BY <1>1, <1>3, <2>1 DEF LevelInv, L!TypeOK
    <2>3. LevelTurnOK' /\ LevelCurrent' /\ ExpIsCounted'
      BY <1>1, <1>5, <2>1
         DEF LevelInv, LevelTurnOK, LevelCurrent, ExpIsCounted, L!ExpIsCounted
    <2> QED
      BY <2>2, <2>3 DEF LevelInv
  <1> QED
    BY <1>4, <1>5

(* A collected or crashed activation; the statement it had sent may run. *)
LEMMA LevelDropKeeps ==
    ASSUME LevelInv, L!Deactivate \/ L!Crash
    PROVE  LevelInv'
  <1>1. /\ lact' = FALSE /\ lcache' = L!NoCache /\ lturn' = L!Idle /\ lturn'.pc = "idle"
        /\ lreqs' \subseteq lreqs /\ lreps' \subseteq lreps /\ lost' = lost
    BY DEF L!Deactivate, L!Crash, L!Idle
  <1>2. /\ lcache'.lvl \in Nat /\ lcache'.exp \in Nat /\ lcache'.exists = FALSE
    BY <1>1 DEF L!NoCache
  <1>3. CASE UNCHANGED <<lrows, lgained>>
    <2>1. L!TypeOK'
      BY <1>1, <1>2, <1>3 DEF LevelInv, L!TypeOK
    <2>2. LevelTurnOK' /\ LevelCurrent' /\ ExpIsCounted'
      BY <1>1, <1>2, <1>3
         DEF LevelInv, LevelTurnOK, LevelCurrent, ExpIsCounted, L!ExpIsCounted
    <2> QED
      BY <2>1, <2>2 DEF LevelInv
  <1>4. CASE lturn.pc = "await" /\ lrows' = {lturn.new} /\ lgained' = L!GainApplied
    <2>1. /\ lturn.new \in L!Standing /\ L!GainApplied \in Nat
          /\ lost = 0 => lturn.new = L!Climb(1, L!GainApplied)
      BY <1>4, LevelWrites
    <2>2. L!TypeOK'
      BY <1>1, <1>2, <1>4, <2>1 DEF LevelInv, L!TypeOK
    <2>3. LevelTurnOK' /\ LevelCurrent' /\ ExpIsCounted'
      BY <1>1, <1>2, <1>4, <2>1
         DEF LevelInv, LevelTurnOK, LevelCurrent, ExpIsCounted, L!ExpIsCounted
    <2> QED
      BY <2>2, <2>3 DEF LevelInv
  <1> QED
    BY <1>3, <1>4 DEF L!Deactivate, L!Crash

\* Another grain's acknowledgement may be lost, or nothing happens here.
LossElsewhere == UNCHANGED lost \/ (lost < MaxLost /\ lost' = lost + 1)

LEMMA LevelStepKeeps ==
    ASSUME LevelInv, L!Next \/ (UNCHANGED levelVars /\ LossElsewhere)
    PROVE  LevelInv'
  <1>1. CASE L!Next
    BY <1>1, LevelCallersKeep, LevelActivateKeeps, LevelBeginKeeps, LevelStatementKeeps,
       LevelInsertedKeeps, LevelResumeKeeps, LevelDropKeeps
       DEF L!Next, L!Serve, L!Fault
  <1>2. CASE UNCHANGED levelVars /\ LossElsewhere
    <2>1. /\ UNCHANGED <<lrows, lcache, lact, lturn, lreqs, lreps, lgained>>
          /\ lost' \in Nat /\ (lost' = 0 => lost = 0)
      BY <1>2 DEF levelVars, LossElsewhere, LevelInv, L!TypeOK
    <2>2. lreqs' \subseteq L!Request /\ lreps' \subseteq L!Reply
      BY <2>1 DEF LevelInv, L!TypeOK
    <2> QED
      BY <2>1, <2>2, CoreKeepsLevel
  <1> QED
    BY <1>1, <1>2

-----------------------------------------------------------------------------
(* Every step of the system is, for each grain that is called, one of its
   own or none; what the stage grain asks is of the types they take.       *)
LEMMA CallsTyped ==
    ASSUME NEW s \in Stages
    PROVE  /\ [from |-> Grain, cost |-> StaminaCost[s]] \in SP!Request
           /\ [from |-> Grain, exp |-> RewardExp[s]] \in L!Request
           /\ [from |-> Grain, op |-> "Add", cur |-> RewardCurrency[s],
               amt |-> RewardAmount[s]] \in WP!Request
  BY StageAssumption DEF SP!Request, L!Request, WP!Request, amounts

LEMMA StaminaSteps ==
    /\ S!Init => SP!Init
    /\ \A m \in SP!Request : S!Send(m) => SP!Next
    /\ S!Receive(Grain) \/ S!TimeOut(Grain) => SP!Next
    /\ S!Serve \/ S!Tick \/ S!Fault \/ S!Crash => SP!Next
  <1> USE DEF S!Idle, SP!Idle, S!NoCache, SP!NoCache, S!Answer, SP!Answer, S!Conflict,
              SP!Conflict, S!Affected, SP!Affected
  <1>1. S!Init => SP!Init
    BY DEF S!Init, SP!Init
  <1>2. \A m : S!Send(m) <=> SP!Send(m)
    BY DEF S!Send, SP!Send, S!Calling, SP!Calling
  <1>3. (S!Receive(Grain) <=> SP!Receive(Grain)) /\ (S!TimeOut(Grain) <=> SP!TimeOut(Grain))
    BY DEF S!Receive, SP!Receive, S!TimeOut, SP!TimeOut
  <1>4. /\ S!Activate <=> SP!Activate
        /\ S!Deactivate <=> SP!Deactivate
        /\ S!Tick <=> SP!Tick
    BY DEF S!Activate, SP!Activate, S!Deactivate, SP!Deactivate, S!Tick, SP!Tick
  <1>5. \A m : S!Begin(m) <=> SP!Begin(m)
    BY DEF S!Begin, SP!Begin, S!Covers, SP!Covers, S!Submit, SP!Submit,
           S!RecoveredAmount, SP!RecoveredAmount, S!RecoveredAt, SP!RecoveredAt,
           S!Intervals, SP!Intervals
  <1>6. /\ S!Apply <=> SP!Apply
        /\ S!LoseAck <=> SP!LoseAck
        /\ S!Crash <=> SP!Crash
        /\ S!Fail <=> SP!Fail
    BY DEF S!Apply, SP!Apply, S!LoseAck, SP!LoseAck, S!Crash, SP!Crash, S!Fail, SP!Fail
  <1>7. (S!Resume <=> SP!Resume) /\ (S!ActivateFails <=> SP!ActivateFails)
    BY DEF S!Resume, SP!Resume, S!Succeeded, SP!Succeeded, S!ActivateFails, SP!ActivateFails
  <1> QED
    BY <1>1, <1>2, <1>3, <1>4, <1>5, <1>6, <1>7
       DEF SP!Next, SP!Serve, S!Serve, SP!Fault, S!Fault

LEMMA WalletSteps ==
    /\ W!Init => WP!Init
    /\ \A m \in WP!Request : W!Send(m) => WP!Next
    /\ W!Receive(Grain) \/ W!TimeOut(Grain) => WP!Next
    /\ W!Serve \/ W!Fault \/ W!Crash => WP!Next
  <1> USE DEF W!Idle, WP!Idle, W!NoCache, WP!NoCache, W!Balance, WP!Balance, W!Answer, WP!Answer
  <1>1. W!Init => WP!Init
    BY DEF W!Init, WP!Init
  <1>2. \A m : W!Send(m) <=> WP!Send(m)
    BY DEF W!Send, WP!Send, W!Calling, WP!Calling
  <1>3. (W!Receive(Grain) <=> WP!Receive(Grain)) /\ (W!TimeOut(Grain) <=> WP!TimeOut(Grain))
    BY DEF W!Receive, WP!Receive, W!TimeOut, WP!TimeOut
  <1>4. (W!Activate <=> WP!Activate) /\ (W!Deactivate <=> WP!Deactivate)
    BY DEF W!Activate, WP!Activate, W!Deactivate, WP!Deactivate
  <1>5. \A m : W!Begin(m) <=> WP!Begin(m)
    BY DEF W!Begin, WP!Begin, W!AnswerAtOnce, WP!AnswerAtOnce, W!Submit, WP!Submit,
           W!IsEnough, WP!IsEnough, W!Covers, WP!Covers, W!AddAmount, WP!AddAmount,
           W!Awaiting, WP!Awaiting
  <1>6. /\ W!Apply <=> WP!Apply
        /\ W!LoseAck <=> WP!LoseAck
        /\ W!Crash <=> WP!Crash
    BY DEF W!Apply, WP!Apply, W!LoseAck, WP!LoseAck, W!Crash, WP!Crash,
           W!Updated, WP!Updated, W!Taken, WP!Taken
  <1>7. W!Resume <=> WP!Resume
    BY DEF W!Resume, WP!Resume, W!Succeeded, WP!Succeeded, W!SetBalance, WP!SetBalance
  <1>8. (W!ActivateFails <=> WP!ActivateFails) /\ (W!Fail <=> WP!Fail)
    BY DEF W!ActivateFails, WP!ActivateFails, W!Fail, WP!Fail
  <1> QED
    BY <1>1, <1>2, <1>3, <1>4, <1>5, <1>6, <1>7, <1>8
       DEF WP!Next, WP!Serve, W!Serve, WP!Fault, W!Fault

LEMMA LevelSteps ==
    /\ \A m \in L!Request : L!Send(m) => L!Next
    /\ L!Receive(Grain) \/ L!TimeOut(Grain) => L!Next
    /\ L!Serve \/ L!Fault \/ L!Crash => L!Next
  BY DEF L!Next


(* What each step of the system is for the stamina grain. *)
LEMMA StaminaMoves ==
    ASSUME GrainInv, [Next]_vars
    PROVE  \/ /\ turn = Idle /\ UNCHANGED <<due, faults>>
              /\ \E s \in Stages : CallStamina(s) /\ turn' = [pc |-> "stamina", stage |-> s]
           \/ Consumed
           \/ /\ turn.pc = "stamina" /\ S!TimeOut(Grain)
              /\ turn' = Idle /\ UNCHANGED due /\ faults' # 0
           \/ S!Crash /\ turn' = Idle /\ UNCHANGED due /\ faults' # 0
           \/ (S!Serve \/ S!Tick) /\ UNCHANGED <<turn, due, faults>>
           \/ S!Fault /\ UNCHANGED <<turn, due>> /\ faults' # 0
           \/ S!Conflict /\ S!Fail /\ UNCHANGED <<turn, due, faults>>
           \/ /\ UNCHANGED <<staminaVars, due>> /\ LossElsewhere
              /\ (turn.pc = "stamina" \/ turn'.pc = "stamina") => turn' = turn
  <1> USE DEF history, grainVars
  <1>0. faults \in Nat
    BY StageAssumption DEF GrainInv, GrainTyped
  <1>1. CASE Activate \/ Deactivate \/ Save \/ UNCHANGED vars
    <2>1. CASE Activate \/ UNCHANGED vars
      BY <2>1 DEF Activate, vars, LossElsewhere
    <2>2. CASE Deactivate
      BY <2>2 DEF Deactivate, LossElsewhere
    <2>3. CASE Save
      <3>1. turn \in [pc : {"await", "ok", "norow"}, stage : Stages, new : Result, had : BOOLEAN]
        BY <2>3, TurnFields DEF GrainInv, Save, Idle
      <3>2. turn'.pc \in {"ok", "norow"}
        BY <2>3, <3>1 DEF Save
      <3> QED
        BY <2>3, <3>2 DEF Save, LossElsewhere
    <2> QED
      BY <1>1, <2>1, <2>2, <2>3
  <1>2. CASE \E s \in StageIds : Enter(s) \/ \E r \in Reports : Clear(s, r)
    <2>1. PICK s \in StageIds : Enter(s) \/ \E r \in Reports : Clear(s, r)
      BY <1>2
    <2>2. CASE Enter(s)
      BY <2>2 DEF Enter, LossElsewhere
    <2>3. CASE \E r \in Reports : Clear(s, r)
      BY <2>3 DEF Clear, LossElsewhere, Idle
    <2> QED
      BY <2>1, <2>2, <2>3
  <1>3. CASE Saved \/ Leveled \/ Paid
    <2>1. UNCHANGED <<staminaVars, due>>
      BY <1>3 DEF Saved, Leveled, Paid
    <2>2. UNCHANGED lost
      <3>1. \A s : CallLevel(s) \/ GrantCurrency(s) => UNCHANGED lost
        BY DEF CallLevel, GrantCurrency, CallWallet, L!Send, W!Send
      <3>2. W!Receive(Grain) \/ L!Receive(Grain) => UNCHANGED lost
        BY DEF L!Receive, W!Receive
      <3> QED
        BY <1>3, <3>1, <3>2 DEF Saved, Leveled, Paid
    <2>3. turn.pc # "stamina"
      BY <1>3 DEF Saved, Leveled, Paid
    <2>4. turn'.pc # "stamina"
      <3>1. turn # Idle
        BY <1>3 DEF Saved, Leveled, Paid, Idle
      <3>2. GrantCurrency(turn.stage) => turn'.pc # "stamina"
        BY <3>1, GrantMoves DEF GrainInv
      <3> QED
        BY <1>3, <3>2 DEF Saved, Leveled, Paid, EndTurn, Idle
    <2> QED
      BY <2>1, <2>2, <2>3, <2>4 DEF LossElsewhere
  <1>4. CASE Components
    <2>1. CASE (S!Serve \/ S!Tick) /\ UNCHANGED <<levelVars, walletVars, grainVars, faults>>
      BY <2>1
    <2>2. CASE L!Serve /\ UNCHANGED <<staminaVars, walletVars, grainVars, faults>>
      <3>1. UNCHANGED lost
        BY <2>2 DEF L!Serve, L!Activate, L!Deactivate, L!Begin, L!Apply, L!Inserted, L!Resume
      <3> QED
        BY <2>2, <3>1 DEF LossElsewhere
    <2>3. CASE W!Serve /\ UNCHANGED <<staminaVars, levelVars, grainVars, faults>>
      <3>1. UNCHANGED lost
        BY <2>3 DEF W!Serve, W!Activate, W!Deactivate, W!Begin, W!Apply, W!Resume
      <3> QED
        BY <2>3, <3>1 DEF LossElsewhere
    <2> QED
      BY <1>4, <2>1, <2>2, <2>3 DEF Components
  <1>5. CASE Faults
    <2>0. faults' # 0
      BY <1>0, <1>5 DEF Faults
    <2>1. CASE SaveFails \/ SaveLost
      BY <2>1 DEF SaveFails, SaveLost, LossElsewhere, EndTurn, Idle
    <2>2. CASE CallTimesOut
      <3>1. CASE turn.pc = "stamina" /\ S!TimeOut(Grain)
        BY <2>0, <2>2, <3>1 DEF CallTimesOut, EndTurn
      <3>2. CASE /\ turn.pc \in {"level", "wallet"} /\ UNCHANGED staminaVars
                 /\ L!TimeOut(Grain) \/ W!TimeOut(Grain)
        <4>1. UNCHANGED lost
          BY <3>2 DEF L!TimeOut, W!TimeOut
        <4> QED
          BY <2>2, <3>2, <4>1 DEF CallTimesOut, EndTurn, Idle, LossElsewhere
      <3> QED
        BY <2>2, <3>1, <3>2 DEF CallTimesOut
    <2>3. CASE Crash
      BY <2>0, <2>3 DEF Crash, EndTurn
    <2>4. CASE ComponentFails
      <3>1. L!Fault \/ W!Fault => LossElsewhere
        BY DEF L!Fault, L!ActivateFails, L!Fail, L!LoseAck, W!Fault, W!ActivateFails,
               W!Fail, W!LoseAck, LossElsewhere
      <3> QED
        BY <2>0, <2>4, <3>1 DEF ComponentFails
    <2> QED
      BY <1>5, <2>1, <2>2, <2>3, <2>4 DEF Faults
  <1>6. CASE Conflicts /\ UNCHANGED faults
    <2>1. CASE SaveFails
      BY <2>1 DEF SaveFails, EndTurn, Idle, LossElsewhere
    <2>2. CASE L!Fail /\ UNCHANGED <<staminaVars, walletVars, grainVars>>
      BY <2>2 DEF L!Fail, LossElsewhere
    <2> QED
      BY <1>6, <2>1, <2>2 DEF Conflicts
  <1>7. CASE Consumed
    BY <1>7
  <1> QED
    BY <1>1, <1>2, <1>3, <1>4, <1>5, <1>6, <1>7 DEF Next, GrainStep

(* Likewise for the level grain; without a failure, experience is earned
   exactly when there is as much to be asked for.                          *)
EarnedAsAsked ==
    /\ earned - Unasked <= earned' - Unasked'
    /\ faults' = 0 => earned - Unasked = earned' - Unasked'

LEMMA UnaskedTyped ==
    GrainTyped => Unasked \in Nat /\ earned \in Nat
  BY TurnFields DEF Unasked, GrainTyped, Idle

LEMMA AskedForNothing ==
    ASSUME GrainInv, UNCHANGED earned, turn'.pc = "ok" => turn' = turn,
           \/ turn.pc # "ok" \/ turn' = turn \/ RewardExp[turn.stage] = 0
           \/ faults' # 0
    PROVE  EarnedAsAsked
  <1>1. Unasked \in Nat /\ earned \in Nat
    BY UnaskedTyped DEF GrainInv
  <1>2. CASE turn' = turn
    <2>1. Unasked' = Unasked
      BY <1>2 DEF Unasked
    <2> QED
      BY <1>1, <2>1 DEF EarnedAsAsked
  <1>3. CASE turn' # turn
    <2>1. Unasked' = 0
      BY <1>3 DEF Unasked
    <2>2. Unasked = 0 \/ faults' # 0
      BY <1>3 DEF Unasked
    <2> QED
      BY <1>1, <2>1, <2>2 DEF EarnedAsAsked
  <1> QED
    BY <1>2, <1>3

LEMMA LevelMoves ==
    ASSUME GrainInv, [Next]_vars
    PROVE  \/ /\ turn.pc = "ok" /\ turn.stage \in Stages /\ UNCHANGED <<earned, faults>>
              /\ CallLevel(turn.stage) /\ turn' = [pc |-> "level", stage |-> turn.stage]
           \/ /\ turn.pc = "level" /\ L!Receive(Grain)
              /\ turn'.pc \in {"idle", "wallet"} /\ UNCHANGED <<earned, faults>>
           \/ /\ turn.pc = "level" /\ L!TimeOut(Grain)
              /\ turn' = Idle /\ UNCHANGED earned /\ faults' # 0
           \/ L!Crash /\ turn' = Idle /\ EarnedAsAsked /\ faults' # 0
           \/ L!Serve /\ UNCHANGED <<turn, earned, faults>>
           \/ L!Fault /\ UNCHANGED <<turn, earned>> /\ faults' # 0
           \/ L!Conflict /\ L!Fail /\ UNCHANGED <<turn, earned, faults>>
           \/ /\ UNCHANGED levelVars /\ LossElsewhere /\ EarnedAsAsked
              /\ (turn.pc = "level" \/ turn'.pc = "level") => turn' = turn
  <1> USE DEF history, grainVars
  <1>0. faults \in Nat /\ earned \in Nat /\ Unasked \in Nat
    BY StageAssumption, UnaskedTyped DEF GrainInv, GrainTyped
  <1>1. CASE Activate \/ Deactivate \/ Consumed \/ Paid \/ UNCHANGED vars
    <2>1. UNCHANGED <<levelVars, lost, earned>>
      BY <1>1 DEF Activate, Deactivate, Consumed, Paid, vars, S!Receive, W!Receive
    <2>2. turn' = turn \/ (turn' = Idle /\ turn.pc \in {"idle", "stamina", "wallet"})
      BY <1>1 DEF Activate, Deactivate, Consumed, Paid, vars, EndTurn
    <2>3. EarnedAsAsked
      BY <2>1, <2>2, AskedForNothing DEF Idle
    <2> QED
      BY <2>1, <2>2, <2>3 DEF LossElsewhere, Idle
  <1>2. CASE \E s \in StageIds : Enter(s) \/ \E r \in Reports : Clear(s, r)
    <2>1. PICK s \in StageIds : Enter(s) \/ \E r \in Reports : Clear(s, r)
      BY <1>2
    <2>2. UNCHANGED <<levelVars, lost, earned>>
      <3>1. \A x : CallStamina(x) => UNCHANGED lost
        BY DEF CallStamina, S!Send
      <3> QED
        BY <2>1, <3>1 DEF Enter, Clear
    <2>3. turn' = turn \/ (turn = Idle /\ turn'.pc \in {"stamina", "await"})
      BY <2>1 DEF Enter, Clear
    <2>4. EarnedAsAsked
      BY <2>2, <2>3, AskedForNothing DEF Idle
    <2> QED
      BY <2>2, <2>3, <2>4 DEF LossElsewhere, Idle
  <1>3. CASE Save
    <2>1. turn \in [pc : {"await", "ok", "norow"}, stage : Stages, new : Result, had : BOOLEAN]
      BY <1>3, TurnFields DEF GrainInv, Save, Idle
    <2>2. turn.pc = "await" /\ turn'.pc \in {"ok", "norow"} /\ turn'.stage = turn.stage
      BY <1>3, <2>1 DEF Save
    <2>3. EarnedAsAsked
      <3>1. CASE Affected
        <4>1. earned' = earned + RewardExp[turn.stage] /\ turn'.pc = "ok"
          BY <1>3, <2>1, <3>1 DEF Save, Written
        <4>2. RewardExp[turn.stage] \in Nat
          BY <2>1, StageAssumption
        <4>3. Unasked = 0 /\ Unasked' = RewardExp[turn.stage]
          BY <2>2, <4>1 DEF Unasked
        <4> QED
          BY <1>0, <4>1, <4>2, <4>3 DEF EarnedAsAsked
      <3>2. CASE ~Affected
        <4>1. UNCHANGED earned /\ turn'.pc = "norow"
          BY <1>3, <2>1, <3>2 DEF Save
        <4> QED
          BY <2>2, <4>1, AskedForNothing
      <3> QED
        BY <3>1, <3>2
    <2> QED
      BY <1>3, <2>2, <2>3 DEF Save, LossElsewhere
  <1>4. CASE Saved
    <2>1. turn # Idle /\ UNCHANGED <<earned, faults>>
      BY <1>4 DEF Saved, Idle
    <2>2. turn.stage \in Stages
      BY <2>1, TurnFields DEF GrainInv
    <2>3. CASE turn.pc = "norow" /\ EndTurn /\ UNCHANGED <<levelVars, walletVars, lost, cache>>
      <3>1. EarnedAsAsked
        BY <2>1, <2>3, AskedForNothing DEF EndTurn, Idle
      <3> QED
        BY <2>3, <3>1 DEF LossElsewhere, EndTurn, Idle
    <2>4. CASE /\ turn.pc = "ok" /\ CallLevel(turn.stage)
               /\ turn' = [pc |-> "level", stage |-> turn.stage]
      BY <2>1, <2>2, <2>4
    <2>5. CASE /\ turn.pc = "ok" /\ RewardExp[turn.stage] = 0
               /\ GrantCurrency(turn.stage) /\ UNCHANGED levelVars
      <3>1. turn'.pc \in {"idle", "wallet"}
        BY <2>1, <2>5, GrantMoves DEF GrainInv
      <3>2. UNCHANGED lost
        BY <2>5 DEF GrantCurrency, CallWallet, W!Send
      <3>3. EarnedAsAsked
        BY <2>1, <2>5, <3>1, AskedForNothing
      <3> QED
        BY <2>5, <3>1, <3>2, <3>3 DEF LossElsewhere
    <2> QED
      BY <1>4, <2>3, <2>4, <2>5 DEF Saved
  <1>5. CASE Leveled
    <2>1. turn.pc = "level" /\ L!Receive(Grain) /\ UNCHANGED <<earned, faults>>
      BY <1>5 DEF Leveled
    <2>2. turn' = Idle \/ GrantCurrency(turn.stage)
      BY <1>5 DEF Leveled, EndTurn
    <2>3. turn'.pc \in {"idle", "wallet"}
      BY <2>1, <2>2, GrantMoves DEF Idle, GrainInv
    <2> QED
      BY <2>1, <2>3
  <1>6. CASE Components
    <2>1. UNCHANGED <<turn, earned, faults>>
      BY <1>6 DEF Components
    <2>2. EarnedAsAsked
      BY <2>1, AskedForNothing
    <2>3. CASE L!Serve
      BY <2>1, <2>3
    <2>4. CASE (S!Serve \/ S!Tick) /\ UNCHANGED levelVars
      <3>1. UNCHANGED lost
        BY <2>4 DEF S!Serve, S!Activate, S!Deactivate, S!Begin, S!Apply, S!Resume, S!Tick
      <3> QED
        BY <2>1, <2>2, <2>4, <3>1 DEF LossElsewhere
    <2>5. CASE W!Serve /\ UNCHANGED levelVars
      <3>1. UNCHANGED lost
        BY <2>5 DEF W!Serve, W!Activate, W!Deactivate, W!Begin, W!Apply, W!Resume
      <3> QED
        BY <2>1, <2>2, <2>5, <3>1 DEF LossElsewhere
    <2> QED
      BY <1>6, <2>3, <2>4, <2>5 DEF Components
  <1>7. CASE Faults
    <2>0. faults' # 0
      BY <1>0, <1>7 DEF Faults
    <2>1. CASE SaveFails \/ SaveLost \/ Crash
      <3>1. earned' \in Nat /\ earned <= earned' /\ turn' = Idle
        <4>1. CASE UNCHANGED earned
          BY <1>0, <2>1, <4>1 DEF SaveFails, SaveLost, Crash, EndTurn
        <4>2. CASE turn.pc = "await" /\ Written
          <5>1. earned' = earned + RewardExp[turn.stage] /\ RewardExp[turn.stage] \in Nat
            BY <4>2, TurnFields DEF Written, GrainInv, Idle
          <5> QED
            BY <1>0, <2>1, <5>1 DEF SaveFails, SaveLost, Crash, EndTurn
        <4> QED
          BY <2>1, <4>1, <4>2 DEF SaveFails, SaveLost, Crash
      <3>2. Unasked' = 0
        BY <3>1 DEF Unasked, Idle
      <3>3. earned - Unasked <= earned' - Unasked'
        <4>1. \A e, u, f \in Nat : e <= f => e - u <= f - 0
          OBVIOUS
        <4> QED
          BY <1>0, <3>1, <3>2, <4>1
      <3>4. EarnedAsAsked
        BY <2>0, <3>3 DEF EarnedAsAsked
      <3> QED
        BY <2>0, <2>1, <3>1, <3>4 DEF SaveFails, SaveLost, Crash, LossElsewhere, Idle
    <2>2. CASE CallTimesOut
      <3>1. turn' = Idle /\ UNCHANGED earned
        BY <2>2 DEF CallTimesOut, EndTurn
      <3>2. CASE turn.pc = "level" /\ L!TimeOut(Grain)
        BY <2>0, <3>1, <3>2
      <3>3. CASE /\ turn.pc \in {"stamina", "wallet"} /\ UNCHANGED levelVars
                 /\ S!TimeOut(Grain) \/ W!TimeOut(Grain)
        <4>1. UNCHANGED lost
          BY <3>3 DEF S!TimeOut, W!TimeOut
        <4>2. EarnedAsAsked
          BY <3>1, <3>3, AskedForNothing DEF Idle
        <4> QED
          BY <3>1, <3>3, <4>1, <4>2 DEF Idle, LossElsewhere
      <3> QED
        BY <2>2, <3>2, <3>3 DEF CallTimesOut
    <2>3. CASE ComponentFails
      <3>1. S!Fault \/ W!Fault => LossElsewhere
        BY DEF S!Fault, S!ActivateFails, S!Fail, S!LoseAck, W!Fault, W!ActivateFails,
               W!Fail, W!LoseAck, LossElsewhere
      <3>2. UNCHANGED <<turn, earned>>
        BY <2>3 DEF ComponentFails
      <3>3. EarnedAsAsked
        BY <3>2, AskedForNothing
      <3> QED
        BY <2>0, <2>3, <3>1, <3>2, <3>3 DEF ComponentFails
    <2> QED
      BY <1>7, <2>1, <2>2, <2>3 DEF Faults
  <1>8. CASE Conflicts /\ UNCHANGED faults
    <2>1. CASE Conflict /\ SaveFails
      <3>1. turn' = Idle /\ UNCHANGED <<levelVars, lost, earned>> /\ turn.pc = "await"
        BY <2>1 DEF SaveFails, EndTurn
      <3>2. EarnedAsAsked
        BY <3>1, AskedForNothing DEF Idle
      <3> QED
        BY <3>1, <3>2 DEF Idle, LossElsewhere
    <2>2. CASE S!Fail /\ UNCHANGED <<levelVars, walletVars, grainVars>>
      <3>1. EarnedAsAsked
        BY <2>2, AskedForNothing
      <3> QED
        BY <2>2, <3>1 DEF S!Fail, LossElsewhere
    <2>3. CASE L!Conflict /\ L!Fail /\ UNCHANGED <<staminaVars, walletVars, grainVars>>
      BY <1>8, <2>3
    <2> QED
      BY <1>8, <2>1, <2>2, <2>3 DEF Conflicts
  <1> QED
    BY <1>1, <1>2, <1>3, <1>4, <1>5, <1>6, <1>7, <1>8 DEF Next, GrainStep

LEMMA WalletMoves ==
    ASSUME GrainInv, [Next]_vars
    PROVE  \/ WP!Next
           \/ UNCHANGED walletVars /\ LossElsewhere
  <1>1. CASE Activate \/ Deactivate \/ Save \/ Consumed \/ UNCHANGED vars
    BY <1>1 DEF Activate, Deactivate, Save, Consumed, vars, S!Receive, LossElsewhere
  <1>2. CASE \E s \in StageIds : Enter(s) \/ \E r \in Reports : Clear(s, r)
    <2>1. \A s : CallStamina(s) => UNCHANGED lost
      BY DEF CallStamina, S!Send
    <2> QED
      BY <1>2, <2>1 DEF Enter, Clear, LossElsewhere
  <1>3. CASE Saved \/ Leveled
    <2>1. turn # Idle
      BY <1>3 DEF Saved, Leveled, Idle
    <2>2. turn.stage \in Stages
      BY <2>1, TurnFields DEF GrainInv
    <2>3. CASE UNCHANGED walletVars
      <3>1. UNCHANGED lost
        <4>1. \A s : CallLevel(s) \/ GrantCurrency(s) => UNCHANGED lost
          BY DEF CallLevel, GrantCurrency, CallWallet, L!Send, W!Send
        <4> QED
          BY <1>3, <4>1 DEF Saved, Leveled, L!Receive
      <3> QED
        BY <2>3, <3>1 DEF LossElsewhere
    <2>4. CASE GrantCurrency(turn.stage)
      BY <2>2, <2>3, <2>4, CallsTyped, WalletSteps DEF GrantCurrency, CallWallet
    <2> QED
      BY <1>3, <2>3, <2>4 DEF Saved, Leveled
  <1>4. CASE Paid
    BY <1>4, WalletSteps DEF Paid
  <1>5. CASE Components
    BY <1>5, WalletSteps
       DEF Components, LossElsewhere, S!Serve, S!Activate, S!Deactivate, S!Begin, S!Apply,
           S!Resume, S!Tick, L!Serve, L!Activate, L!Deactivate, L!Begin, L!Apply,
           L!Inserted, L!Resume
  <1>6. CASE SaveFails \/ SaveLost
    BY <1>6 DEF SaveFails, SaveLost, LossElsewhere
  <1>7. CASE CallTimesOut \/ Crash
    BY <1>7, WalletSteps DEF CallTimesOut, Crash, S!TimeOut, L!TimeOut, LossElsewhere
  <1>8. CASE ComponentFails
    BY <1>8, WalletSteps
       DEF ComponentFails, S!Fault, S!ActivateFails, S!Fail, S!LoseAck, L!Fault,
           L!ActivateFails, L!Fail, L!LoseAck, LossElsewhere
  <1>9. CASE Conflicts
    BY <1>9 DEF Conflicts, SaveFails, S!Fail, L!Fail, LossElsewhere
  <1> QED
    BY <1>1, <1>2, <1>3, <1>4, <1>5, <1>6, <1>7, <1>8, <1>9 DEF Next, GrainStep, Faults

-----------------------------------------------------------------------------
(* So the grains that are called keep their invariants. *)
LEMMA InitComponents == Init => CInv
  BY InitGrain, InitLevel, StaminaSteps, WalletSteps, ComponentsAssumption, SP!InitInv,
     WP!InitInv
     DEF CInv, Init, W!WalletAssumption, S!StaminaAssumption

LEMMA StepKeepsComponents == CInv /\ [Next]_vars => CInv'
  <1> SUFFICES ASSUME CInv, [Next]_vars PROVE CInv'
    OBVIOUS
  <1> USE ComponentsAssumption DEF CInv, W!WalletAssumption, S!StaminaAssumption
  <1>1. GrainInv'
    BY StepKeepsGrain
  <1>2. LevelInv'
    <2>1. \A s \in Stages : CallLevel(s) => L!Next
      BY CallsTyped, LevelSteps DEF CallLevel
    <2>2. L!Next \/ (UNCHANGED levelVars /\ LossElsewhere)
      <3>1. L!Conflict /\ L!Fail => L!Next
        BY LevelSteps DEF L!Fault
      <3> QED
        BY <2>1, <3>1, LevelMoves, LevelSteps
    <2> QED
      BY <2>2, LevelStepKeeps
  <1>3. SP!IInv'
    <2>1. CASE SP!Next
      BY <2>1, SP!StepKeepsInv
    <2>2. CASE UNCHANGED staminaVars /\ LossElsewhere
      <3>1. lost \in Nat
        BY DEF GrainInv, LossIsFault
      <3>2. lost' \in Nat
        BY <2>2, <3>1 DEF LossElsewhere
      <3> QED
        BY <2>2, <3>2, SP!LossElsewhereKeepsInv DEF staminaVars
    <2>3. SP!Next \/ (UNCHANGED staminaVars /\ LossElsewhere)
      <3>1. \A s \in Stages : CallStamina(s) => SP!Next
        BY CallsTyped, StaminaSteps DEF CallStamina
      <3>2. Consumed => SP!Next
        BY StaminaSteps DEF Consumed
      <3>3. S!Conflict /\ S!Fail => SP!Next
        BY StaminaSteps DEF S!Fault
      <3> QED
        BY <3>1, <3>2, <3>3, StaminaMoves, StaminaSteps
    <2> QED
      BY <2>1, <2>2, <2>3
  <1>4. WP!IInv'
    <2>1. CASE WP!Next
      BY <2>1, WP!StepKeepsInv
    <2>2. CASE UNCHANGED walletVars /\ LossElsewhere
      <3>1. CASE lost < MaxLost /\ lost' = lost + 1
        BY <2>2, <3>1, WP!LossElsewhereKeepsInv DEF walletVars
      <3>2. CASE UNCHANGED lost
        BY <2>2, <3>2, WP!StepKeepsInv DEF walletVars, WP!wvars
      <3> QED
        BY <2>2, <3>1, <3>2 DEF LossElsewhere
    <2> QED
      BY <2>1, <2>2, WalletMoves
  <1> QED
    BY <1>1, <1>2, <1>3, <1>4

(* PlayerLevelGrain.AddExpAsync, called for every clear: until an
   acknowledgement is lost the level is the one reached by climbing once
   with all the experience, however failures, timeouts, restarts and the
   table's levels split it.                                                *)
THEOREM StageExpIsCounted == Spec => []ExpIsCounted
  <1>1. CInv => ExpIsCounted
    BY DEF CInv, LevelInv
  <1> QED
    BY <1>1, InitComponents, StepKeepsComponents, PTL DEF Spec

(* What the other grains' proofs say of their state, in this one's words. *)
LEMMA CalledTyped ==
    ASSUME CInv
    PROVE  S!TypeOK /\ L!TypeOK /\ W!TypeOK
  <1>1. S!TypeOK <=> SP!TypeOK
    BY DEF S!TypeOK, SP!TypeOK, S!Turn, SP!Turn, S!Idle, SP!Idle, S!Request, SP!Request,
           S!Reply, SP!Reply, S!ResultCode, SP!ResultCode, S!Stock, SP!Stock
  <1>2. W!TypeOK <=> WP!TypeOK
    BY DEF W!TypeOK, WP!TypeOK, W!Turn, WP!Turn, W!Idle, WP!Idle, W!Request, WP!Request,
           W!Reply, WP!Reply, W!ResultCode, WP!ResultCode
  <1> QED
    BY <1>1, <1>2 DEF CInv, SP!IInv, WP!IInv, LevelInv

(* PlayerStageGrain and the grains it calls keep their variables in their
   types; of stages it caches and writes those of the table only.          *)
THEOREM StageTypeOK == Spec => []TypeOK
  <1>1. CInv => TypeOK
    BY CalledTyped DEF CInv, GrainInv, GrainTyped, CacheBehind, TypeOK
  <1> QED
    BY <1>1, InitComponents, StepKeepsComponents, PTL DEF Spec

-----------------------------------------------------------------------------
(* The conversation with the stamina grain. *)
LEMMA StaminaFields ==
    ASSUME CInv
    PROVE  /\ sused \in Nat /\ due \in Nat /\ Owing \in Nat
           /\ turn.pc = "stamina" => StaminaCost[turn.stage] \in Nat
           /\ \A m \in sreqs : m \in S!Request /\ m.from = Grain
           /\ \A r \in sreps : r.from = Grain
           /\ sturn # S!Idle =>
                /\ sturn \in S!Turn /\ sturn.from = Grain /\ sturn.live \in BOOLEAN
                /\ sturn.cost \in Nat /\ sturn.pc \in {"await", "ok", "norow", "failed"}
  <1>1. S!TypeOK
    BY CalledTyped
  <1>2. turn.pc = "stamina" => StaminaCost[turn.stage] \in Nat
    BY TurnFields DEF CInv, GrainInv, Idle
  <1>3. sused \in Nat /\ due \in Nat /\ Owing \in Nat
    BY <1>1, <1>2 DEF S!TypeOK, CInv, GrainInv, GrainTyped, Owing
  <1>4. /\ \A m \in sreqs : m \in S!Request /\ m.from = Grain
        /\ \A r \in sreps : r.from = Grain
    BY <1>1 DEF S!TypeOK, S!Request, S!Reply
  <1>5. sturn # S!Idle =>
          /\ sturn \in S!Turn /\ sturn.from = Grain /\ sturn.live \in BOOLEAN
          /\ sturn.cost \in Nat /\ sturn.pc \in {"await", "ok", "norow", "failed"}
    <2> SUFFICES ASSUME sturn # S!Idle
                 PROVE  /\ sturn \in S!Turn /\ sturn.from = Grain /\ sturn.live \in BOOLEAN
                        /\ sturn.cost \in Nat
                        /\ sturn.pc \in {"await", "ok", "norow", "failed"}
      OBVIOUS
    <2>1. sturn \in S!Turn
      BY <1>1 DEF S!TypeOK
    <2>2. /\ sturn.from \in {Grain} /\ sturn.live \in BOOLEAN
          /\ sturn.cost \in {StaminaCost[s] : s \in Stages}
          /\ sturn.pc \in {"await", "ok", "norow", "failed"}
      BY <2>1 DEF S!Turn
    <2> QED
      BY <2>1, <2>2, StageAssumption
  <1> QED
    BY <1>2, <1>3, <1>4, <1>5

(* Nothing is said or taken: a statement's result, or another grain's step. *)
LEMMA StaminaSilentKeeps ==
    ASSUME PaidInv, faults' = 0 => faults = 0,
           UNCHANGED <<sreqs, sreps, sused, turn, due>>,
           \/ sturn' = sturn
           \/ /\ sturn # S!Idle /\ sturn' # S!Idle
              /\ sturn'.live = sturn.live /\ sturn'.cost = sturn.cost
    PROVE  StaminaCallOK' /\ DueOK'
  <1>1. (StaminaRuns' <=> StaminaRuns) /\ (sturn' # S!Idle <=> sturn # S!Idle)
    BY DEF StaminaRuns, S!Idle
  <1>2. StaminaRuns' => sturn'.cost = sturn.cost
    BY DEF StaminaRuns
  <1>3. Owing' = Owing
    BY DEF Owing
  <1>4. StaminaCallOK'
    BY <1>1, <1>2 DEF PaidInv, StaminaCallOK, StaminaRuns
  <1> QED
    BY <1>3, <1>4 DEF PaidInv, DueOK

(* Nobody waits for an answer, before the step or after it. *)
LEMMA StaminaAsideKeeps ==
    ASSUME PaidInv, faults' = 0 => faults = 0, UNCHANGED <<staminaVars, due>>,
           (turn.pc = "stamina" \/ turn'.pc = "stamina") => turn' = turn
    PROVE  StaminaCallOK' /\ DueOK'
  <1>1. CASE turn' = turn
    BY <1>1, StaminaSilentKeeps DEF staminaVars
  <1>2. CASE turn.pc # "stamina" /\ turn'.pc # "stamina"
    <2>1. sreqs = {} /\ ~StaminaRuns /\ sreps = {}
      BY <1>2 DEF PaidInv, StaminaCallOK
    <2>2. sreqs' = {} /\ ~StaminaRuns' /\ sreps' = {} /\ sturn' = sturn
      BY <2>1 DEF staminaVars, StaminaRuns
    <2>3. Owing = 0 /\ Owing' = 0 /\ sused' = sused
      BY <1>2 DEF Owing, staminaVars
    <2>4. StaminaCallOK'
      BY <2>2 DEF PaidInv, StaminaCallOK
    <2> QED
      BY <2>3, <2>4 DEF PaidInv, DueOK
  <1> QED
    BY <1>1, <1>2

LEMMA CallStaminaKeeps ==
    ASSUME PaidInv, turn = Idle, UNCHANGED <<due, faults>>,
           NEW s \in Stages, CallStamina(s), turn' = [pc |-> "stamina", stage |-> s]
    PROVE  StaminaCallOK' /\ DueOK'
  <1>1. sreqs = {} /\ ~StaminaRuns /\ sreps = {}
    BY DEF PaidInv, StaminaCallOK, Idle
  <1>2. /\ sreqs' = {[from |-> Grain, cost |-> StaminaCost[s]]} /\ sreps' = {}
        /\ sturn' = sturn /\ sused' = sused
    BY <1>1 DEF CallStamina, S!Send
  <1>3. ~StaminaRuns'
    BY <1>1, <1>2 DEF StaminaRuns
  <1>4. StaminaCallOK'
    BY <1>2, <1>3 DEF PaidInv, StaminaCallOK
  <1>5. Owing = 0 /\ Owing' = 0
    BY <1>2 DEF Owing, Idle
  <1> QED
    BY <1>2, <1>4, <1>5 DEF PaidInv, DueOK

(* EnterStageAsync learns what was taken. *)
LEMMA ConsumedKeeps ==
    ASSUME PaidInv, Consumed
    PROVE  StaminaCallOK' /\ DueOK'
  <1>0. CInv
    BY DEF PaidInv
  <1>1. PICK r \in sreps :
          due' = IF Granted(r) THEN due + StaminaCost[turn.stage] ELSE due
    BY DEF Consumed
  <1>2. sreqs = {} /\ ~StaminaRuns /\ \A q \in sreps : q = r
    BY <1>1 DEF PaidInv, StaminaCallOK
  <1>3. sreps' = {} /\ sreqs' = {} /\ sturn' = sturn /\ sused' = sused
    BY <1>0, <1>2, StaminaFields DEF Consumed, S!Receive
  <1>4. turn.pc = "stamina" /\ turn' = Idle /\ turn'.pc = "idle" /\ faults' = faults
    BY DEF Consumed, EndTurn, Idle
  <1>5. ~StaminaRuns'
    BY <1>2, <1>3 DEF StaminaRuns
  <1>6. StaminaCallOK'
    BY <1>3, <1>4, <1>5 DEF PaidInv, StaminaCallOK
  <1>7. due' + Owing' = due + Owing
    <2>1. Owing' = 0
      BY <1>4 DEF Owing
    <2>2. due' = due + Owing
      BY <1>0, <1>1, <1>2, <1>4, StaminaFields DEF Owing, Granted
    <2>3. due' \in Nat
      BY <1>0, <2>2, StaminaFields
    <2> QED
      BY <2>1, <2>2, <2>3
  <1> QED
    BY <1>3, <1>4, <1>6, <1>7 DEF PaidInv, DueOK

(* A caller that gives up leaves its request unserved, or a turn nobody
   waits for, which may still take stamina.                                *)
LEMMA StaminaTimesOutKeeps ==
    ASSUME PaidInv, turn.pc = "stamina", S!TimeOut(Grain), turn' = Idle, UNCHANGED due,
           faults' # 0
    PROVE  StaminaCallOK' /\ DueOK'
  <1>0. CInv
    BY DEF PaidInv
  <1>1. sreps = {} /\ sreps' = {} /\ sused' = sused
    BY DEF S!TimeOut, PaidInv, StaminaCallOK, StaminaRuns
  <1>2. sreqs' = {}
    <2>1. CASE sreqs' = {m \in sreqs : m.from # Grain}
      BY <1>0, <2>1, StaminaFields
    <2>2. CASE StaminaRuns /\ sreqs' = sreqs
      BY <2>2 DEF PaidInv, StaminaCallOK
    <2> QED
      BY <2>1, <2>2 DEF S!TimeOut, StaminaRuns
  <1>3. ~StaminaRuns'
    <2>1. CASE sreqs # {} /\ sturn' = sturn
      BY <2>1 DEF PaidInv, StaminaCallOK, StaminaRuns
    <2>2. CASE sturn # S!Idle /\ sturn' = [sturn EXCEPT !.live = FALSE]
      <3>1. sturn'.live = FALSE
        BY <1>0, <2>2, StaminaFields DEF S!Turn
      <3> QED
        BY <3>1 DEF StaminaRuns
    <2> QED
      BY <2>1, <2>2 DEF S!TimeOut
  <1>4. StaminaCallOK'
    BY <1>1, <1>2, <1>3 DEF StaminaCallOK
  <1>5. Owing = 0 /\ Owing' = 0
    BY <1>1 DEF Owing
  <1> QED
    BY <1>1, <1>4, <1>5 DEF PaidInv, DueOK

LEMMA StaminaCrashKeeps ==
    ASSUME PaidInv, S!Crash, turn' = Idle, UNCHANGED due, faults' # 0
    PROVE  StaminaCallOK' /\ DueOK'
  <1>0. CInv
    BY DEF PaidInv
  <1>1. sreqs' = {} /\ sreps' = {} /\ ~StaminaRuns' /\ sused' = sused
    BY DEF S!Crash, StaminaRuns
  <1>2. StaminaCallOK'
    BY <1>1 DEF StaminaCallOK
  <1>3. Owing' = 0 /\ due' = due
    BY <1>1 DEF Owing
  <1>4. due <= sused
    BY <1>0, StaminaFields DEF PaidInv, DueOK
  <1> QED
    BY <1>0, <1>1, <1>2, <1>3, <1>4, StaminaFields DEF DueOK

(* The request leaves the queue: it is refused at once, or it runs. *)
LEMMA StaminaBeginKeeps ==
    ASSUME PaidInv, NEW m \in sreqs, S!Begin(m), UNCHANGED <<turn, due, faults>>
    PROVE  StaminaCallOK' /\ DueOK'
  <1>0. CInv
    BY DEF PaidInv
  <1>1. /\ turn.pc = "stamina" /\ m.cost = StaminaCost[turn.stage]
        /\ sreqs = {m} /\ sreps = {} /\ m.from = Grain
    BY <1>0, StaminaFields DEF PaidInv, StaminaCallOK
  <1>2. sreqs' = {} /\ sused' = sused /\ turn' = turn /\ sturn = S!Idle
    BY <1>1 DEF S!Begin
  <1>3. Owing = 0
    BY <1>1 DEF Owing
  <1>4. CASE /\ sturn' = sturn
             /\ \E c \in {"InvalidParameter", "NotEnoughStamina"} :
                  sreps' = S!Answer(m.from, c)
    <2>1. PICK c \in {"InvalidParameter", "NotEnoughStamina"} :
            sreps' = {[from |-> Grain, res |-> c]}
      BY <1>1, <1>4 DEF S!Answer
    <2>2. Owing' = 0
      BY <2>1 DEF Owing
    <2>3. ~StaminaRuns' /\ sturn' = S!Idle
      BY <1>2, <1>4 DEF StaminaRuns
    <2>4. StaminaCallOK'
      BY <1>1, <1>2, <2>1, <2>3 DEF StaminaCallOK
    <2> QED
      BY <1>2, <1>3, <2>2, <2>4 DEF PaidInv, DueOK
  <1>5. CASE S!Submit(m) /\ sreps' = sreps
    <2>1. sturn'.live = TRUE /\ sturn'.cost = m.cost
      BY <1>5 DEF S!Submit
    <2>2. StaminaCallOK'
      BY <1>1, <1>2, <1>5, <2>1 DEF StaminaCallOK
    <2>3. Owing' = 0
      BY <1>1, <1>5 DEF Owing
    <2> QED
      BY <1>2, <1>3, <2>2, <2>3 DEF PaidInv, DueOK
  <1> QED
    BY <1>4, <1>5 DEF S!Begin

(* The answer says Success when, and only when, stamina was taken. *)
LEMMA StaminaResumeKeeps ==
    ASSUME PaidInv, S!Resume, UNCHANGED <<turn, due, faults>>
    PROVE  StaminaCallOK' /\ DueOK'
  <1>0. CInv
    BY DEF PaidInv
  <1>1. sturn # S!Idle
    BY DEF S!Resume, S!Idle
  <1>2. /\ sturn.from = Grain /\ sturn.live \in BOOLEAN /\ sturn.cost \in Nat
        /\ sused \in Nat /\ due \in Nat /\ Owing \in Nat
    BY <1>0, <1>1, StaminaFields
  <1>3. /\ sturn' = S!Idle /\ ~StaminaRuns' /\ sreqs' = sreqs /\ turn' = turn
        /\ sused' = IF sturn.pc = "ok" THEN sused + sturn.cost ELSE sused
    BY DEF S!Resume, S!Succeeded, StaminaRuns
  <1>4. CASE sturn.live
    <2>1. StaminaRuns
      BY <1>1, <1>4 DEF StaminaRuns
    <2>2. /\ turn.pc = "stamina" /\ sturn.cost = StaminaCost[turn.stage]
          /\ sreps = {} /\ sreqs = {}
      BY <2>1 DEF PaidInv, StaminaCallOK
    <2>3. PICK c : /\ sreps' = {[from |-> Grain, res |-> c]}
                   /\ c = "Success" <=> sturn.pc = "ok"
      <3>1. PICK c : /\ sreps' = S!Answer(sturn.from, c)
                     /\ c = CASE S!Succeeded          -> "Success"
                              [] sturn.pc = "failed" -> "Exception"
                              [] OTHER                -> "DbUpdateError"
        BY <1>4 DEF S!Resume
      <3>2. c = "Success" <=> sturn.pc = "ok"
        BY <3>1 DEF S!Succeeded
      <3> QED
        BY <1>2, <2>2, <3>1, <3>2 DEF S!Answer
    <2>4. StaminaCallOK'
      BY <1>3, <2>2, <2>3 DEF StaminaCallOK
    <2>5. Owing = 0 /\ Owing' = IF sturn.pc = "ok" THEN sturn.cost ELSE 0
      BY <1>3, <2>2, <2>3 DEF Owing
    <2> QED
      BY <1>2, <1>3, <2>4, <2>5 DEF PaidInv, DueOK
  <1>5. CASE ~sturn.live
    <2>1. sreps' = sreps /\ faults # 0
      BY <1>1, <1>5 DEF S!Resume, PaidInv, StaminaCallOK
    <2>2. StaminaCallOK'
      BY <1>1, <1>3, <2>1 DEF PaidInv, StaminaCallOK
    <2>3. Owing' = Owing
      BY <1>3, <2>1 DEF Owing
    <2> QED
      BY <1>2, <1>3, <2>1, <2>2, <2>3 DEF PaidInv, DueOK
  <1> QED
    BY <1>2, <1>4, <1>5

LEMMA StaminaActivationFailsKeeps ==
    ASSUME PaidInv, S!ActivateFails, UNCHANGED <<turn, due>>, faults' # 0
    PROVE  StaminaCallOK' /\ DueOK'
  <1>0. CInv
    BY DEF PaidInv
  <1>1. PICK m \in sreqs : TRUE
    BY DEF S!ActivateFails
  <1>2. turn.pc = "stamina" /\ sreqs = {m} /\ sreps = {} /\ ~StaminaRuns /\ m.from = Grain
    BY <1>0, <1>1, StaminaFields DEF PaidInv, StaminaCallOK
  <1>3. /\ sreps' = [from : {Grain}, res : {"Exception"}] /\ sreqs' = {}
        /\ sturn' = sturn /\ sused' = sused
    BY <1>2 DEF S!ActivateFails
  <1>4. \A r \in sreps' : r = [from |-> Grain, res |-> "Exception"]
    BY <1>3
  <1>5. ~StaminaRuns'
    BY <1>2, <1>3 DEF StaminaRuns
  <1>6. StaminaCallOK'
    BY <1>2, <1>3, <1>4, <1>5 DEF StaminaCallOK
  <1>7. Owing = 0 /\ Owing' = 0
    BY <1>2, <1>4 DEF Owing
  <1> QED
    BY <1>3, <1>6, <1>7 DEF PaidInv, DueOK

LEMMA StepKeepsPaid == PaidInv /\ [Next]_vars => PaidInv'
  <1> SUFFICES ASSUME PaidInv, [Next]_vars PROVE StaminaCallOK' /\ DueOK'
    BY StepKeepsComponents DEF PaidInv
  <1>0. CInv /\ GrainInv /\ (faults' = 0 => faults = 0)
    BY LossKept DEF PaidInv, CInv
  <1>1. ASSUME S!Apply \/ S!Fail \/ S!LoseAck, UNCHANGED <<turn, due>>
        PROVE  StaminaCallOK' /\ DueOK'
    <2>1. sturn # S!Idle /\ sturn \in S!Turn
      BY <1>0, <1>1, StaminaFields DEF S!Apply, S!Fail, S!LoseAck, S!Idle
    <2>2. /\ sturn'.live = sturn.live /\ sturn'.cost = sturn.cost /\ sturn' # S!Idle
          /\ UNCHANGED <<sreqs, sreps, sused>>
      <3>1. \A p : [sturn EXCEPT !.pc = p].live = sturn.live
                   /\ [sturn EXCEPT !.pc = p].cost = sturn.cost
                   /\ [sturn EXCEPT !.pc = p] # S!Idle
        BY <2>1 DEF S!Turn, S!Idle
      <3> QED
        BY <1>1, <3>1 DEF S!Apply, S!Fail, S!LoseAck
    <2> QED
      BY <1>0, <1>1, <2>1, <2>2, StaminaSilentKeeps
  <1>2. CASE (S!Serve \/ S!Tick) /\ UNCHANGED <<turn, due, faults>>
    <2>1. CASE S!Activate \/ S!Deactivate \/ S!Tick
      BY <1>0, <1>2, <2>1, StaminaSilentKeeps DEF S!Activate, S!Deactivate, S!Tick
    <2> QED
      BY <1>1, <1>2, <2>1, StaminaBeginKeeps, StaminaResumeKeeps DEF S!Serve
  <1>3. CASE S!Fault /\ UNCHANGED <<turn, due>> /\ faults' # 0
    BY <1>1, <1>3, StaminaActivationFailsKeeps DEF S!Fault
  <1>4. CASE S!Conflict /\ S!Fail /\ UNCHANGED <<turn, due, faults>>
    BY <1>1, <1>4
  <1>5. CASE Consumed
    BY <1>5, ConsumedKeeps
  <1> QED
    BY <1>0, <1>2, <1>3, <1>4, <1>5, StaminaMoves, CallStaminaKeeps, StaminaTimesOutKeeps,
       StaminaCrashKeeps, StaminaAsideKeeps

(* PlayerStageGrain.EnterStageAsync: whatever fails, times out or restarts,
   the stages it granted were paid for in stamina the player had; without a
   fault exactly what they cost was taken.                                 *)
THEOREM StageEnteredIsPaid == Spec => []EnteredIsPaid
  <1>1. Init => PaidInv
    BY InitComponents
       DEF PaidInv, StaminaCallOK, StaminaRuns, DueOK, Owing, Init, S!Init, Idle
  <1>2. PaidInv => EnteredIsPaid
    <2> SUFFICES ASSUME PaidInv PROVE EnteredIsPaid
      OBVIOUS
    <2>1. sused \in Nat /\ due \in Nat /\ Owing \in Nat
      BY StaminaFields DEF PaidInv
    <2>2. S!NoFreeStamina
      BY SP!NothingIsFree, ComponentsAssumption
         DEF PaidInv, CInv, S!StaminaAssumption, S!NoFreeStamina, SP!NoFreeStamina
    <2>3. turn = Idle => Owing = 0
      BY DEF Owing, Idle
    <2> QED
      BY <2>1, <2>2, <2>3 DEF PaidInv, DueOK, EnteredIsPaid
  <1> QED
    BY <1>1, <1>2, StepKeepsPaid, PTL DEF Spec

-----------------------------------------------------------------------------
(* The conversation with the level grain. *)
LEMMA LevelFields ==
    ASSUME CInv
    PROVE  /\ lgained \in Nat /\ earned \in Nat /\ Unasked \in Nat
           /\ Running \in Nat
           /\ \A m \in lreqs : m \in L!Request /\ m.from = Grain /\ m.exp \in Nat
           /\ \A r \in lreps : r.from = Grain
           /\ lturn # L!Idle =>
                /\ lturn \in L!Turn /\ lturn.from = Grain /\ lturn.live \in BOOLEAN
                /\ lturn.gain \in Nat /\ lturn.pc \in {"await", "ok", "norow", "failed"}
                /\ lturn.stmt \in {"insert", "update"}
  <1>1. L!TypeOK
    BY CalledTyped
  <1>2. lturn # L!Idle =>
          /\ lturn \in L!Turn /\ lturn.from = Grain /\ lturn.live \in BOOLEAN
          /\ lturn.gain \in Nat /\ lturn.pc \in {"await", "ok", "norow", "failed"}
          /\ lturn.stmt \in {"insert", "update"}
    BY <1>1, LevelTurnFields
  <1>3. Running \in Nat
    BY <1>2 DEF Running, L!Idle
  <1>4. lgained \in Nat /\ earned \in Nat /\ Unasked \in Nat
    BY <1>1, UnaskedTyped DEF L!TypeOK, CInv, GrainInv
  <1>5. \A m \in lreqs : m \in L!Request /\ m.from = Grain /\ m.exp \in Nat
    <2> SUFFICES ASSUME NEW m \in lreqs
                 PROVE  m \in L!Request /\ m.from = Grain /\ m.exp \in Nat
      OBVIOUS
    <2>1. m \in L!Request
      BY <1>1 DEF L!TypeOK
    <2>2. m.from \in {Grain} /\ m.exp \in {RewardExp[s] : s \in Stages}
      BY <2>1 DEF L!Request
    <2> QED
      BY <2>1, <2>2, StageAssumption
  <1>6. \A r \in lreps : r.from = Grain
    BY <1>1 DEF L!TypeOK, L!Reply
  <1> QED
    BY <1>2, <1>3, <1>4, <1>5, <1>6

(* What is queued is one request's experience. *)
LEMMA QueuedTyped ==
    ASSUME RewardInv
    PROVE  /\ Queued \in Nat /\ Coming \in Nat /\ Coming = Unasked + Queued + Running
           /\ \A m \in lreqs : Queued = m.exp
  <1>1. \A m \in lreqs : Queued = m.exp /\ m.exp \in Nat
    BY LevelFields DEF RewardInv, LevelCallOK, Queued
  <1>2. Queued \in Nat
    BY <1>1 DEF Queued
  <1> QED
    BY <1>1, <1>2, LevelFields DEF RewardInv, Coming

\* Nothing of what is coming is lost but by a fault, and nothing added to it.
Balanced ==
    /\ lgained' + Coming' <= earned'
    /\ faults' = 0 => lgained' + Coming' = earned'

(* The level grain keeps what it is to gain, or gains it. *)
LEMMA GainsAsComing ==
    ASSUME RewardInv, faults' = 0 => faults = 0, UNCHANGED <<turn, earned>>,
           NEW q \in Nat, Queued' = q, NEW r \in Nat, Running' = r,
           lgained' \in Nat,
           lgained' + q + r <= lgained + Queued + Running,
           faults' = 0 => lgained' + q + r = lgained + Queued + Running
    PROVE  Balanced
  <1>1. /\ lgained \in Nat /\ earned \in Nat /\ Unasked \in Nat /\ Queued \in Nat
        /\ Running \in Nat /\ Coming = Unasked + Queued + Running
    BY QueuedTyped, LevelFields DEF RewardInv
  <1>2. Unasked' = Unasked /\ Coming' = Unasked + q + r /\ earned' = earned
    BY DEF Unasked, Coming
  <1>3. /\ lgained + Unasked + Queued + Running <= earned
        /\ faults = 0 => lgained + Unasked + Queued + Running = earned
    BY <1>1 DEF RewardInv, EarnedOK
  <1>4. PICK g \in Nat : lgained' = g
    OBVIOUS
  <1>5. g + q + r <= lgained + Queued + Running
    BY <1>4
  <1>6. faults' = 0 => g + q + r = lgained + Queued + Running
    BY <1>4
  <1>7. g + Unasked + q + r <= earned
    BY <1>1, <1>3, <1>5
  <1>8. faults' = 0 => g + Unasked + q + r = earned
    BY <1>1, <1>3, <1>6
  <1>9. lgained' + Coming' = g + Unasked + q + r
    BY <1>1, <1>2, <1>4
  <1> QED
    BY <1>2, <1>7, <1>8, <1>9 DEF Balanced

(* Neither the queue, nor the turn but for what it gains, nor the request. *)
LEMMA LevelSilentKeeps ==
    ASSUME RewardInv, faults' = 0 => faults = 0, UNCHANGED <<lreqs, lreps, turn, earned>>,
           \/ lturn' = lturn
           \/ lturn # L!Idle /\ lturn' # L!Idle /\ lturn'.live = lturn.live,
           lgained' \in Nat, Running' \in Nat,
           lgained' + Running' <= lgained + Running,
           faults' = 0 => lgained' + Running' = lgained + Running,
           faults' = 0 => lturn'.pc \notin {"failed", "norow"}
    PROVE  LevelCallOK' /\ EarnedOK'
  <1>1. (LevelRuns' <=> LevelRuns) /\ (lturn' # L!Idle <=> lturn # L!Idle)
    BY DEF LevelRuns, L!Idle
  <1>2. LevelCallOK'
    BY <1>1 DEF RewardInv, LevelCallOK, LevelRuns
  <1>3. Queued \in Nat /\ Queued' = Queued /\ Running \in Nat /\ lgained \in Nat
    BY QueuedTyped, LevelFields DEF Queued, RewardInv
  <1>4. PICK g \in Nat, r \in Nat : lgained' = g /\ Running' = r
    OBVIOUS
  <1>5. g + r <= lgained + Running /\ (faults' = 0 => g + r = lgained + Running)
    BY <1>4
  <1>6. /\ g + Queued + r <= lgained + Queued + Running
        /\ faults' = 0 => g + Queued + r = lgained + Queued + Running
    BY <1>3, <1>5
  <1>7. Balanced
    BY <1>3, <1>4, <1>6, GainsAsComing
  <1> QED
    BY <1>2, <1>7 DEF Balanced, EarnedOK

(* Nobody waits for an answer, before the step or after it. *)
LEMMA LevelAsideKeeps ==
    ASSUME RewardInv, faults' = 0 => faults = 0, UNCHANGED levelVars, EarnedAsAsked,
           (turn.pc = "level" \/ turn'.pc = "level") => turn' = turn,
           GrainInv'
    PROVE  LevelCallOK' /\ EarnedOK'
  <1>0. CInv
    BY DEF RewardInv
  <1>1. UNCHANGED <<lrows, lcache, lact, lturn, lreqs, lreps, lgained>>
    BY DEF levelVars
  <1>2. LevelRuns' <=> LevelRuns
    BY <1>1 DEF LevelRuns
  <1>3. LevelCallOK'
    BY <1>1, <1>2 DEF RewardInv, LevelCallOK
  <1>4. Running' = Running
    BY <1>1 DEF Running
  <1>5. Queued' = Queued
    BY <1>1 DEF Queued, RewardInv, LevelCallOK
  <1>6. /\ lgained \in Nat /\ earned \in Nat /\ Unasked \in Nat /\ Queued \in Nat
        /\ Running \in Nat /\ Coming = Unasked + Queued + Running
    BY <1>0, QueuedTyped, LevelFields
  <1>7. PICK e \in Nat, u \in Nat : earned' = e /\ Unasked' = u
    <2>1. (GrainTyped => Unasked \in Nat /\ earned \in Nat)'
      BY UnaskedTyped, PTL
    <2> QED
      BY <2>1 DEF GrainInv
  <1>8. Coming' = u + Queued + Running
    BY <1>4, <1>5, <1>7 DEF Coming
  <1>9. /\ earned - Unasked <= e - u
        /\ faults' = 0 => earned - Unasked = e - u
    BY <1>7 DEF EarnedAsAsked
  <1>10. /\ lgained + Unasked + Queued + Running <= earned
         /\ faults = 0 => lgained + Unasked + Queued + Running = earned
    BY <1>6 DEF RewardInv, EarnedOK
  <1>11. lgained + u + Queued + Running <= e
    BY <1>6, <1>9, <1>10
  <1>12. faults' = 0 => lgained + u + Queued + Running = e
    BY <1>6, <1>9, <1>10
  <1>13. lgained + Coming' = lgained + u + Queued + Running
    BY <1>6, <1>8
  <1> QED
    BY <1>1, <1>3, <1>7, <1>11, <1>12, <1>13 DEF RewardInv, EarnedOK

(* ClearStageAsync asks for what it has written. *)
LEMMA CallLevelKeeps ==
    ASSUME RewardInv, turn.pc = "ok", turn.stage \in Stages, UNCHANGED <<earned, faults>>,
           CallLevel(turn.stage), turn' = [pc |-> "level", stage |-> turn.stage]
    PROVE  LevelCallOK' /\ EarnedOK'
  <1>0. CInv
    BY DEF RewardInv
  <1>1. lreqs = {} /\ ~LevelRuns /\ lreps = {}
    BY DEF RewardInv, LevelCallOK
  <1>2. /\ lreqs' = {[from |-> Grain, exp |-> RewardExp[turn.stage]]} /\ lreps' = {}
        /\ lturn' = lturn /\ lgained' = lgained
    BY <1>1 DEF CallLevel, L!Send
  <1>3. ~LevelRuns'
    BY <1>1, <1>2 DEF LevelRuns
  <1>4. LevelCallOK'
    BY <1>2, <1>3 DEF RewardInv, LevelCallOK
  <1>5. /\ Unasked = RewardExp[turn.stage] /\ Queued = 0
        /\ Unasked' = 0 /\ Queued' = RewardExp[turn.stage] /\ Running' = Running
    BY <1>1, <1>2 DEF Unasked, Queued, Running
  <1>6. RewardExp[turn.stage] \in Nat /\ Running \in Nat
    BY <1>0, StageAssumption, LevelFields
  <1>7. Coming' = Coming
    BY <1>5, <1>6 DEF Coming
  <1> QED
    BY <1>2, <1>4, <1>7 DEF RewardInv, EarnedOK

(* Whatever the answer, nothing of this request is left at the level grain. *)
LEMMA LeveledKeeps ==
    ASSUME RewardInv, turn.pc = "level", L!Receive(Grain), turn'.pc \in {"idle", "wallet"},
           UNCHANGED <<earned, faults>>
    PROVE  LevelCallOK' /\ EarnedOK'
  <1>0. CInv
    BY DEF RewardInv
  <1>1. lreqs = {} /\ ~LevelRuns /\ lreps # {}
    BY DEF L!Receive, RewardInv, LevelCallOK
  <1>2. lreps' = {} /\ lreqs' = {} /\ lturn' = lturn /\ lgained' = lgained
    BY <1>0, <1>1, LevelFields DEF L!Receive
  <1>3. ~LevelRuns'
    BY <1>1, <1>2 DEF LevelRuns
  <1>4. LevelCallOK'
    BY <1>2, <1>3 DEF RewardInv, LevelCallOK
  <1>5. Unasked' = Unasked /\ Queued' = Queued /\ Running' = Running
    BY <1>1, <1>2 DEF Unasked, Queued, Running
  <1>6. Coming' = Coming
    BY <1>5 DEF Coming
  <1> QED
    BY <1>2, <1>4, <1>6 DEF RewardInv, EarnedOK

(* What a caller that gives up had queued is never gained; what runs may be. *)
LEMMA LevelTimesOutKeeps ==
    ASSUME RewardInv, turn.pc = "level", L!TimeOut(Grain), turn' = Idle, UNCHANGED earned,
           faults' # 0
    PROVE  LevelCallOK' /\ EarnedOK'
  <1>0. CInv
    BY DEF RewardInv
  <1>1. lreps = {} /\ lreps' = {} /\ lgained' = lgained
    BY DEF L!TimeOut, RewardInv, LevelCallOK, LevelRuns
  <1>2. lreqs' = {}
    <2>1. CASE lreqs' = {m \in lreqs : m.from # Grain}
      BY <1>0, <2>1, LevelFields
    <2>2. CASE LevelRuns /\ lreqs' = lreqs
      BY <2>2 DEF RewardInv, LevelCallOK
    <2> QED
      BY <2>1, <2>2 DEF L!TimeOut, LevelRuns
  <1>3. ~LevelRuns' /\ Running' = Running
    <2>1. CASE lreqs # {} /\ lturn' = lturn
      BY <2>1 DEF RewardInv, LevelCallOK, LevelRuns, Running
    <2>2. CASE lturn # L!Idle /\ lturn' = [lturn EXCEPT !.live = FALSE]
      <3>1. /\ lturn'.live = FALSE /\ lturn'.pc = lturn.pc /\ lturn'.gain = lturn.gain
            /\ lturn'.stmt = lturn.stmt
        BY <1>0, <2>2, LevelFields DEF L!Turn
      <3> QED
        BY <3>1 DEF LevelRuns, Running
    <2> QED
      BY <2>1, <2>2 DEF L!TimeOut
  <1>4. LevelCallOK'
    BY <1>1, <1>2, <1>3 DEF LevelCallOK
  <1>5. Unasked' = 0 /\ Queued' = 0
    BY <1>2 DEF Unasked, Queued, Idle
  <1>6. /\ lgained \in Nat /\ earned \in Nat /\ Unasked \in Nat /\ Queued \in Nat
        /\ Running \in Nat /\ Coming = Unasked + Queued + Running
    BY <1>0, QueuedTyped, LevelFields
  <1>7. Coming' = Running
    BY <1>3, <1>5, <1>6 DEF Coming
  <1>8. lgained + Unasked + Queued + Running <= earned
    BY <1>6 DEF RewardInv, EarnedOK
  <1>9. lgained + Running <= earned
    BY <1>6, <1>8
  <1> QED
    BY <1>1, <1>4, <1>7, <1>9 DEF EarnedOK

(* A crash gains what its statement had applied, and nothing any more. *)
LEMMA LevelCrashKeeps ==
    ASSUME RewardInv, L!Crash, turn' = Idle, EarnedAsAsked, GrainInv', faults' # 0
    PROVE  LevelCallOK' /\ EarnedOK'
  <1>0. CInv
    BY DEF RewardInv
  <1>1. lreqs' = {} /\ lreps' = {} /\ ~LevelRuns' /\ lturn' = L!Idle
    BY DEF L!Crash, LevelRuns
  <1>2. LevelCallOK'
    BY <1>1 DEF LevelCallOK
  <1>3. Unasked' = 0 /\ Queued' = 0 /\ Running' = 0
    BY <1>1 DEF Unasked, Queued, Running, Idle, L!Idle
  <1>4. /\ lgained \in Nat /\ earned \in Nat /\ Unasked \in Nat /\ Queued \in Nat
        /\ Running \in Nat /\ Coming = Unasked + Queued + Running
    BY <1>0, QueuedTyped, LevelFields
  <1>5. lgained' \in Nat /\ lgained' <= lgained + Running
    <2>1. CASE lgained' = lgained
      BY <1>4, <2>1
    <2>2. CASE lturn.pc = "await" /\ lgained' = L!GainApplied
      <3>1. Running = lturn.gain /\ lturn.gain \in Nat
        BY <1>0, <2>2, LevelFields DEF Running, L!Idle
      <3> QED
        BY <1>4, <2>2, <3>1 DEF L!GainApplied
    <2> QED
      BY <2>1, <2>2 DEF L!Crash
  <1>6. PICK e \in Nat : earned' = e
    BY DEF GrainInv, GrainTyped
  <1>7. earned - Unasked <= e - 0
    BY <1>3, <1>6 DEF EarnedAsAsked
  <1>8. lgained + Unasked + Queued + Running <= earned
    BY <1>4 DEF RewardInv, EarnedOK
  <1>9. lgained + Running <= e
    BY <1>4, <1>7, <1>8
  <1>10. lgained' <= e
    BY <1>4, <1>5, <1>9
  <1>11. Coming' = 0
    BY <1>3 DEF Coming
  <1>12. lgained' + Coming' <= earned'
    <2>1. PICK g \in Nat : lgained' = g
      BY <1>5
    <2>2. g + 0 <= e
      BY <1>10, <2>1
    <2> QED
      BY <1>6, <1>11, <2>1, <2>2
  <1> QED
    BY <1>2, <1>12 DEF EarnedOK

(* The request leaves the queue: it is refused at once, or it runs. *)
LEMMA LevelBeginKeepsReward ==
    ASSUME RewardInv, NEW m \in lreqs, L!Begin(m), UNCHANGED <<turn, earned, faults>>
    PROVE  LevelCallOK' /\ EarnedOK'
  <1>0. CInv
    BY DEF RewardInv
  <1>1. /\ turn.pc = "level" /\ lreqs = {m} /\ lreps = {} /\ m.from = Grain
        /\ m.exp \in Nat /\ Queued = m.exp /\ lgained \in Nat
    BY <1>0, LevelFields, QueuedTyped DEF RewardInv, LevelCallOK
  <1>2. lreqs' = {} /\ lgained' = lgained /\ turn' = turn /\ lturn = L!Idle
    BY <1>1 DEF L!Begin
  <1>3. Running = 0 /\ Queued' = 0
    BY <1>2 DEF Running, Queued, L!Idle
  <1>4. CASE m.exp = 0 /\ lreps' = L!Answer(m.from, "InvalidParameter") /\ lturn' = lturn
    <2>1. Running' = 0 /\ ~LevelRuns'
      BY <1>2, <1>4 DEF Running, LevelRuns, L!Idle
    <2>2. lreps' = {[from |-> Grain, res |-> "InvalidParameter"]}
      BY <1>1, <1>4 DEF L!Answer
    <2>3. LevelCallOK'
      BY <1>1, <1>2, <1>4, <2>1, <2>2 DEF LevelCallOK
    <2>4. Balanced
      BY <1>1, <1>2, <1>3, <1>4, <2>1, GainsAsComing
    <2> QED
      BY <1>2, <1>4, <2>3, <2>4 DEF Balanced, EarnedOK, L!Idle
  <1>5. CASE /\ m.exp > 0 /\ lreps' = lreps
             /\ lturn' = IF lcache.exists THEN L!Updating(m.from, TRUE, m.exp)
                         ELSE L!Inserting(m)
    <2>1. lturn'.live = TRUE /\ lturn'.gain = m.exp /\ lturn'.pc = "await"
      BY <1>5 DEF L!Updating, L!Inserting
    <2>2. Running' = m.exp
      BY <2>1 DEF Running
    <2>3. LevelCallOK'
      BY <1>1, <1>2, <1>5, <2>1 DEF LevelCallOK
    <2>4. Balanced
      BY <1>1, <1>2, <1>3, <2>2, GainsAsComing
    <2> QED
      BY <2>1, <2>3, <2>4 DEF Balanced, EarnedOK
  <1> QED
    BY <1>4, <1>5 DEF L!Begin

(* A statement finds the row it is for: an UPDATE is only sent for one that
   is there, and until an acknowledgement is lost an INSERT only when there
   is none.                                                                *)
LEMMA RowIsThere ==
    ASSUME CInv, lturn.pc = "await"
    PROVE  L!Affected /\ (faults = 0 => ~L!Conflict)
  <1>1. lturn # L!Idle
    BY DEF L!Idle
  <1>2. lact /\ (lturn.stmt = "update" <=> lcache.exists) /\ (lcache.exists => lrows # {})
    BY <1>1 DEF CInv, LevelInv, LevelTurnOK
  <1>3. lturn.stmt \in {"insert", "update"}
    BY <1>1, LevelFields
  <1>4. faults = 0 /\ ~lcache.exists => lrows = {}
    BY <1>2 DEF CInv, GrainInv, LossIsFault, LevelInv, LevelCurrent
  <1> QED
    BY <1>2, <1>3, <1>4 DEF L!Affected, L!Conflict

LEMMA LevelResultKeeps ==
    ASSUME RewardInv, L!Apply \/ L!Fail \/ L!LoseAck, UNCHANGED <<turn, earned>>,
           faults' = 0 => faults = 0, faults' = 0 => L!Apply \/ L!Conflict
    PROVE  LevelCallOK' /\ EarnedOK'
  <1>0. CInv
    BY DEF RewardInv
  <1>1. lturn.pc = "await" /\ lturn # L!Idle
    BY DEF L!Apply, L!Fail, L!LoseAck, L!Idle
  <1>2. /\ lturn \in L!Turn /\ lturn.gain \in Nat /\ lgained \in Nat
        /\ Running = lturn.gain
    BY <1>0, <1>1, LevelFields DEF Running
  <1>3. \A p : /\ [lturn EXCEPT !.pc = p].live = lturn.live
               /\ [lturn EXCEPT !.pc = p].stmt = lturn.stmt
               /\ [lturn EXCEPT !.pc = p].gain = lturn.gain
               /\ [lturn EXCEPT !.pc = p].pc = p
               /\ [lturn EXCEPT !.pc = p] # L!Idle
    BY <1>2 DEF L!Turn, L!Idle
  <1>4. UNCHANGED <<lreqs, lreps>>
    BY DEF L!Apply, L!Fail, L!LoseAck
  <1>5. CASE L!Apply
    <2>1. /\ lturn' = [lturn EXCEPT !.pc = "ok"]
          /\ lgained' = IF lturn.stmt = "update" THEN lgained + lturn.gain ELSE lgained
      BY <1>0, <1>1, <1>5, RowIsThere DEF L!Apply, L!GainApplied
    <2>2. Running' = IF lturn.stmt = "insert" THEN lturn.gain ELSE 0
      BY <1>3, <2>1 DEF Running
    <2>3. lturn.stmt \in {"insert", "update"}
      BY <1>0, <1>1, LevelFields
    <2>4. /\ lgained' \in Nat /\ Running' \in Nat
          /\ lgained' + Running' = lgained + Running
      BY <1>2, <2>1, <2>2, <2>3
    <2>5. lgained' + Running' <= lgained + Running
      BY <1>2, <2>4
    <2> QED
      BY <1>1, <1>3, <1>4, <2>1, <2>4, <2>5, LevelSilentKeeps
  <1>6. CASE L!Fail \/ L!LoseAck
    <2>1. faults' # 0 \/ L!Apply
      BY <1>0, <1>1, RowIsThere
    <2>2. /\ lturn' = [lturn EXCEPT !.pc = "failed"]
          /\ \/ lgained' = lgained
             \/ lgained' = IF lturn.stmt = "update" THEN lgained + lturn.gain ELSE lgained
      BY <1>6 DEF L!Fail, L!LoseAck, L!GainApplied
    <2>3. Running' = 0
      BY <1>3, <2>2 DEF Running
    <2>4. lgained' \in Nat /\ lgained' + Running' <= lgained + Running /\ Running' \in Nat
      BY <1>2, <2>2, <2>3
    <2> QED
      BY <1>1, <1>3, <1>4, <1>5, <2>1, <2>2, <2>4, LevelSilentKeeps
  <1> QED
    BY <1>5, <1>6

LEMMA LevelInsertedKeepsReward ==
    ASSUME RewardInv, L!Inserted, UNCHANGED <<turn, earned, faults>>
    PROVE  LevelCallOK' /\ EarnedOK'
  <1>0. CInv
    BY DEF RewardInv
  <1>1. /\ lturn # L!Idle /\ lturn.pc = "ok" /\ lturn.stmt = "insert"
        /\ UNCHANGED <<lreqs, lreps, lgained>>
        /\ lturn' = L!Updating(lturn.from, lturn.live, lturn.gain)
    BY DEF L!Inserted, L!Succeeded, L!Idle
  <1>2. /\ lturn'.live = lturn.live /\ lturn'.gain = lturn.gain /\ lturn'.pc = "await"
        /\ lturn' # L!Idle
    BY <1>1 DEF L!Updating, L!Idle
  <1>3. lturn.gain \in Nat /\ lgained \in Nat
    BY <1>0, <1>1, LevelFields
  <1>4. Running' = Running /\ Running = lturn.gain
    BY <1>1, <1>2 DEF Running
  <1>5. /\ lgained' \in Nat /\ Running' \in Nat
        /\ lgained' + Running' = lgained + Running
        /\ lgained' + Running' <= lgained + Running
    BY <1>1, <1>3, <1>4
  <1> QED
    BY <1>1, <1>2, <1>5, LevelSilentKeeps

LEMMA LevelResumeKeepsReward ==
    ASSUME RewardInv, L!Resume, UNCHANGED <<turn, earned, faults>>
    PROVE  LevelCallOK' /\ EarnedOK'
  <1>0. CInv
    BY DEF RewardInv
  <1>1. lturn # L!Idle /\ lturn.pc \in {"ok", "norow", "failed"}
    BY DEF L!Resume, L!Idle
  <1>2. lturn.from = Grain /\ lturn.live \in BOOLEAN /\ lgained \in Nat /\ Queued \in Nat
    BY <1>0, <1>1, LevelFields, QueuedTyped
  <1>3. lturn' = L!Idle /\ ~LevelRuns' /\ lreqs' = lreqs /\ lgained' = lgained
    BY DEF L!Resume, LevelRuns
  <1>4. Running = 0 /\ Running' = 0 /\ Queued' = Queued
    BY <1>1, <1>3 DEF Running, Queued, L!Resume, L!Succeeded, L!Idle
  <1>5. Balanced
    BY <1>2, <1>3, <1>4, GainsAsComing
  <1>6. EarnedOK'
    BY <1>3, <1>5 DEF Balanced, EarnedOK, L!Idle
  <1>7. CASE lturn.live
    <2>1. LevelRuns
      BY <1>1, <1>7 DEF LevelRuns
    <2>2. turn.pc = "level" /\ lreps = {} /\ lreqs = {}
      BY <2>1 DEF RewardInv, LevelCallOK
    <2>3. \E c : lreps' = {[from |-> Grain, res |-> c]}
      BY <1>2, <1>7, <2>2 DEF L!Resume, L!Answer
    <2>4. LevelCallOK'
      BY <1>3, <2>2, <2>3 DEF LevelCallOK
    <2> QED
      BY <1>6, <2>4
  <1>8. CASE ~lturn.live
    <2>1. lreps' = lreps
      BY <1>8 DEF L!Resume
    <2>2. LevelCallOK'
      BY <1>1, <1>3, <2>1 DEF RewardInv, LevelCallOK
    <2> QED
      BY <1>6, <2>2
  <1> QED
    BY <1>2, <1>7, <1>8

LEMMA LevelActivationFailsKeeps ==
    ASSUME RewardInv, L!ActivateFails, UNCHANGED <<turn, earned>>, faults' # 0
    PROVE  LevelCallOK' /\ EarnedOK'
  <1>0. CInv
    BY DEF RewardInv
  <1>1. PICK m \in lreqs : TRUE
    BY DEF L!ActivateFails
  <1>2. /\ turn.pc = "level" /\ lreqs = {m} /\ lreps = {} /\ ~LevelRuns /\ m.from = Grain
        /\ Queued \in Nat /\ Running \in Nat /\ lgained \in Nat
    BY <1>0, <1>1, LevelFields, QueuedTyped DEF RewardInv, LevelCallOK
  <1>3. /\ lreps' = [from : {Grain}, res : {"Exception"}] /\ lreqs' = {}
        /\ lturn' = lturn /\ lgained' = lgained
    BY <1>2 DEF L!ActivateFails
  <1>4. \A r \in lreps' : r = [from |-> Grain, res |-> "Exception"]
    BY <1>3
  <1>5. ~LevelRuns' /\ Running' = Running /\ Queued' = 0
    BY <1>2, <1>3 DEF LevelRuns, Running, Queued
  <1>6. LevelCallOK'
    BY <1>2, <1>3, <1>4, <1>5 DEF LevelCallOK
  <1>7. lgained' + 0 + Running <= lgained + Queued + Running
    BY <1>2, <1>3
  <1>8. Balanced
    BY <1>2, <1>3, <1>5, <1>7, GainsAsComing
  <1> QED
    BY <1>6, <1>8 DEF Balanced, EarnedOK

LEMMA StepKeepsReward == RewardInv /\ [Next]_vars => RewardInv'
  <1> SUFFICES ASSUME RewardInv, [Next]_vars PROVE LevelCallOK' /\ EarnedOK'
    BY StepKeepsComponents DEF RewardInv
  <1>0. CInv /\ GrainInv /\ GrainInv' /\ (faults' = 0 => faults = 0)
    BY StepKeepsComponents, LossKept DEF RewardInv, CInv
  <1>1. CASE L!Serve /\ UNCHANGED <<turn, earned, faults>>
    <2>1. CASE L!Activate \/ L!Deactivate
      <3>1. UNCHANGED <<lturn, lreqs, lreps, lgained>>
        BY <2>1 DEF L!Activate, L!Deactivate
      <3>2. Running' = Running /\ Running \in Nat /\ lgained \in Nat
        BY <1>0, <3>1, LevelFields DEF Running
      <3>3. lgained' + Running' <= lgained + Running
        BY <3>1, <3>2
      <3>4. faults' = 0 => lturn'.pc \notin {"failed", "norow"}
        BY <1>1, <3>1 DEF RewardInv, EarnedOK
      <3> QED
        BY <1>0, <1>1, <3>1, <3>2, <3>3, <3>4, LevelSilentKeeps
    <2>2. CASE L!Apply
      BY <1>0, <1>1, <2>2, LevelResultKeeps
    <2> QED
      BY <1>1, <2>1, <2>2, LevelBeginKeepsReward, LevelInsertedKeepsReward,
         LevelResumeKeepsReward DEF L!Serve
  <1>2. CASE L!Fault /\ UNCHANGED <<turn, earned>> /\ faults' # 0
    BY <1>0, <1>2, LevelResultKeeps, LevelActivationFailsKeeps DEF L!Fault
  <1>3. CASE L!Conflict /\ L!Fail /\ UNCHANGED <<turn, earned, faults>>
    BY <1>0, <1>3, LevelResultKeeps
  <1> QED
    BY <1>0, <1>1, <1>2, <1>3, LevelMoves, CallLevelKeeps, LeveledKeeps,
       LevelTimesOutKeeps, LevelCrashKeeps, LevelAsideKeeps

(* PlayerStageGrain.ClearStageAsync drops the result of AddExpAsync: a clear
   it has written brings its experience at most once all the same, whatever
   fails, times out or restarts, and without a fault exactly once.         *)
THEOREM StageClearsAreRewarded == Spec => []ClearsAreRewarded
  <1>1. Init => RewardInv
    BY InitComponents
       DEF RewardInv, LevelCallOK, LevelRuns, EarnedOK, Coming, Unasked, Queued, Running,
           Init, L!Init, Idle, L!Idle
  <1>2. RewardInv => ClearsAreRewarded
    <2> SUFFICES ASSUME RewardInv PROVE ClearsAreRewarded
      OBVIOUS
    <2>1. lgained \in Nat /\ earned \in Nat /\ Coming \in Nat
      BY LevelFields, QueuedTyped DEF RewardInv
    <2>2. faults = 0 /\ turn = Idle => Coming = 0
      <3> SUFFICES ASSUME faults = 0, turn = Idle PROVE Coming = 0
        OBVIOUS
      <3>1. lreqs = {} /\ lturn = L!Idle
        BY DEF RewardInv, LevelCallOK, LevelRuns, Idle
      <3> QED
        BY <3>1 DEF Coming, Unasked, Queued, Running, Idle, L!Idle
    <2> QED
      BY <2>1, <2>2 DEF RewardInv, EarnedOK, ClearsAreRewarded
  <1> QED
    BY <1>1, <1>2, StepKeepsReward, PTL DEF Spec
=============================================================================
