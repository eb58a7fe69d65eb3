---------------------------- MODULE StaminaProofs ----------------------------
(***************************************************************************)
(* Stamina, for every set of callers and costs and every rate of recovery. *)
(* What was granted is bounded through what is left: row, cache and the    *)
(* pending statement each hold an amount and an instant, and what was      *)
(* granted together with that amount can be given out by that instant.     *)
(***************************************************************************)
EXTENDS Stamina, TLAPS

\* x is at most a full stock and what k intervals before t bring.
Affordable(x, t) ==
    \E k \in Nat : /\ Interval = 0 => k = 0
                   /\ k * Interval <= t /\ x <= Full + k * Recover

\* There is one row at most, and it does not count from the future.
RowsOK ==
    /\ \A s \in srows : s.last <= now
    /\ \A s, t \in srows : s = t

\* A request runs on an activation, which knows whether it is the first.
TurnOK ==
    /\ sturn # Idle =>
         /\ sact /\ sturn.cost > 0 /\ sturn.new.last <= now
         /\ sturn.stmt = "update" <=> scache.exists
         /\ sturn.pc = "ok" => srows = {sturn.new}
    /\ sact /\ ~scache.exists => scache.amt = Full

\* Granted when the running statement's answer is resumed.
Pending == IF sturn.pc = "ok" THEN sturn.cost ELSE 0

NothingFree ==
    /\ srows = {} => sused = 0
    /\ \A s \in srows : Affordable(sused + Pending + s.amt, s.last)
    /\ sact => Affordable(sused + scache.amt, scache.last)
    /\ sturn # Idle => Affordable(sused + sturn.cost + sturn.new.amt, sturn.new.last)

IInv == TypeOK /\ RowsOK /\ TurnOK /\ NothingFree

-----------------------------------------------------------------------------
(* Division, for the whole intervals in a time. *)
LEMMA Quotient ==
    ASSUME NEW n \in Nat, NEW i \in Nat \ {0}
    PROVE  /\ n \div i \in Nat /\ n % i \in Nat /\ n % i < i
           /\ n = ((n \div i) * i) + (n % i)
  OBVIOUS

LEMMA QuotientIs ==
    ASSUME NEW n \in Nat, NEW i \in Nat \ {0}, NEW k \in Nat, NEW r \in Nat,
           r < i, n = (k * i) + r
    PROVE  n \div i = k /\ n % i = r
  OBVIOUS

LEMMA WholeIntervals ==
    ASSUME NEW n \in Nat, NEW i \in Nat \ {0}, NEW k \in Nat, k * i <= n
    PROVE  n \div i \in Nat /\ k <= n \div i
  OBVIOUS

LEMMA Multiples ==
    ASSUME NEW k \in Nat, NEW l \in Nat, NEW i \in Nat
    PROVE  /\ k * i \in Nat /\ (k + l) * i = k * i + l * i
           /\ k <= l => k * i <= l * i
  OBVIOUS

LEMMA AffordableLater ==
    ASSUME NEW x \in Nat, NEW y \in Nat, NEW t \in Nat, NEW u \in Nat,
           y <= x, t <= u, Affordable(x, t)
    PROVE  Affordable(y, u)
  <1>1. PICK k \in Nat : (Interval = 0 => k = 0) /\ k * Interval <= t /\ x <= Full + k * Recover
    BY DEF Affordable
  <1>2. k * Interval \in Nat /\ k * Recover \in Nat
    BY Multiples, StaminaAssumption
  <1>3. k * Interval <= u /\ y <= Full + k * Recover
    BY <1>1, <1>2, StaminaAssumption
  <1> QED
    BY <1>1, <1>3 DEF Affordable

LEMMA FullIsAffordable ==
    ASSUME NEW t \in Nat PROVE Affordable(Full, t)
  <1>1. 0 * Interval = 0 /\ 0 * Recover = 0
    BY StaminaAssumption
  <1> QED
    BY <1>1, StaminaAssumption DEF Affordable

(* What a stock is worth by now, in whole intervals. *)
LEMMA RecoveredBy ==
    ASSUME NEW s, s.amt \in 0..Full, s.last \in 0..now, now \in Nat
    PROVE  \E k \in Nat :
             /\ Interval = 0 => k = 0
             /\ s.last + k * Interval <= now
             /\ Interval > 0 => Intervals(s) = k /\ now < s.last + k * Interval + Interval
             /\ RecoveredAmount(s) = IF s.amt + k * Recover >= Full THEN Full
                                     ELSE s.amt + k * Recover
             /\ RecoveredAt(s) = IF s.amt >= Full \/ k = 0 THEN s.last
                                 ELSE IF RecoveredAmount(s) >= Full THEN now
                                 ELSE s.last + k * Interval
  <1> DEFINE d == now - s.last
  <1>1. d \in Nat /\ s.amt \in Nat /\ s.last \in Nat /\ s.amt <= Full
    BY StaminaAssumption
  <1>2. CASE Interval = 0
    <2>1. Intervals(s) = 0 /\ 0 * Recover = 0 /\ 0 * Interval = 0
      BY <1>2, StaminaAssumption DEF Intervals
    <2>2. RecoveredAmount(s) = s.amt /\ RecoveredAt(s) = s.last
      BY <2>1 DEF RecoveredAmount, RecoveredAt
    <2> QED
      BY <1>1, <1>2, <2>1, <2>2, StaminaAssumption
  <1>3. CASE Interval > 0
    <2>1. Intervals(s) = d \div Interval
      BY <1>3 DEF Intervals
    <2>2. PICK k \in Nat, r \in Nat :
             k = Intervals(s) /\ r < Interval /\ d = (k * Interval) + r
      BY <1>1, <1>3, <2>1, Quotient, StaminaAssumption
    <2>3. k * Interval \in Nat /\ k * Recover \in Nat /\ (k = 0 => k * Recover = 0)
      BY StaminaAssumption
    <2>4. RecoveredAmount(s) = IF s.amt + k * Recover >= Full THEN Full ELSE s.amt + k * Recover
      <3>1. /\ s.amt >= Full \/ k = 0 => RecoveredAmount(s) = s.amt
            /\ ~(s.amt >= Full \/ k = 0) =>
                 RecoveredAmount(s) = IF s.amt + k * Recover >= Full THEN Full
                                      ELSE s.amt + k * Recover
        BY <2>2 DEF RecoveredAmount
      <3> QED
        BY <1>1, <2>3, <3>1, StaminaAssumption
    <2>5. RecoveredAt(s) = IF s.amt >= Full \/ k = 0 THEN s.last
                           ELSE IF RecoveredAmount(s) >= Full THEN now
                           ELSE s.last + k * Interval
      BY <2>2 DEF RecoveredAt
    <2>6. s.last + k * Interval <= now /\ now < s.last + k * Interval + Interval
      BY <1>1, <2>2, <2>3, StaminaAssumption
    <2> QED
      BY <1>3, <2>2, <2>4, <2>5, <2>6
  <1> QED
    BY <1>2, <1>3, StaminaAssumption

(* So recovering gives out nothing that was not there. *)
LEMMA RecoveryIsAffordable ==
    ASSUME NEW s, s.amt \in 0..Full, s.last \in 0..now, now \in Nat,
           NEW u \in Nat, Affordable(u + s.amt, s.last)
    PROVE  /\ RecoveredAmount(s) \in 0..Full
           /\ RecoveredAt(s) \in s.last..now
           /\ Affordable(u + RecoveredAmount(s), RecoveredAt(s))
           /\ Affordable(u + RecoveredAmount(s), now)
  <1>1. PICK k \in Nat :
             /\ Interval = 0 => k = 0
             /\ s.last + k * Interval <= now
             /\ RecoveredAmount(s) = IF s.amt + k * Recover >= Full THEN Full
                                     ELSE s.amt + k * Recover
             /\ RecoveredAt(s) = IF s.amt >= Full \/ k = 0 THEN s.last
                                 ELSE IF RecoveredAmount(s) >= Full THEN now
                                 ELSE s.last + k * Interval
    BY RecoveredBy
  <1>2. PICK l \in Nat : /\ Interval = 0 => l = 0
                         /\ l * Interval <= s.last /\ u + s.amt <= Full + l * Recover
    BY DEF Affordable
  <1>3. /\ k * Interval \in Nat /\ l * Interval \in Nat
        /\ k * Recover \in Nat /\ l * Recover \in Nat
        /\ (l + k) * Interval = l * Interval + k * Interval
        /\ (l + k) * Recover = l * Recover + k * Recover
        /\ k = 0 => k * Recover = 0 /\ k * Interval = 0
    BY Multiples, StaminaAssumption
  <1>4. s.amt \in Nat /\ s.last \in Nat /\ s.amt <= Full
    BY StaminaAssumption
  <1>5. RecoveredAmount(s) \in 0..Full /\ s.amt <= RecoveredAmount(s)
    BY <1>1, <1>3, <1>4, StaminaAssumption
  <1>6. RecoveredAt(s) \in s.last..now
    BY <1>1, <1>3, <1>4
  <1>7. Affordable(u + RecoveredAmount(s), RecoveredAt(s))
    <2>1. CASE s.amt >= Full \/ k = 0
      <3>1. RecoveredAmount(s) = s.amt /\ RecoveredAt(s) = s.last
        BY <1>1, <1>3, <1>4, <2>1, StaminaAssumption
      <3> QED
        BY <3>1
    <2>2. CASE ~(s.amt >= Full \/ k = 0)
      <3>1. (l + k) * Interval <= RecoveredAt(s)
        BY <1>1, <1>2, <1>3, <1>4, <1>6, <2>2
      <3>2. u + RecoveredAmount(s) <= Full + (l + k) * Recover
        BY <1>1, <1>2, <1>3, <1>4, StaminaAssumption
      <3> QED
        BY <1>1, <1>2, <3>1, <3>2 DEF Affordable
    <2> QED
      BY <2>1, <2>2
  <1> QED
    BY <1>4, <1>5, <1>6, <1>7, AffordableLater, StaminaAssumption

-----------------------------------------------------------------------------
(* The record of a running request. *)
LEMMA TurnFields ==
    ASSUME TypeOK, sturn # Idle
    PROVE  /\ sturn \in Turn /\ sturn.pc # "idle"
           /\ sturn.cost \in Nat /\ sturn.cost \in Costs
           /\ sturn.new \in Stock /\ sturn.new.amt \in Nat /\ sturn.new.last \in Nat
           /\ sturn.pc \in {"await", "ok", "norow", "failed"}
  <1>1. sturn \in Turn
    BY DEF TypeOK
  <1>2. sturn.cost \in Costs /\ sturn.new \in Stock /\ sturn.pc \in {"await", "ok", "norow", "failed"}
    BY <1>1 DEF Turn
  <1>3. sturn.new.amt \in 0..Full /\ sturn.new.last \in 0..MaxNow
    BY <1>2 DEF Stock
  <1>4. sturn.new.amt \in Nat /\ sturn.new.last \in Nat
    BY <1>3, StaminaAssumption
  <1>5. sturn.cost \in Nat
    BY <1>2, StaminaAssumption
  <1>6. sturn.pc # "idle"
    BY <1>2
  <1> QED
    BY <1>1, <1>2, <1>4, <1>5, <1>6

(* A request that runs is the one whose pc is not that of Idle. *)
LEMMA RunningPc ==
    ASSUME TypeOK
    PROVE  sturn # Idle <=> sturn.pc # "idle"
  BY TurnFields DEF Idle

LEMMA InitInv == Init => IInv
  <1> SUFFICES ASSUME Init PROVE IInv
    OBVIOUS
  <1> USE DEF Init, NoCache, Idle
  <1>1. TypeOK
    <2>1. 0 \in 0..MaxNow /\ 0 \in 0..Full /\ 0 \in 0..0
      BY StaminaAssumption
    <2> QED
      BY <2>1 DEF TypeOK
  <1>2. RowsOK /\ TurnOK /\ NothingFree
    BY DEF RowsOK, TurnOK, NothingFree
  <1> QED
    BY <1>1, <1>2 DEF IInv

(* Steps that leave the stocks and the clock alone. *)
LEMMA CallersKeepInv ==
    ASSUME IInv,
           \/ \E m \in Request : Send(m)
           \/ \E c \in Callers : Receive(c) \/ TimeOut(c)
           \/ ActivateFails
           \/ UNCHANGED svars
    PROVE  IInv'
  <1>1. /\ UNCHANGED <<now, srows, scache, sact, sused, prompt, lost>>
        /\ sreqs' \subseteq Request /\ sreps' \subseteq Reply
        /\ sturn' = sturn \/ (sturn # Idle /\ sturn' = [sturn EXCEPT !.live = FALSE])
    BY DEF IInv, TypeOK, Send, Receive, TimeOut, ActivateFails, svars, Request, Reply,
           ResultCode
  <1>2. CASE sturn' = sturn
    <2>1. TypeOK' /\ RowsOK' /\ TurnOK'
      BY <1>1, <1>2 DEF IInv, TypeOK, RowsOK, TurnOK
    <2>2. NothingFree'
      BY <1>1, <1>2 DEF IInv, NothingFree, Pending, Affordable
    <2> QED
      BY <2>1, <2>2 DEF IInv
  <1>3. CASE sturn # Idle /\ sturn' = [sturn EXCEPT !.live = FALSE]
    <2>1. /\ sturn' \in Turn /\ sturn' # Idle /\ sturn'.pc = sturn.pc
          /\ sturn'.cost = sturn.cost /\ sturn'.new = sturn.new /\ sturn'.stmt = sturn.stmt
      BY <1>3, TurnFields DEF IInv, Turn, Idle
    <2>2. TypeOK' /\ RowsOK' /\ TurnOK'
      BY <1>1, <1>3, <2>1 DEF IInv, TypeOK, RowsOK, TurnOK
    <2>3. NothingFree'
      BY <1>1, <1>3, <2>1 DEF IInv, NothingFree, Pending, Affordable
    <2> QED
      BY <2>2, <2>3 DEF IInv
  <1> QED
    BY <1>1, <1>2, <1>3

(* Time that passes changes nothing but what stocks are worth. *)
LEMMA TickKeepsInv ==
    ASSUME IInv, Tick PROVE IInv'
  <1>1. /\ UNCHANGED <<srows, scache, sact, sturn, sreqs, sreps, sused, lost>>
        /\ now \in Nat /\ now' = now + 1 /\ now' \in 0..MaxNow /\ prompt' \in BOOLEAN
    BY StaminaAssumption DEF IInv, TypeOK, Tick
  <1>2. TypeOK'
    BY <1>1 DEF IInv, TypeOK
  <1>3. RowsOK' /\ TurnOK'
    <2>1. \A s \in srows : s.last \in Nat
      BY DEF IInv, TypeOK, Stock
    <2>2. sturn # Idle => sturn.new.last \in Nat
      BY TurnFields DEF IInv
    <2> QED
      BY <1>1, <2>1, <2>2 DEF IInv, RowsOK, TurnOK
  <1>4. NothingFree'
    BY <1>1 DEF IInv, NothingFree, Pending, Affordable
  <1> QED
    BY <1>2, <1>3, <1>4 DEF IInv

(* The activation takes the row, or a full stock when there is none. *)
LEMMA ActivateKeepsInv ==
    ASSUME IInv, Activate PROVE IInv'
  <1>1. /\ UNCHANGED <<now, srows, sturn, sreqs, sreps, sused, prompt, lost>>
        /\ sact' /\ sturn = Idle /\ sturn.pc = "idle"
    BY DEF IInv, TurnOK, Activate, Idle
  <1>2. now \in Nat /\ sused \in Nat /\ \A s \in srows : s \in Stock /\ s.last \in 0..now
    BY StaminaAssumption DEF IInv, TypeOK, RowsOK, Stock
  <1>3. /\ scache' \in [amt : 0..Full, last : 0..now, exists : BOOLEAN]
        /\ ~scache'.exists => scache'.amt = Full
        /\ Affordable(sused + scache'.amt, scache'.last)
    <2>1. CASE srows = {} /\ scache' = [amt |-> Full, last |-> now, exists |-> FALSE]
      BY <1>2, <2>1, FullIsAffordable, StaminaAssumption DEF IInv, NothingFree
    <2>2. ASSUME NEW s \in srows, scache' = [amt |-> s.amt, last |-> s.last, exists |-> TRUE]
          PROVE  /\ scache' \in [amt : 0..Full, last : 0..now, exists : BOOLEAN]
                 /\ scache'.exists
                 /\ Affordable(sused + scache'.amt, scache'.last)
      <3>1. Pending = 0
        BY <1>1 DEF Pending
      <3>2. Affordable(sused + 0 + s.amt, s.last) /\ sused + 0 + s.amt = sused + s.amt
        BY <1>2, <3>1 DEF IInv, NothingFree, Stock
      <3> QED
        BY <1>2, <2>2, <3>2 DEF Stock
    <2> QED
      BY <2>1, <2>2 DEF Activate
  <1>4. TypeOK' /\ RowsOK' /\ TurnOK'
    BY <1>1, <1>3 DEF IInv, TypeOK, RowsOK, TurnOK
  <1>5. NothingFree'
    BY <1>1, <1>3 DEF IInv, NothingFree, Pending, Affordable
  <1> QED
    BY <1>4, <1>5 DEF IInv

(* A request that starts takes from what the cache is worth by now. *)
LEMMA BeginKeepsInv ==
    ASSUME IInv, NEW m \in sreqs, Begin(m) PROVE IInv'
  <1>1. /\ m \in Request /\ m.cost \in Costs /\ m.cost \in Nat /\ sturn = Idle /\ sact
        /\ UNCHANGED <<now, srows, scache, sact, sused, prompt, lost>>
        /\ sreqs' \subseteq Request
    BY StaminaAssumption DEF IInv, TypeOK, Begin, Request
  <1>2. CASE sturn' = sturn
    <2>1. sreps' \subseteq Reply
      BY <1>1 DEF IInv, TypeOK, Begin, Answer, Reply, ResultCode, Request
    <2>2. TypeOK' /\ RowsOK' /\ TurnOK'
      BY <1>1, <1>2, <2>1 DEF IInv, TypeOK, RowsOK, TurnOK
    <2>3. NothingFree'
      BY <1>1, <1>2 DEF IInv, NothingFree, Pending, Affordable
    <2> QED
      BY <2>2, <2>3 DEF IInv
  <1>3. CASE m.cost > 0 /\ Covers(m.cost) /\ Submit(m) /\ UNCHANGED sreps
    <2>1. /\ now \in Nat /\ now <= MaxNow /\ scache.amt \in 0..Full /\ scache.last \in 0..now
          /\ scache.exists \in BOOLEAN /\ scache.amt \in Nat /\ scache.last \in Nat
          /\ sused \in Nat
      BY StaminaAssumption DEF IInv, TypeOK
    <2>2. /\ RecoveredAmount(scache) \in 0..Full /\ RecoveredAmount(scache) >= m.cost
          /\ RecoveredAt(scache) \in scache.last..now
          /\ Affordable(sused + RecoveredAmount(scache), RecoveredAt(scache))
          /\ Affordable(sused + RecoveredAmount(scache), now)
      BY <1>1, <1>3, <2>1, RecoveryIsAffordable DEF IInv, NothingFree, Covers
    <2> DEFINE last == IF scache.exists THEN RecoveredAt(scache) ELSE now
               amt  == RecoveredAmount(scache) - m.cost
               new  == [amt |-> amt, last |-> last]
    <2>3. /\ amt \in 0..Full /\ amt \in Nat /\ last \in 0..MaxNow /\ last <= now
          /\ sused + m.cost + amt = sused + RecoveredAmount(scache)
          /\ Affordable(sused + RecoveredAmount(scache), last)
      BY <1>1, <2>1, <2>2, StaminaAssumption
    <2>4. sturn' = [pc |-> "await", from |-> m.from, live |-> TRUE, cost |-> m.cost,
                    stmt |-> IF scache.exists THEN "update" ELSE "insert", new |-> new]
      BY <1>3 DEF Submit
    <2> HIDE DEF amt, last
    <2>5. /\ sturn' \in Turn /\ sturn' # Idle /\ sturn'.pc = "await"
          /\ sturn'.cost = m.cost /\ sturn'.new = new
          /\ new.amt = amt /\ new.last = last
          /\ sturn'.stmt = "update" <=> scache.exists
      BY <1>1, <2>1, <2>3, <2>4 DEF Turn, Stock, Request, Idle
    <2>6. TypeOK' /\ RowsOK' /\ TurnOK'
      BY <1>1, <1>3, <2>3, <2>5 DEF IInv, TypeOK, RowsOK, TurnOK
    <2>7. NothingFree'
      <3>1. Pending' = 0 /\ Pending = 0
        BY <1>1, <2>5 DEF Pending, Idle
      <3>2. \A s \in srows : Affordable(sused + 0 + s.amt, s.last)
        BY <3>1 DEF IInv, NothingFree
      <3>3. Affordable(sused + m.cost + amt, last)
        BY <2>3
      <3> QED
        BY <1>1, <2>5, <3>1, <3>2, <3>3 DEF IInv, NothingFree, Affordable
    <2> QED
      BY <2>6, <2>7 DEF IInv
  <1> QED
    BY <1>2, <1>3 DEF Begin

(* The running statement fails or changes nothing. *)
LEMMA UnappliedKeepsInv ==
    ASSUME IInv, sturn.pc = "await",
           UNCHANGED <<now, srows, scache, sact, sreqs, sreps, sused, prompt, lost>>,
           NEW pc \in {"norow", "failed"}, sturn' = [sturn EXCEPT !.pc = pc]
    PROVE  IInv'
  <1>1. sturn # Idle /\ sturn \in Turn
    BY TurnFields DEF IInv, Idle
  <1>2. /\ sturn' \in Turn /\ sturn' # Idle /\ sturn'.pc = pc
        /\ sturn'.cost = sturn.cost /\ sturn'.new = sturn.new /\ sturn'.stmt = sturn.stmt
    BY <1>1 DEF Turn, Idle
  <1>3. TypeOK' /\ RowsOK' /\ TurnOK'
    BY <1>1, <1>2 DEF IInv, TypeOK, RowsOK, TurnOK
  <1>4. NothingFree'
    <2>1. Pending' = 0 /\ Pending = 0
      BY <1>2 DEF Pending
    <2> QED
      BY <1>1, <1>2, <2>1 DEF IInv, NothingFree, Affordable
  <1> QED
    BY <1>3, <1>4 DEF IInv

(* The running statement writes its stock, known to the turn or not. *)
LEMMA AppliedKeepsInv ==
    ASSUME IInv, sturn.pc = "await", srows' = {sturn.new},
           UNCHANGED <<now, scache, sact, sreqs, sreps, sused, prompt>>,
           lost' \in Nat,
           NEW pc \in {"ok", "failed"}, sturn' = [sturn EXCEPT !.pc = pc]
    PROVE  IInv'
  <1>1. /\ sturn # Idle /\ sturn \in Turn /\ sturn.new \in Stock
        /\ sturn.cost \in Nat /\ sturn.new.amt \in Nat /\ sturn.new.last \in Nat
        /\ sused \in Nat
    BY TurnFields DEF IInv, Idle, TypeOK
  <1>2. /\ sturn' \in Turn /\ sturn' # Idle /\ sturn'.pc = pc
        /\ sturn'.cost = sturn.cost /\ sturn'.new = sturn.new /\ sturn'.stmt = sturn.stmt
    BY <1>1 DEF Turn, Idle
  <1>3. TypeOK' /\ RowsOK' /\ TurnOK'
    BY <1>1, <1>2 DEF IInv, TypeOK, RowsOK, TurnOK
  <1>4. Affordable(sused + sturn.cost + sturn.new.amt, sturn.new.last)
    BY <1>1 DEF IInv, NothingFree
  <1>5. Affordable(sused + 0 + sturn.new.amt, sturn.new.last)
    <2>1. /\ sused + 0 + sturn.new.amt \in Nat /\ sused + sturn.cost + sturn.new.amt \in Nat
          /\ sused + 0 + sturn.new.amt <= sused + sturn.cost + sturn.new.amt
      BY <1>1
    <2> QED
      BY <1>1, <1>4, <2>1, AffordableLater
  <1>6. NothingFree'
    <2>1. Pending' = IF pc = "ok" THEN sturn.cost ELSE 0
      BY <1>2 DEF Pending
    <2> QED
      BY <1>1, <1>2, <1>4, <1>5, <2>1 DEF IInv, NothingFree, Affordable
  <1> QED
    BY <1>3, <1>6 DEF IInv

LEMMA StatementKeepsInv ==
    ASSUME IInv, Apply \/ Fail \/ LoseAck PROVE IInv'
  <1>1. lost \in Nat /\ lost + 1 \in Nat
    BY DEF IInv, TypeOK
  <1>2. CASE Apply
    <2>1. CASE Affected
      BY <1>1, <1>2, <2>1, AppliedKeepsInv DEF Apply
    <2>2. CASE ~Affected
      BY <1>2, <2>2, UnappliedKeepsInv DEF Apply
    <2> QED
      BY <2>1, <2>2
  <1>3. CASE Fail
    BY <1>3, UnappliedKeepsInv DEF Fail
  <1>4. CASE LoseAck
    BY <1>1, <1>4, AppliedKeepsInv DEF LoseAck
  <1> QED
    BY <1>2, <1>3, <1>4

(* The turn ends: what it consumed is granted, and the row has it. *)
LEMMA ResumeKeepsInv ==
    ASSUME IInv, Resume PROVE IInv'
  <1>1. /\ sturn # Idle /\ sturn \in Turn /\ sturn.new \in Stock /\ sturn.cost \in Nat
        /\ sturn.new.amt \in 0..Full /\ sturn.new.amt \in Nat
        /\ sturn.new.last \in 0..now /\ sturn.new.last \in Nat
        /\ now \in Nat /\ sused \in Nat /\ sact
        /\ Affordable(sused + sturn.cost + sturn.new.amt, sturn.new.last)
    <2>1. sturn # Idle
      BY DEF Resume, Idle
    <2>2. sturn.new.last <= now /\ sact /\ Affordable(sused + sturn.cost + sturn.new.amt, sturn.new.last)
      BY <2>1 DEF IInv, TurnOK, NothingFree
    <2> QED
      BY <2>1, <2>2, TurnFields, StaminaAssumption DEF IInv, TypeOK, Stock
  <1>2. /\ sturn' = Idle /\ sturn'.pc = "idle" /\ Pending' = 0
        /\ UNCHANGED <<now, srows, sact, sreqs, prompt, lost>>
    BY DEF Resume, Idle, Pending
  <1>3. sreps' \subseteq Reply
    BY <1>1 DEF IInv, TypeOK, Resume, Answer, Reply, ResultCode, Turn
  <1>4. CASE sturn.pc = "ok"
    <2> DEFINE last == IF sturn.stmt = "insert" THEN now ELSE sturn.new.last
    <2>1. /\ scache' = [amt |-> sturn.new.amt, exists |-> TRUE, last |-> last]
          /\ sused' = sused + sturn.cost /\ srows = {sturn.new}
      BY <1>1, <1>4 DEF Resume, Succeeded, IInv, TurnOK
    <2>2. last \in 0..now /\ last >= sturn.new.last /\ last \in Nat
      BY <1>1
    <2>3. Affordable(sused' + sturn.new.amt, last) /\ Affordable(sused' + 0 + sturn.new.amt, sturn.new.last)
      <3>1. Affordable(sused + sturn.cost + sturn.new.amt, last)
        BY <1>1, <2>2, AffordableLater
      <3>2. /\ sused' + sturn.new.amt = sused + sturn.cost + sturn.new.amt
            /\ sused' + 0 + sturn.new.amt = sused + sturn.cost + sturn.new.amt
        BY <1>1, <2>1
      <3> QED
        BY <1>1, <3>1, <3>2
    <2> HIDE DEF last
    <2>4. TypeOK' /\ RowsOK' /\ TurnOK'
      BY <1>1, <1>2, <1>3, <2>1, <2>2 DEF IInv, TypeOK, RowsOK, TurnOK
    <2>5. NothingFree'
      BY <1>1, <1>2, <2>1, <2>3 DEF NothingFree, Affordable
    <2> QED
      BY <2>4, <2>5 DEF IInv
  <1>5. CASE sturn.pc # "ok"
    <2>1. scache' = scache /\ sused' = sused /\ Pending = 0
      BY <1>5 DEF Resume, Succeeded, Pending
    <2>2. TypeOK' /\ RowsOK' /\ TurnOK'
      BY <1>1, <1>2, <1>3, <2>1 DEF IInv, TypeOK, RowsOK, TurnOK
    <2>3. NothingFree'
      BY <1>2, <2>1 DEF IInv, NothingFree, Affordable
    <2> QED
      BY <2>2, <2>3 DEF IInv
  <1> QED
    BY <1>4, <1>5

(* The cache is dropped; a crash may have let the statement through. *)
LEMMA DropKeepsInv ==
    ASSUME IInv, Deactivate \/ Crash PROVE IInv'
  <1>1. /\ UNCHANGED <<now, sused, prompt, lost>>
        /\ sact' = FALSE /\ scache' = NoCache /\ sturn' = Idle /\ sturn'.pc = "idle" /\ Pending' = 0
        /\ sreqs' \subseteq Request /\ sreps' \subseteq Reply
    BY DEF IInv, TypeOK, Deactivate, Crash, Idle, Pending
  <1>2. \/ srows' = srows
        \/ sturn.pc = "await" /\ srows' = {sturn.new}
    BY DEF Deactivate, Crash
  <1>3. NoCache \in [amt : 0..Full, last : 0..now, exists : BOOLEAN]
    <2>1. 0 \in 0..Full /\ 0 \in 0..now
      BY StaminaAssumption DEF IInv, TypeOK
    <2> QED
      BY <2>1 DEF NoCache
  <1>4. CASE srows' = srows
    <2>1. TypeOK' /\ RowsOK' /\ TurnOK'
      BY <1>1, <1>3, <1>4 DEF IInv, TypeOK, RowsOK, TurnOK
    <2>2. ASSUME NEW s \in srows PROVE Affordable(sused + 0 + s.amt, s.last)
      <3>1. /\ s.amt \in Nat /\ s.last \in Nat /\ sused \in Nat /\ Pending \in Nat
            /\ Affordable(sused + Pending + s.amt, s.last)
        BY <2>2, TurnFields, StaminaAssumption
           DEF IInv, TypeOK, Stock, NothingFree, Pending, Idle
      <3> QED
        BY <3>1, AffordableLater
    <2>3. NothingFree'
      BY <1>1, <1>4, <2>2 DEF IInv, NothingFree, Affordable
    <2> QED
      BY <2>1, <2>3 DEF IInv
  <1>5. CASE sturn.pc = "await" /\ srows' = {sturn.new}
    <2>1. /\ sturn # Idle /\ sturn.new \in Stock /\ sturn.new.last <= now
          /\ sturn.cost \in Nat /\ sturn.new.amt \in Nat /\ sturn.new.last \in Nat
          /\ sused \in Nat
      BY <1>5, TurnFields DEF IInv, Idle, TypeOK, TurnOK
    <2>2. TypeOK' /\ RowsOK' /\ TurnOK'
      BY <1>1, <1>3, <1>5, <2>1 DEF IInv, TypeOK, RowsOK, TurnOK
    <2>3. Affordable(sused + 0 + sturn.new.amt, sturn.new.last)
      BY <2>1, AffordableLater DEF IInv, NothingFree
    <2>4. NothingFree'
      BY <1>1, <1>5, <2>3 DEF NothingFree, Affordable
    <2> QED
      BY <2>2, <2>4 DEF IInv
  <1> QED
    BY <1>2, <1>4, <1>5

LEMMA StepKeepsInv == IInv /\ [Next]_svars => IInv'
  BY CallersKeepInv, TickKeepsInv, ActivateKeepsInv, BeginKeepsInv, StatementKeepsInv,
     ResumeKeepsInv, DropKeepsInv
     DEF Next, Serve, Fault

LEMMA AlwaysInv == Spec => []IInv
  BY InitInv, StepKeepsInv, PTL DEF Spec

(* An acknowledgement another grain loses changes nothing here. *)
LEMMA LossElsewhereKeepsInv ==
    ASSUME IInv, UNCHANGED <<now, srows, scache, sact, sturn, sreqs, sreps, sused, prompt>>,
           lost' \in Nat
    PROVE  IInv'
  <1>1. TypeOK' /\ RowsOK' /\ TurnOK'
    BY DEF IInv, TypeOK, RowsOK, TurnOK
  <1>2. NothingFree'
    <2>1. Pending' = Pending
      BY DEF Pending
    <2> QED
      BY <2>1 DEF IInv, NothingFree, Affordable
  <1> QED
    BY <1>1, <1>2 DEF IInv

(* What was granted in all could be given out by now. *)
LEMMA NothingIsFree ==
    ASSUME IInv PROVE NoFreeStamina
  <1>1. now \in Nat /\ sused \in Nat
    BY StaminaAssumption DEF IInv, TypeOK
  <1>2. Affordable(sused, now)
    <2>1. CASE srows = {}
      BY <1>1, <2>1, FullIsAffordable, AffordableLater, StaminaAssumption
         DEF IInv, NothingFree
    <2>2. ASSUME NEW s \in srows PROVE Affordable(sused, now)
      <3>1. /\ s.amt \in Nat /\ s.last \in Nat /\ Pending \in Nat /\ s.last <= now
            /\ Affordable(sused + Pending + s.amt, s.last)
        BY <2>2, TurnFields, StaminaAssumption
           DEF IInv, TypeOK, Stock, RowsOK, NothingFree, Pending, Idle
      <3> QED
        BY <1>1, <3>1, AffordableLater
    <2> QED
      BY <2>1, <2>2
  <1>3. PICK k \in Nat : (Interval = 0 => k = 0) /\ k * Interval <= now
                         /\ sused <= Full + k * Recover
    BY <1>2 DEF Affordable
  <1>4. CASE Interval = 0
    BY <1>1, <1>3, <1>4, StaminaAssumption DEF NoFreeStamina
  <1>5. CASE Interval # 0
    <2>1. now \div Interval \in Nat /\ k <= now \div Interval
      BY <1>1, <1>3, <1>5, WholeIntervals, StaminaAssumption
    <2>2. k * Recover <= (now \div Interval) * Recover /\ k * Recover \in Nat
          /\ (now \div Interval) * Recover \in Nat
      BY <2>1, Multiples, StaminaAssumption
    <2> QED
      BY <1>1, <1>3, <1>5, <2>2, StaminaAssumption DEF NoFreeStamina
  <1> QED
    BY <1>4, <1>5

(* PlayerStaminaGrain's row, cache and requests stay in their types, and no
   instant lies in the future.                                             *)
THEOREM StaminaTypeOK == Spec => []TypeOK
  <1>1. IInv => TypeOK
    BY DEF IInv
  <1> QED
    BY <1>1, AlwaysInv, PTL

(* ConsumeAsync never grants more than the player started with and the time
   since then is worth, whatever is lost, crashes, times out or restarts.  *)
THEOREM StaminaNoFreeStamina == Spec => []NoFreeStamina
  BY NothingIsFree, AlwaysInv, PTL

-----------------------------------------------------------------------------
(* The stamina a player sees.  While statements take no time and none is
   lost, the cache is the row and a statement takes its cost from what the
   row is worth by now.                                                    *)
Used ==
    /\ sturn.cost <= RecoveredAmount(scache)
    /\ sturn.new.amt = RecoveredAmount(scache) - sturn.cost
    /\ sturn.new.last = IF scache.exists THEN RecoveredAt(scache) ELSE now

Exact ==
    lost = 0 /\ prompt =>
        /\ \A s \in srows : s.amt < Full
        /\ sact /\ sturn.pc # "ok" =>
             srows = IF scache.exists THEN {[amt |-> scache.amt, last |-> scache.last]} ELSE {}
        /\ sturn.pc = "await" => Used
        /\ sturn.pc = "ok" /\ sturn.stmt = "insert" => sturn.new.last = now

Regenerates == R!Next \/ UNCHANGED <<Worth, Since>>

\* The stock a row that gained for k intervals has.
Grown(amt, k) == IF amt + k * Recover >= Full THEN Full ELSE amt + k * Recover

\* The seconds that count towards the next interval of s.
SinceOf(s) ==
    IF RecoveredAmount(s) >= Full \/ Interval = 0 THEN 0 ELSE (now - s.last) % Interval

LEMMA OneRow ==
    ASSUME NEW s, srows = {s}
    PROVE  Worth = RecoveredAmount(s) /\ Since = SinceOf(s)
  <1>1. (CHOOSE t \in srows : TRUE) = s
    OBVIOUS
  <1>2. Worth = RecoveredAmount(s)
    BY <1>1 DEF Worth
  <1> QED
    BY <1>1, <1>2 DEF Since, SinceOf

LEMMA NoRow ==
    ASSUME srows = {} PROVE Worth = Full /\ Since = 0
  BY StaminaAssumption DEF Worth, Since

(* Using a stock takes its cost from what it is worth and leaves the time
   towards the next interval as it was.                                    *)
LEMMA UseOfStock ==
    ASSUME now \in Nat, NEW s, s.amt \in 0..Full, s.last \in 0..now, s.amt < Full,
           NEW cost \in Nat, cost > 0, cost <= RecoveredAmount(s),
           NEW t, t.amt = RecoveredAmount(s) - cost, t.last = RecoveredAt(s)
    PROVE  RecoveredAmount(t) = RecoveredAmount(s) - cost /\ SinceOf(t) = SinceOf(s)
  <1>1. PICK k \in Nat :
             /\ Interval = 0 => k = 0
             /\ s.last + k * Interval <= now
             /\ Interval > 0 => Intervals(s) = k /\ now < s.last + k * Interval + Interval
             /\ RecoveredAmount(s) = IF s.amt + k * Recover >= Full THEN Full
                                     ELSE s.amt + k * Recover
             /\ RecoveredAt(s) = IF s.amt >= Full \/ k = 0 THEN s.last
                                 ELSE IF RecoveredAmount(s) >= Full THEN now
                                 ELSE s.last + k * Interval
    BY RecoveredBy
  <1>2. /\ k * Interval \in Nat /\ k * Recover \in Nat /\ (k = 0 => k * Recover = 0 /\ k * Interval = 0)
        /\ s.amt \in Nat /\ s.last \in Nat /\ Full \in Nat /\ Interval \in Nat
    BY Multiples, StaminaAssumption
  <1>3. RecoveredAmount(s) \in Nat /\ RecoveredAmount(s) <= Full
    BY <1>1, <1>2
  <1>4. CASE Interval = 0
    <2>1. Intervals(t) = 0 /\ SinceOf(t) = 0 /\ SinceOf(s) = 0
      BY <1>4 DEF Intervals, SinceOf
    <2> QED
      BY <2>1 DEF RecoveredAmount
  <1>5. CASE Interval > 0
    <2>1. PICK r \in Nat : r < Interval /\ now - s.last = (k * Interval) + r
      <3>1. s.last + k * Interval <= now /\ now < s.last + k * Interval + Interval
        BY <1>1, <1>5
      <3>2. PICK p \in Nat : p = k * Interval
        BY <1>2
      <3>3. s.last + p <= now /\ now < s.last + p + Interval
        BY <3>1, <3>2
      <3>4. now - s.last - p \in Nat /\ now - s.last - p < Interval
            /\ now - s.last = p + (now - s.last - p)
        BY <1>2, <3>3
      <3> QED
        BY <3>2, <3>4
    <2>2. (now - s.last) % Interval = r
      <3>1. now - s.last \in Nat /\ Interval \in Nat \ {0}
        BY <1>2, <1>5
      <3> QED
        BY <2>1, <3>1, QuotientIs
    <2>3. t.last = now - (IF RecoveredAmount(s) >= Full THEN 0 ELSE r)
      <3>1. CASE RecoveredAmount(s) >= Full
        <4>1. k # 0 /\ t.last = now
          BY <1>1, <1>2, <3>1
        <4> QED
          BY <3>1, <4>1
      <3>2. CASE RecoveredAmount(s) < Full
        <4>1. t.last = s.last + k * Interval
          BY <1>1, <1>2, <3>2
        <4>2. PICK p \in Nat : p = k * Interval
          BY <1>2
        <4>3. t.last = s.last + p /\ now - s.last = p + r
          BY <2>1, <4>1, <4>2
        <4> QED
          BY <1>2, <1>3, <3>2, <4>3
      <3> QED
        BY <1>2, <1>3, <3>1, <3>2
    <2> DEFINE q == IF RecoveredAmount(s) >= Full THEN 0 ELSE r
    <2>4. q \in Nat /\ q < Interval /\ now - t.last = q /\ q = (0 * Interval) + q
      BY <1>2, <1>5, <2>1, <2>3
    <2>5. (now - t.last) \div Interval = 0 /\ (now - t.last) % Interval = q
      BY <1>2, <1>5, <2>4, QuotientIs
    <2>6. RecoveredAmount(t) = t.amt
      BY <1>5, <2>5 DEF RecoveredAmount, Intervals
    <2>7. t.amt < Full
      BY <1>2, <1>3
    <2>8. SinceOf(t) = q
      <3>1. ~(RecoveredAmount(t) >= Full \/ Interval = 0)
        BY <1>2, <1>3, <1>5, <2>6, <2>7
      <3> QED
        BY <2>5, <3>1 DEF SinceOf
    <2>9. SinceOf(s) = q
      BY <1>5, <2>2 DEF SinceOf
    <2> QED
      BY <2>6, <2>8, <2>9
  <1> QED
    BY <1>2, <1>4, <1>5

(* A stock that was just inserted has lost its cost and starts to count. *)
LEMMA UseOfFull ==
    ASSUME now \in Nat, NEW t, NEW cost \in Nat, cost > 0, cost <= Full,
           t.amt = Full - cost, t.last = now
    PROVE  RecoveredAmount(t) = Full - cost /\ SinceOf(t) = 0
  <1>1. CASE Interval = 0
    <2>1. Intervals(t) = 0 /\ SinceOf(t) = 0
      BY <1>1 DEF Intervals, SinceOf
    <2> QED
      BY <2>1 DEF RecoveredAmount
  <1>2. CASE Interval > 0
    <2>1. now - t.last = (0 * Interval) + 0
      BY StaminaAssumption
    <2>2. (now - t.last) \div Interval = 0 /\ (now - t.last) % Interval = 0
      BY <1>2, <2>1, QuotientIs, StaminaAssumption
    <2> QED
      BY <2>2 DEF RecoveredAmount, Intervals, SinceOf
  <1> QED
    BY <1>1, <1>2, StaminaAssumption

(* What a second does to a stock that is not full. *)
LEMMA Seconds ==
    ASSUME now \in Nat, now' = now + 1, NEW s, s.amt \in 0..Full, s.last \in 0..now, s.amt < Full
    PROVE  \/ RecoveredAmount(s)' = RecoveredAmount(s) /\ SinceOf(s)' = SinceOf(s)
           \/ /\ RecoveredAmount(s) < Full
              /\ IF SinceOf(s) + 1 = Interval
                 THEN /\ RecoveredAmount(s)' = IF RecoveredAmount(s) + Recover >= Full
                                               THEN Full ELSE RecoveredAmount(s) + Recover
                      /\ SinceOf(s)' = 0
                 ELSE RecoveredAmount(s)' = RecoveredAmount(s) /\ SinceOf(s)' = SinceOf(s) + 1
  <1>1. s.amt \in Nat /\ s.last \in Nat /\ Full \in Nat /\ Interval \in Nat /\ Recover \in Nat
    BY StaminaAssumption
  <1>2. CASE Interval = 0
    <2>1. Intervals(s) = 0 /\ Intervals(s)' = 0 /\ SinceOf(s) = 0 /\ SinceOf(s)' = 0
      BY <1>2 DEF Intervals, SinceOf
    <2> QED
      BY <2>1 DEF RecoveredAmount
  <1>3. CASE Interval > 0
    <2>1. now - s.last \in Nat /\ now + 1 - s.last = (now - s.last) + 1 /\ Interval \in Nat \ {0}
      BY <1>1, <1>3
    <2>2. PICK k \in Nat, r \in Nat :
             /\ k = (now - s.last) \div Interval /\ r = (now - s.last) % Interval
             /\ r < Interval /\ now - s.last = (k * Interval) + r
      BY <2>1, Quotient
    <2>3. r < Interval /\ now - s.last = (k * Interval) + r
      BY <2>2
    <2>4. /\ k * Interval \in Nat /\ (k + 1) * Interval = k * Interval + Interval
          /\ k * Recover \in Nat /\ (k + 1) * Recover = k * Recover + Recover
          /\ k = 0 => k * Recover = 0
      BY <1>1, Multiples
    <2>5. PICK j \in Nat, q \in Nat :
             IF r + 1 = Interval THEN j = k + 1 /\ q = 0 ELSE j = k /\ q = r + 1
      BY <1>1
    <2>6. j * Interval = IF r + 1 = Interval THEN k * Interval + Interval ELSE k * Interval
      BY <2>4, <2>5
    <2>7. now + 1 - s.last = (j * Interval) + q /\ q < Interval /\ now + 1 - s.last \in Nat
      BY <2>1, <2>3, <2>4, <2>5, <2>6
    <2>8. (now + 1 - s.last) \div Interval = j /\ (now + 1 - s.last) % Interval = q
      BY <2>1, <2>7, QuotientIs
    <2>9. Intervals(s) = k /\ Intervals(s)' = j
      <3>1. Interval # 0
        BY <1>3
      <3>2. Intervals(s) = (now - s.last) \div Interval /\ Intervals(s)' = (now' - s.last) \div Interval
        BY <3>1, Zenon DEF Intervals
      <3>3. Intervals(s)' = (now + 1 - s.last) \div Interval
        <4>1. now' = now + 1
          OBVIOUS
        <4> QED
          BY <3>2, <4>1
      <3> QED
        BY <2>2, <2>8, <3>2, <3>3, Zenon
    <2>10. RecoveredAmount(s) = IF k = 0 THEN s.amt ELSE Grown(s.amt, k)
      <3>1. s.amt < Full /\ (k <= 0 <=> k = 0)
        BY <2>2
      <3> QED
        BY <1>1, <2>9, <3>1 DEF RecoveredAmount, Grown
    <2>11. RecoveredAmount(s)' = IF j = 0 THEN s.amt ELSE Grown(s.amt, j)
      <3>1. s.amt < Full /\ (j <= 0 <=> j = 0)
        BY <2>5
      <3> QED
        BY <1>1, <2>9, <3>1 DEF RecoveredAmount, Grown
    <2>12. /\ k = 0 => Grown(s.amt, k) = s.amt
           /\ j = 0 => Grown(s.amt, j) = s.amt
      <3>1. 0 * Recover = 0
        BY <1>1
      <3> QED
        BY <1>1, <3>1 DEF Grown
    <2>13. RecoveredAmount(s) = Grown(s.amt, k) /\ RecoveredAmount(s)' = Grown(s.amt, j)
      BY <2>10, <2>11, <2>12
    <2>14. SinceOf(s) = IF RecoveredAmount(s) >= Full THEN 0 ELSE r
      BY <2>1, <2>2 DEF SinceOf
    <2>15. SinceOf(s)' = IF RecoveredAmount(s)' >= Full THEN 0 ELSE q
      BY <2>1, <2>8 DEF SinceOf
    <2>16. Grown(s.amt, k) = IF s.amt + k * Recover >= Full THEN Full ELSE s.amt + k * Recover
      BY DEF Grown
    <2>17. Grown(s.amt, j) =
             IF r + 1 = Interval
             THEN IF s.amt + k * Recover + Recover >= Full THEN Full
                  ELSE s.amt + k * Recover + Recover
             ELSE Grown(s.amt, k)
      BY <1>1, <2>4, <2>5 DEF Grown
    <2>18. k * Recover \in Nat /\ (IF r + 1 = Interval THEN q = 0 ELSE q = r + 1) /\ r < Interval
      BY <2>3, <2>4, <2>5
    <2> QED
      BY <1>1, <2>13, <2>14, <2>15, <2>16, <2>17, <2>18
  <1> QED
    BY <1>1, <1>2, <1>3

-----------------------------------------------------------------------------
(* Steps that neither write the row nor let time pass leave what the player
   sees alone.                                                             *)
LEMMA SameRow ==
    ASSUME now' = now, srows' = srows PROVE Regenerates
  BY DEF Regenerates, Worth, Since, RecoveredAmount, Intervals

(* They keep the cache exact if they keep what it is compared with. *)
LEMMA SameUse ==
    ASSUME Exact, UNCHANGED <<now, srows, scache, prompt, lost>>,
           sact' => sact,
           sturn' = sturn \/ (sturn' = [sturn EXCEPT !.live = FALSE] /\ sturn \in Turn)
    PROVE  Exact'
  <1>1. /\ sturn'.pc = sturn.pc
        /\ sturn.pc # "idle" => /\ sturn'.cost = sturn.cost /\ sturn'.new = sturn.new
                                /\ sturn'.stmt = sturn.stmt
    BY DEF Turn
  <1>2. sturn.pc = "await" /\ Used => Used'
    BY <1>1 DEF Used, RecoveredAmount, RecoveredAt, Intervals
  <1> QED
    BY <1>1, <1>2 DEF Exact

(* The statement takes its cost from what the player has. *)
LEMMA StatementUses ==
    ASSUME IInv, Exact, lost = 0, prompt, sturn.pc = "await",
           ~Conflict, Affected, now' = now, srows' = {sturn.new}
    PROVE  Regenerates /\ sturn.new.amt < Full
  <1>1. /\ sturn # Idle /\ sturn.cost \in Nat /\ sturn.cost > 0 /\ sturn.cost \in Costs
        /\ sturn.stmt = "update" <=> scache.exists
        /\ sturn.stmt \in {"insert", "update"}
        /\ sact /\ (~scache.exists => scache.amt = Full)
        /\ now \in Nat /\ now' \in Nat /\ Used
        /\ scache.amt \in 0..Full /\ scache.last \in 0..now
    BY TurnFields, StaminaAssumption DEF IInv, TurnOK, Exact, Idle, TypeOK, Turn
  <1>2. /\ Worth' = RecoveredAmount(sturn.new)
        /\ Since' = SinceOf(sturn.new)
    <2>1. PICK t : t = sturn.new
      OBVIOUS
    <2>2. srows' = {t} /\ (CHOOSE u \in srows' : TRUE) = t
      BY <2>1
    <2>3. Worth' = RecoveredAmount(t)
      BY <2>2 DEF Worth, RecoveredAmount, Intervals
    <2>4. Since' = SinceOf(t)
      BY <2>2, <2>3 DEF Since, SinceOf
    <2> QED
      BY <2>1, <2>3, <2>4
  <1>3. CASE scache.exists
    <2> DEFINE s == [amt |-> scache.amt, last |-> scache.last]
    <2>1. srows = {s} /\ s.amt < Full /\ s.amt = scache.amt /\ s.last = scache.last
      BY <1>1, <1>3 DEF Exact
    <2>2. /\ RecoveredAmount(s) = RecoveredAmount(scache)
          /\ RecoveredAt(s) = RecoveredAt(scache)
      BY <2>1 DEF RecoveredAmount, RecoveredAt, Intervals
    <2> HIDE DEF s
    <2>3. Worth = RecoveredAmount(s) /\ Since = SinceOf(s)
      BY <2>1, OneRow
    <2>4. /\ sturn.cost <= RecoveredAmount(s)
          /\ sturn.new.amt = RecoveredAmount(s) - sturn.cost /\ sturn.new.last = RecoveredAt(s)
      BY <1>1, <1>3, <2>2 DEF Used
    <2>5. /\ RecoveredAmount(sturn.new) = RecoveredAmount(s) - sturn.cost
          /\ SinceOf(sturn.new) = SinceOf(s)
      BY <1>1, <2>1, <2>4, UseOfStock
    <2>6. R!Use(sturn.cost)
      BY <1>1, <1>2, <2>3, <2>4, <2>5 DEF R!Use
    <2>7. RecoveredAmount(s) \in 0..Full
      <3>1. PICK k \in Nat : RecoveredAmount(s) = IF s.amt + k * Recover >= Full THEN Full
                                                  ELSE s.amt + k * Recover
        BY <1>1, <2>1, RecoveredBy
      <3>2. k * Recover \in Nat
        BY Multiples, StaminaAssumption
      <3> QED
        BY <1>1, <2>1, <3>1, <3>2, StaminaAssumption
    <2> QED
      BY <1>1, <2>4, <2>6, <2>7, StaminaAssumption DEF R!Next, Regenerates
  <1>4. CASE ~scache.exists
    <2>1. srows = {} /\ scache.amt = Full
      BY <1>1, <1>4 DEF Exact
    <2>2. RecoveredAmount(scache) = Full
      BY <2>1, StaminaAssumption DEF RecoveredAmount
    <2>3. /\ sturn.cost <= Full /\ sturn.new.amt = Full - sturn.cost /\ sturn.new.last = now
      BY <1>1, <1>4, <2>2 DEF Used
    <2>4. RecoveredAmount(sturn.new) = Full - sturn.cost /\ SinceOf(sturn.new) = 0
      BY <1>1, <2>3, UseOfFull
    <2>5. R!Use(sturn.cost)
      BY <1>1, <1>2, <2>1, <2>3, <2>4, NoRow DEF R!Use
    <2> QED
      BY <1>1, <2>3, <2>5, StaminaAssumption DEF R!Next, Regenerates
  <1> QED
    BY <1>3, <1>4

(* A second that passes is a second of the regeneration. *)
LEMMA TickRegenerates ==
    ASSUME IInv, Exact, Tick, lost = 0, prompt'
    PROVE  Regenerates /\ Exact'
  <1>1. /\ now \in Nat /\ now' = now + 1 /\ prompt /\ sturn = Idle /\ sturn.pc = "idle"
        /\ UNCHANGED <<srows, scache, sact, sturn, lost>>
    <2>1. prompt /\ sturn = Idle
      BY Zenon DEF Tick
    <2>2. now' = now + 1 /\ UNCHANGED <<srows, scache, sact, sturn, lost>>
      BY DEF Tick
    <2>3. now \in Nat
      BY StaminaAssumption DEF IInv, TypeOK
    <2> QED
      BY <2>1, <2>2, <2>3 DEF Idle
  <1>2. Exact'
    BY <1>1 DEF Exact
  <1>3. CASE srows = {}
    <2>1. Worth' = Worth /\ Since' = Since
      BY <1>1, <1>3, StaminaAssumption DEF Worth, Since
    <2> QED
      BY <1>2, <2>1 DEF Regenerates
  <1>4. ASSUME NEW s \in srows PROVE Regenerates
    <2>1. srows = {s} /\ s.amt \in 0..Full /\ s.last \in 0..now /\ s.amt < Full
      BY <1>1, <1>4, StaminaAssumption DEF IInv, TypeOK, RowsOK, Stock, Exact
    <2>2. Worth = RecoveredAmount(s) /\ Since = SinceOf(s)
      BY <2>1, OneRow
    <2>3. Worth' = RecoveredAmount(s)' /\ Since' = SinceOf(s)'
      <3>1. srows' = {s} /\ (CHOOSE t \in srows' : TRUE) = s
        BY <1>1, <2>1
      <3>2. Worth' = RecoveredAmount(s)'
        BY <3>1 DEF Worth
      <3> QED
        BY <3>1, <3>2 DEF Since, SinceOf
    <2>4. \/ Worth' = Worth /\ Since' = Since
          \/ /\ Worth < Full
             /\ IF Since + 1 = Interval
                THEN /\ Worth' = IF Worth + Recover >= Full THEN Full ELSE Worth + Recover
                     /\ Since' = 0
                ELSE Worth' = Worth /\ Since' = Since + 1
      BY <1>1, <2>1, <2>2, <2>3, Seconds
    <2> QED
      BY <2>4 DEF Regenerates, R!Next, R!Second, R!Gained
  <1> QED
    BY <1>2, <1>3, <1>4

LEMMA StepRegenerates ==
    ASSUME IInv, Exact, [Next]_svars
    PROVE  Exact' /\ (lost = 0 /\ prompt' => Regenerates)
  <1>1. CASE \/ \E m \in Request : Send(m)
             \/ \E c \in Callers : Receive(c) \/ TimeOut(c)
             \/ ActivateFails
             \/ UNCHANGED svars
    <2>1. /\ UNCHANGED <<now, srows, scache, sact, prompt, lost>>
          /\ sturn' = sturn \/ (sturn # Idle /\ sturn' = [sturn EXCEPT !.live = FALSE])
      BY <1>1 DEF Send, Receive, TimeOut, ActivateFails, svars
    <2>2. sturn # Idle => sturn \in Turn
      BY TurnFields DEF IInv
    <2> QED
      BY <2>1, <2>2, SameRow, SameUse
  <1>2. CASE Tick
    <2>1. ASSUME ~(lost = 0 /\ prompt') PROVE Exact'
      BY <1>2, <2>1 DEF Tick, Exact
    <2> QED
      BY <1>2, <2>1, TickRegenerates
  <1>3. CASE Activate
    <2>1. /\ UNCHANGED <<now, srows, sturn, prompt, lost>> /\ sturn = Idle /\ sturn.pc = "idle"
      BY <1>3 DEF Activate, IInv, TurnOK, Idle
    <2>2. srows' = IF scache'.exists THEN {[amt |-> scache'.amt, last |-> scache'.last]} ELSE {}
      <3>1. CASE srows = {} /\ scache' = [amt |-> Full, last |-> now, exists |-> FALSE]
        BY <2>1, <3>1
      <3>2. ASSUME NEW s \in srows, scache' = [amt |-> s.amt, last |-> s.last, exists |-> TRUE]
            PROVE  srows' = {[amt |-> scache'.amt, last |-> scache'.last]} /\ scache'.exists
        <4>1. s \in Stock /\ srows = {s}
          BY <3>2 DEF IInv, TypeOK, RowsOK
        <4> QED
          BY <2>1, <3>2, <4>1 DEF Stock
      <3> QED
        BY <1>3, <3>1, <3>2 DEF Activate
    <2> QED
      BY <2>1, <2>2, SameRow DEF Exact
  <1>4. ASSUME NEW m \in sreqs, Begin(m) PROVE Exact' /\ Regenerates
    <2>1. UNCHANGED <<now, srows, scache, sact, prompt, lost>> /\ sturn = Idle /\ sact
      BY <1>4 DEF Begin
    <2>2. CASE sturn' = sturn
      BY <2>1, <2>2, SameRow, SameUse
    <2>3. CASE m.cost > 0 /\ Covers(m.cost) /\ Submit(m)
      <3>1. /\ sturn'.pc = "await" /\ sturn'.cost = m.cost
            /\ sturn'.new.amt = RecoveredAmount(scache) - m.cost
            /\ sturn'.new.last = IF scache.exists THEN RecoveredAt(scache) ELSE now
            /\ m.cost \in Nat /\ RecoveredAmount(scache) >= m.cost
        BY <1>4, <2>3, StaminaAssumption DEF Submit, Covers, IInv, TypeOK, Request
      <3>2. Used'
        <4>1. /\ RecoveredAmount(scache)' = RecoveredAmount(scache)
              /\ RecoveredAt(scache)' = RecoveredAt(scache)
          BY <2>1 DEF RecoveredAmount, RecoveredAt, Intervals
        <4>2. m.cost <= RecoveredAmount(scache)
          BY <3>1
        <4> QED
          BY <2>1, <3>1, <4>1, <4>2, Zenon DEF Used
      <3>3. sturn.pc # "ok"
        BY <2>1 DEF Idle
      <3> QED
        BY <2>1, <3>1, <3>2, <3>3, SameRow DEF Exact
    <2> QED
      BY <1>4, <2>2, <2>3 DEF Begin
  <1>5. CASE Apply \/ Fail \/ LoseAck
    <2>1. /\ UNCHANGED <<now, scache, sact, prompt>> /\ sturn.pc = "await"
          /\ sturn # Idle /\ sturn \in Turn
      BY <1>5, TurnFields DEF Apply, Fail, LoseAck, IInv, Idle
    <2>2. /\ sturn.stmt = "update" <=> scache.exists
          /\ sturn.stmt \in {"insert", "update"} /\ lost \in Nat
      BY <2>1 DEF IInv, TurnOK, Turn, TypeOK
    <2>3. CASE Fail
      <3>1. sturn'.pc = "failed" /\ lost' = lost /\ srows' = srows
        BY <2>1, <2>3 DEF Fail, Turn
      <3> QED
        BY <2>1, <3>1, SameRow DEF Exact
    <2>4. CASE Apply /\ ~Affected
      <3>1. sturn'.pc = "norow" /\ lost' = lost /\ srows' = srows
        BY <2>1, <2>4 DEF Apply, Turn
      <3> QED
        BY <2>1, <3>1, SameRow DEF Exact
    <2>5. CASE (Apply /\ Affected) \/ LoseAck
      <3>1. srows' = {sturn.new} /\ ~Conflict /\ Affected
        BY <2>5 DEF Apply, LoseAck
      <3>2. lost = 0 /\ prompt => Regenerates /\ sturn.new.amt < Full
        BY <2>1, <3>1, StatementUses
      <3>3. CASE Apply
        <4>1. /\ sturn'.pc = "ok" /\ lost' = lost
              /\ sturn'.new = sturn.new /\ sturn'.stmt = sturn.stmt
          BY <2>1, <3>1, <3>3 DEF Apply, Turn
        <4>2. lost = 0 /\ prompt /\ sturn.stmt = "insert" => sturn.new.last = now
          BY <2>1, <2>2 DEF Exact, Used
        <4> QED
          BY <2>1, <3>1, <3>2, <4>1, <4>2 DEF Exact
      <3>4. CASE LoseAck
        BY <2>1, <2>2, <3>2, <3>4 DEF LoseAck, Exact
      <3> QED
        BY <2>5, <3>3, <3>4
    <2> QED
      BY <1>5, <2>3, <2>4, <2>5
  <1>6. CASE Resume
    <2>1. /\ UNCHANGED <<now, srows, sact, prompt, lost>> /\ sturn' = Idle /\ sturn'.pc = "idle"
          /\ sturn # Idle
      BY <1>6 DEF Resume, Idle
    <2>2. CASE sturn.pc = "ok"
      <3>1. /\ srows = {sturn.new} /\ sturn.new \in Stock
            /\ scache' = [amt |-> sturn.new.amt, exists |-> TRUE,
                          last |-> IF sturn.stmt = "insert" THEN now ELSE sturn.new.last]
        BY <1>6, <2>1, <2>2, TurnFields DEF Resume, Succeeded, IInv, TurnOK
      <3>2. lost = 0 /\ prompt => scache'.last = sturn.new.last
        BY <2>2, <3>1 DEF Exact
      <3>3. lost = 0 /\ prompt => srows = {[amt |-> scache'.amt, last |-> scache'.last]}
        BY <3>1, <3>2 DEF Stock
      <3> QED
        BY <2>1, <3>1, <3>3, SameRow DEF Exact
    <2>3. CASE sturn.pc # "ok"
      <3>1. scache' = scache
        BY <1>6, <2>3 DEF Resume, Succeeded
      <3> QED
        BY <2>1, <2>3, <3>1, SameRow DEF Exact
    <2> QED
      BY <2>2, <2>3
  <1>7. CASE Deactivate \/ Crash
    <2>1. /\ UNCHANGED <<now, prompt, lost>> /\ sact' = FALSE /\ sturn' = Idle
          /\ sturn'.pc = "idle"
      BY <1>7 DEF Deactivate, Crash, Idle
    <2>2. CASE srows' = srows
      BY <2>1, <2>2, SameRow DEF Exact
    <2>3. CASE srows' # srows
      <3>1. sturn.pc = "await" /\ srows' = {sturn.new} /\ ~Conflict /\ Affected
        BY <1>7, <2>3 DEF Deactivate, Crash
      <3>2. lost = 0 /\ prompt => Regenerates /\ sturn.new.amt < Full
        BY <2>1, <3>1, StatementUses
      <3> QED
        BY <2>1, <3>1, <3>2 DEF Exact
    <2> QED
      BY <2>2, <2>3
  <1> QED
    BY <1>1, <1>2, <1>3, <1>4, <1>5, <1>6, <1>7 DEF Next, Serve, Fault

(* As long as statements take no time and none is lost, a player cannot tell
   the amount CalculateRecoveredAmount computes on demand from a stock that
   recovers second by second, whatever restarts, fails or times out.       *)
THEOREM StaminaImplementsRegeneration == Spec => ImplementsRegeneration
  <1>1. Init => R!Init /\ Exact
    BY NoRow DEF Init, R!Init, Exact, Idle
  <1>2. IInv /\ Exact /\ [Next]_svars =>
          /\ Exact'
          /\ [lost = 0 /\ prompt' => R!Next \/ UNCHANGED <<Worth, Since>>]_svars
    BY StepRegenerates DEF Regenerates
  <1> QED
    BY <1>1, <1>2, AlwaysInv, PTL DEF Spec, ImplementsRegeneration
=============================================================================
