---------------------------- MODULE WalletProofs ----------------------------
(***************************************************************************)
(* Wallet, for every set of callers, currencies and amounts.  The          *)
(* invariant that carries the proofs compares each row with the balance    *)
(* the activation takes it to have, Seen: what is cached, or what the      *)
(* running request is about to cache.                                      *)
(***************************************************************************)
EXTENDS Wallet, TLAPS

Seen(c) ==
    IF wturn.pc = "ok" /\ wturn.cur = c
    THEN IF wturn.op = "Spend" THEN wturn.bal - wturn.amt ELSE wturn.bal + wturn.amt
    ELSE wcache[c]

\* Requests run on an activation that cached every row, and what they were
\* checked for before their await still holds of their captured balance.
TurnOK ==
    /\ wact => DOMAIN wcache = DOMAIN Start
    /\ lost \in 0..MaxLost
    /\ wturn # Idle =>
        /\ wact /\ wturn.bal = Balance(wturn.cur)
        /\ wturn.op = "Spend" => wturn.amt \in Amounts /\ wturn.bal >= wturn.amt
        /\ wturn.op = "Add" => wturn.amt > 0 /\ wturn.bal + wturn.amt <= 0
        /\ wturn.pc = "ok" => wturn.cur \in DOMAIN Start

\* The activation overestimates a row by at most what lost acknowledgements
\* hide, and not at all before the first.
SeenBounded ==
    wact => \A c \in DOMAIN Start :
        /\ Seen(c) <= wrows[c] + lost * MaxAmount
        /\ lost = 0 => Seen(c) = wrows[c]

IInv == TypeOK /\ TurnOK /\ SeenBounded /\ OverdraftBounded

-----------------------------------------------------------------------------
(* What one lost acknowledgement adds to the bound. *)
LEMMA HiddenAmount ==
    ASSUME NEW n \in Nat
    PROVE  /\ n * MaxAmount \in Nat
           /\ n = 0 => n * MaxAmount = 0
           /\ (n + 1) * MaxAmount = n * MaxAmount + MaxAmount
  BY SMT, WalletAssumption

(* A turn's record: an idle one has no request. *)
LEMMA TurnPc ==
    ASSUME TypeOK
    PROVE  wturn = Idle \/ (wturn \in Turn /\ wturn # Idle)
  BY DEF TypeOK, Turn, Idle

LEMMA InitInv == Init => IInv
  <1> SUFFICES ASSUME Init PROVE IInv
    OBVIOUS
  <1> USE WalletAssumption DEF Init, Idle, NoCache
  <1>1. TypeOK
    <2>1. wrows \in [DOMAIN Start -> Int]
      OBVIOUS
    <2>2. wcache \in [DOMAIN wcache -> Int] /\ DOMAIN wcache \subseteq DOMAIN Start
      OBVIOUS
    <2>3. wtaken \in [Callers -> Nat] /\ lost \in Nat /\ wact \in BOOLEAN
      OBVIOUS
    <2>4. wturn \in Turn \cup {Idle} /\ wreqs \subseteq Request /\ wreps \subseteq Reply
      OBVIOUS
    <2> QED
      BY <2>1, <2>2, <2>3, <2>4 DEF TypeOK
  <1>2. TurnOK
    BY DEF TurnOK
  <1>3. SeenBounded
    BY DEF SeenBounded
  <1>4. OverdraftBounded
    <2>1. lost * MaxAmount = 0
      BY HiddenAmount
    <2>2. \A c \in DOMAIN Start : Start[c] \in Nat
      OBVIOUS
    <2>3. wrows = Start
      OBVIOUS
    <2> HIDE DEF Init
    <2> QED
      BY <2>1, <2>2, <2>3 DEF OverdraftBounded
  <1> QED
    BY <1>1, <1>2, <1>3, <1>4 DEF IInv

(* The caller's side touches neither rows nor cache. *)
LEMMA CallersKeepInv ==
    ASSUME IInv,
           \/ \E m \in Request : Send(m)
           \/ \E c \in Callers : Receive(c) \/ TimeOut(c)
           \/ ActivateFails
           \/ UNCHANGED wvars
    PROVE  IInv'
  <1>1. /\ wrows' = wrows /\ wcache' = wcache /\ wact' = wact
        /\ wtaken' = wtaken /\ lost' = lost
        /\ wreqs' \subseteq Request /\ wreps' \subseteq Reply
    BY DEF IInv, TypeOK, Send, Receive, TimeOut, ActivateFails, wvars, Request,
           Reply, ResultCode
  <1>2. \/ wturn' = wturn
        \/ wturn # Idle /\ wturn' = [wturn EXCEPT !.live = FALSE]
    BY DEF Send, Receive, TimeOut, ActivateFails, wvars
  <1>3. CASE wturn' = wturn
    BY <1>1, <1>3 DEF IInv, TypeOK, TurnOK, SeenBounded, OverdraftBounded, Seen, Balance
  <1>4. CASE wturn # Idle /\ wturn' = [wturn EXCEPT !.live = FALSE]
    <2>1. /\ wturn \in Turn /\ wturn' \in Turn /\ wturn' # Idle
          /\ wturn'.pc = wturn.pc /\ wturn'.op = wturn.op /\ wturn'.cur = wturn.cur
          /\ wturn'.amt = wturn.amt /\ wturn'.bal = wturn.bal
      BY <1>4 DEF IInv, TypeOK, Turn, Idle
    <2> QED
      BY <1>1, <1>4, <2>1 DEF IInv, TypeOK, TurnOK, SeenBounded, OverdraftBounded,
                              Seen, Balance
  <1> QED
    BY <1>2, <1>3, <1>4

LEMMA ActivateKeepsInv ==
    ASSUME IInv, Activate PROVE IInv'
  <1> USE DEF IInv, Activate
  <1>1. wturn = Idle
    BY DEF TurnOK
  <1>2. TypeOK'
    BY <1>1 DEF TypeOK
  <1>3. TurnOK'
    BY <1>1 DEF TypeOK, TurnOK
  <1>4. SeenBounded'
    BY <1>1, HiddenAmount DEF TypeOK, SeenBounded, Seen, Idle
  <1>5. OverdraftBounded'
    BY DEF OverdraftBounded
  <1> QED
    BY <1>2, <1>3, <1>4, <1>5

(* A request that starts captures the balance it checked. *)
LEMMA BeginKeepsInv ==
    ASSUME IInv, NEW m \in wreqs, Begin(m) PROVE IInv'
  <1> USE DEF IInv, Begin
  <1>1. m \in Request /\ wturn = Idle
    BY DEF TypeOK
  <1>2. /\ wrows' = wrows /\ wcache' = wcache /\ wact' = wact
        /\ wtaken' = wtaken /\ lost' = lost
    OBVIOUS
  <1>3. OverdraftBounded'
    BY <1>2 DEF OverdraftBounded
  <1>4. CASE AnswerAtOnce(m) /\ UNCHANGED wturn
    <2>1. wreps' \subseteq Reply
      BY <1>1, <1>4 DEF AnswerAtOnce, Answer, TypeOK, Reply, Request, ResultCode
    <2>2. TypeOK' /\ TurnOK' /\ SeenBounded'
      BY <1>2, <1>4, <2>1 DEF TypeOK, TurnOK, SeenBounded, Seen, Balance
    <2> QED
      BY <1>3, <2>2
  <1>5. CASE Submit(m) /\ UNCHANGED wreps
    <2>1. Balance(m.cur) \in Int
      BY DEF TypeOK, Balance
    <2>2. PICK amt \in 0..MaxAmount :
             /\ wturn' = Awaiting(m, amt) /\ m.op \in {"Spend", "Add"}
             /\ m.op = "Spend" => amt \in Amounts /\ Balance(m.cur) >= amt
             /\ m.op = "Add" => amt > 0 /\ Balance(m.cur) + amt <= 0
      <3>1. m.amt \in 0..MaxAmount /\ m.amt \in Amounts /\ MaxAmount \in Nat
        BY <1>1, WalletAssumption DEF Request
      <3>2. CASE m.op = "Spend" /\ Covers(m.cur, m.amt) /\ wturn' = Awaiting(m, m.amt)
        BY <3>1, <3>2 DEF Covers
      <3>3. CASE /\ m.op = "Add" /\ AddAmount(m.amt, Balance(m.cur)) > 0
                 /\ wturn' = Awaiting(m, AddAmount(m.amt, Balance(m.cur)))
        <4>1. /\ AddAmount(m.amt, Balance(m.cur)) \in 0..MaxAmount
              /\ Balance(m.cur) + AddAmount(m.amt, Balance(m.cur)) <= 0
          BY <2>1, <3>1, <3>3 DEF AddAmount
        <4> QED
          BY <3>3, <4>1
      <3> QED
        BY <1>5, <3>2, <3>3 DEF Submit
    <2>3. /\ wturn' \in Turn /\ wturn' # Idle /\ wturn'.pc = "await"
          /\ wturn'.op = m.op /\ wturn'.cur = m.cur /\ wturn'.amt = amt
          /\ wturn'.bal = Balance(m.cur)
      BY <1>1, <2>1, <2>2 DEF Awaiting, Turn, Idle, Request
    <2>4. TypeOK'
      BY <1>2, <1>5, <2>3 DEF TypeOK
    <2>5. TurnOK'
      BY <1>2, <2>2, <2>3 DEF TurnOK, Balance
    <2>6. SeenBounded'
      BY <1>1, <1>2, <2>3 DEF SeenBounded, Seen, Idle
    <2> QED
      BY <1>3, <2>4, <2>5, <2>6
  <1> QED
    BY <1>4, <1>5

(* What the pending UPDATE does to the rows: the bound survives it, because
   the balance it was checked against overestimates the row by no more than
   lost acknowledgements hide.                                             *)
LEMMA UpdatedRows ==
    ASSUME IInv, wturn.pc = "await"
    PROVE  /\ wturn \in Turn /\ wturn # Idle /\ wact
           /\ Updated \in [DOMAIN Start -> Int]
           /\ Taken \in [Callers -> Nat]
           /\ \A c \in DOMAIN Start : Updated[c] >= -(lost * MaxAmount)
           /\ \A c \in DOMAIN Start :
                Updated[c] = IF c # wturn.cur THEN wrows[c]
                             ELSE IF wturn.op = "Spend" THEN wrows[c] - wturn.amt
                             ELSE wrows[c] + wturn.amt
  <1> USE DEF IInv
  <1>1. wturn \in Turn /\ wturn # Idle /\ wact
    BY TurnPc DEF Idle, TurnOK
  <1>2. /\ wturn.cur \in Currencies /\ wturn.amt \in Nat /\ wturn.from \in Callers
        /\ wturn.op \in {"Spend", "Add"} /\ wturn.bal \in Int
    BY <1>1, WalletAssumption DEF Turn
  <1>3. /\ DOMAIN wrows = DOMAIN Start /\ \A c \in DOMAIN Start : wrows[c] \in Int
        /\ wrows \in [DOMAIN Start -> Int]
    BY DEF TypeOK
  <1>4. Updated \in [DOMAIN Start -> Int]
    BY <1>2, <1>3 DEF Updated
  <1>5. \A c \in DOMAIN Start :
           Updated[c] = IF c # wturn.cur THEN wrows[c]
                        ELSE IF wturn.op = "Spend" THEN wrows[c] - wturn.amt
                        ELSE wrows[c] + wturn.amt
    BY <1>2, <1>3 DEF Updated
  <1>6. ASSUME NEW c \in DOMAIN Start
        PROVE  Updated[c] >= -(lost * MaxAmount)
    <2>1. wrows[c] >= -(lost * MaxAmount) /\ lost * MaxAmount \in Nat
      BY <1>3, HiddenAmount DEF OverdraftBounded, TypeOK
    <2>2. CASE c = wturn.cur /\ wturn.op = "Spend"
      <3>1. wcache[c] <= wrows[c] + lost * MaxAmount
        BY <1>1, <2>2 DEF SeenBounded, Seen
      <3>2. wcache[c] = wturn.bal /\ wturn.bal >= wturn.amt
        BY <1>1, <2>2 DEF TurnOK, Balance
      <3> QED
        BY <1>2, <1>3, <1>5, <2>1, <2>2, <3>1, <3>2
    <2> QED
      BY <1>2, <1>3, <1>5, <2>1, <2>2
  <1>7. Taken \in [Callers -> Nat]
    BY <1>2 DEF Taken, TypeOK
  <1> QED
    BY <1>1, <1>4, <1>5, <1>6, <1>7

LEMMA ApplyKeepsInv ==
    ASSUME IInv, Apply PROVE IInv'
  <1> USE DEF IInv, Apply
  <1>1. /\ wrows' = Updated /\ wtaken' = Taken /\ wturn.pc = "await"
        /\ wcache' = wcache /\ wact' = wact /\ lost' = lost
        /\ wreqs' = wreqs /\ wreps' = wreps
    OBVIOUS
  <1>2. DOMAIN wrows = DOMAIN Start
    BY DEF TypeOK
  <1>3. /\ wturn' \in Turn /\ wturn' # Idle
        /\ wturn'.pc = IF wturn.cur \in DOMAIN Start THEN "ok" ELSE "norow"
        /\ wturn'.cur = wturn.cur /\ wturn'.op = wturn.op
        /\ wturn'.amt = wturn.amt /\ wturn'.bal = wturn.bal
    BY <1>2, UpdatedRows DEF Turn, Idle
  <1>4. TypeOK'
    BY <1>1, <1>3, UpdatedRows DEF TypeOK
  <1>5. TurnOK'
    BY <1>1, <1>3, UpdatedRows DEF TurnOK, Balance
  <1>6. OverdraftBounded'
    BY <1>1, UpdatedRows DEF OverdraftBounded
  <1>7. SeenBounded'
    <2> SUFFICES ASSUME NEW c \in DOMAIN Start, wact
                 PROVE  /\ Seen(c)' <= wrows[c]' + lost * MaxAmount
                        /\ lost = 0 => Seen(c)' = wrows[c]'
      BY <1>1 DEF SeenBounded
    <2>1. /\ wcache[c] <= wrows[c] + lost * MaxAmount
          /\ lost = 0 => wcache[c] = wrows[c]
      BY <1>1 DEF SeenBounded, Seen
    <2>2. CASE c # wturn.cur
      BY <1>1, <1>3, <2>1, <2>2, UpdatedRows DEF Seen
    <2>3. CASE c = wturn.cur
      <3>1. wturn.bal = wcache[c]
        BY <1>1, <2>3, UpdatedRows DEF TurnOK, Balance
      <3>2. Seen(c)' = IF wturn.op = "Spend" THEN wturn.bal - wturn.amt
                                             ELSE wturn.bal + wturn.amt
        BY <1>3, <2>3 DEF Seen
      <3>3. wrows[c] \in Int /\ wturn.amt \in Int /\ wturn.bal \in Int
            /\ lost * MaxAmount \in Nat
        BY UpdatedRows, HiddenAmount, WalletAssumption DEF TypeOK, Turn
      <3> QED
        BY <1>1, <2>1, <2>3, <3>1, <3>2, <3>3, UpdatedRows
    <2> QED
      BY <2>2, <2>3
  <1> QED
    BY <1>4, <1>5, <1>6, <1>7

LEMMA FailKeepsInv ==
    ASSUME IInv, Fail PROVE IInv'
  <1> USE DEF IInv, Fail
  <1>1. /\ wrows' = wrows /\ wcache' = wcache /\ wact' = wact /\ lost' = lost
        /\ wturn.pc = "await"
    OBVIOUS
  <1>2. /\ wturn' \in Turn /\ wturn' # Idle /\ wturn'.pc = "failed"
        /\ wturn'.cur = wturn.cur /\ wturn'.op = wturn.op
        /\ wturn'.amt = wturn.amt /\ wturn'.bal = wturn.bal
    BY UpdatedRows DEF Turn, Idle
  <1>3. TypeOK'
    BY <1>2 DEF TypeOK
  <1>4. TurnOK'
    BY <1>1, <1>2, UpdatedRows DEF TurnOK, Balance
  <1>5. SeenBounded' /\ OverdraftBounded'
    BY <1>1, <1>2 DEF SeenBounded, Seen, OverdraftBounded
  <1> QED
    BY <1>3, <1>4, <1>5

(* The lost acknowledgement of a Spend makes the cache too high by its amount,
   which is what the bound grows by; that of an Add makes it too low.      *)
LEMMA LoseAckKeepsInv ==
    ASSUME IInv, LoseAck PROVE IInv'
  <1> USE DEF IInv, LoseAck
  <1>1. /\ wrows' = Updated /\ wtaken' = Taken /\ wturn.pc = "await"
        /\ wcache' = wcache /\ wact' = wact /\ lost' = lost + 1
        /\ wreqs' = wreqs /\ wreps' = wreps /\ lost < MaxLost
    OBVIOUS
  <1>2. /\ wturn' \in Turn /\ wturn' # Idle /\ wturn'.pc = "failed"
        /\ wturn'.cur = wturn.cur /\ wturn'.op = wturn.op
        /\ wturn'.amt = wturn.amt /\ wturn'.bal = wturn.bal
    BY UpdatedRows DEF Turn, Idle
  <1>3. /\ lost \in Nat /\ lost * MaxAmount \in Nat /\ MaxAmount \in Nat
        /\ (lost + 1) * MaxAmount = lost * MaxAmount + MaxAmount
        /\ MaxLost \in Nat
    BY HiddenAmount, WalletAssumption DEF TypeOK
  <1>4. TypeOK'
    BY <1>1, <1>2, <1>3, UpdatedRows DEF TypeOK
  <1>5. TurnOK'
    BY <1>1, <1>2, <1>3, UpdatedRows DEF TurnOK, Balance
  <1>6. OverdraftBounded'
    <2> SUFFICES ASSUME NEW c \in DOMAIN Start
                 PROVE  Updated[c] >= -((lost + 1) * MaxAmount)
      BY <1>1, UpdatedRows DEF OverdraftBounded
    <2>1. Updated[c] >= -(lost * MaxAmount) /\ Updated[c] \in Int
      BY <1>1, UpdatedRows
    <2> QED
      BY <1>3, <2>1
  <1>7. SeenBounded'
    <2> SUFFICES ASSUME NEW c \in DOMAIN Start, wact
                 PROVE  wcache[c] <= Updated[c] + (lost + 1) * MaxAmount
      BY <1>1, <1>2, <1>3 DEF SeenBounded, Seen
    <2>1. wcache[c] <= wrows[c] + lost * MaxAmount
      BY <1>1 DEF SeenBounded, Seen
    <2>2. /\ wrows[c] \in Int /\ wturn.amt \in 0..MaxAmount
          /\ wcache[c] \in Int
      BY <1>1, UpdatedRows DEF TypeOK, Turn, TurnOK
    <2>3. Updated[c] >= wrows[c] - MaxAmount /\ Updated[c] \in Int
      BY <1>1, <1>3, <2>2, UpdatedRows
    <2> QED
      BY <1>3, <2>1, <2>2, <2>3
  <1> QED
    BY <1>4, <1>5, <1>6, <1>7

LEMMA ResumeKeepsInv ==
    ASSUME IInv, Resume PROVE IInv'
  <1> USE DEF IInv, Resume
  <1>1. /\ wrows' = wrows /\ wact' = wact /\ lost' = lost /\ wtaken' = wtaken
        /\ wturn' = Idle /\ wreqs' = wreqs
    OBVIOUS
  <1>2. wturn \in Turn /\ wturn # Idle /\ wact /\ DOMAIN wcache = DOMAIN Start
    BY TurnPc DEF Idle, TurnOK
  <1>3. wturn.amt \in Int /\ wturn.bal \in Int /\ wturn.from \in Callers
    BY <1>2, WalletAssumption DEF Turn
  <1>4. wreps' \subseteq Reply
    <2>1. CASE wreps' = wreps
      BY <2>1 DEF TypeOK
    <2>2. ASSUME NEW r \in ResultCode, wreps' = Answer(wturn.from, r)
          PROVE  wreps' \subseteq Reply
      BY <1>3, <2>2 DEF Answer, Reply, TypeOK
    <2>3. wreps' = wreps \/ \E r \in ResultCode : wreps' = Answer(wturn.from, r)
      BY DEF ResultCode
    <2> QED
      BY <2>1, <2>2, <2>3
  <1>5. /\ wcache' \in [DOMAIN Start -> Int]
        /\ \A c \in DOMAIN Start : wcache'[c] = Seen(c)
    <2>1. CASE Succeeded
      <3>1. wturn.pc = "ok" /\ wturn.cur \in DOMAIN Start
        BY <1>2, <2>1 DEF Succeeded, TurnOK
      <3>2. DOMAIN wcache \cup {wturn.cur} = DOMAIN Start
        BY <1>2, <3>1
      <3>3. wcache' = [x \in DOMAIN Start |->
                          IF x = wturn.cur
                          THEN IF wturn.op = "Spend" THEN wturn.bal - wturn.amt
                                                     ELSE wturn.bal + wturn.amt
                          ELSE wcache[x]]
        BY <2>1, <3>2 DEF SetBalance
      <3>4. \A x \in DOMAIN Start : wcache[x] \in Int
        BY <1>2 DEF TypeOK
      <3> QED
        BY <1>3, <3>1, <3>3, <3>4 DEF Seen
    <2>2. CASE ~Succeeded
      BY <1>2, <2>2 DEF Succeeded, TypeOK, Seen
    <2> QED
      BY <2>1, <2>2
  <1>6. TypeOK'
    BY <1>1, <1>4, <1>5 DEF TypeOK
  <1>7. TurnOK'
    BY <1>1, <1>5 DEF TurnOK
  <1>8. SeenBounded'
    <2>1. \A c \in DOMAIN Start : Seen(c)' = wcache'[c]
      BY <1>1 DEF Seen, Idle
    <2> QED
      BY <1>1, <1>2, <1>5, <2>1 DEF SeenBounded
  <1>9. OverdraftBounded'
    BY <1>1 DEF OverdraftBounded
  <1> QED
    BY <1>6, <1>7, <1>8, <1>9

(* The cache goes with its activation, whatever its statement did. *)
LEMMA DropKeepsInv ==
    ASSUME IInv, Deactivate \/ Crash PROVE IInv'
  <1> USE DEF IInv
  <1>1. /\ wact' = FALSE /\ wcache' = NoCache /\ wturn' = Idle /\ lost' = lost
        /\ wreqs' \subseteq wreqs /\ wreps' \subseteq wreps
    BY DEF Deactivate, Crash
  <1>2. \/ wrows' = wrows /\ wtaken' = wtaken
        \/ wturn.pc = "await" /\ wrows' = Updated /\ wtaken' = Taken
    BY DEF Deactivate, Crash
  <1>3. /\ wrows' \in [DOMAIN Start -> Int] /\ wtaken' \in [Callers -> Nat]
        /\ \A c \in DOMAIN Start : wrows'[c] >= -(lost * MaxAmount)
    BY <1>2, UpdatedRows DEF TypeOK, OverdraftBounded
  <1>4. TypeOK'
    BY <1>1, <1>3 DEF TypeOK, NoCache
  <1>5. TurnOK' /\ SeenBounded' /\ OverdraftBounded'
    BY <1>1, <1>3 DEF TurnOK, SeenBounded, OverdraftBounded
  <1> QED
    BY <1>4, <1>5

LEMMA StepKeepsInv == IInv /\ [Next]_wvars => IInv'
  <1> SUFFICES ASSUME IInv, [Next]_wvars PROVE IInv'
    OBVIOUS
  <1>1. CASE \/ \E m \in Request : Send(m)
             \/ \E c \in Callers : Receive(c) \/ TimeOut(c)
             \/ ActivateFails
             \/ UNCHANGED wvars
    BY <1>1, CallersKeepInv
  <1>2. CASE Activate
    BY <1>2, ActivateKeepsInv
  <1>3. CASE \E m \in wreqs : Begin(m)
    BY <1>3, BeginKeepsInv
  <1>4. CASE Apply
    BY <1>4, ApplyKeepsInv
  <1>5. CASE Fail
    BY <1>5, FailKeepsInv
  <1>6. CASE LoseAck
    BY <1>6, LoseAckKeepsInv
  <1>7. CASE Resume
    BY <1>7, ResumeKeepsInv
  <1>8. CASE Deactivate \/ Crash
    BY <1>8, DropKeepsInv
  <1> QED
    BY <1>1, <1>2, <1>3, <1>4, <1>5, <1>6, <1>7, <1>8 DEF Next, Serve, Fault

LEMMA AlwaysInv == Spec => []IInv
  BY InitInv, StepKeepsInv, PTL DEF Spec

(* An acknowledgement another grain loses only widens what may be hidden. *)
LEMMA LossElsewhereKeepsInv ==
    ASSUME IInv, UNCHANGED <<wrows, wcache, wact, wturn, wreqs, wreps, wtaken>>,
           lost < MaxLost, lost' = lost + 1
    PROVE  IInv'
  <1> USE WalletAssumption DEF IInv
  <1>1. lost \in Nat /\ lost' \in 0..MaxLost /\ lost' # 0
    BY DEF TypeOK, TurnOK
  <1>2. /\ lost * MaxAmount \in Nat /\ lost' * MaxAmount \in Nat
        /\ lost * MaxAmount <= lost' * MaxAmount
    BY <1>1, HiddenAmount
  <1>3. TypeOK' /\ TurnOK'
    BY <1>1 DEF TypeOK, TurnOK, Balance
  <1>4. \A c \in DOMAIN Start : wrows[c] \in Int
    BY DEF TypeOK
  <1>5. wact => \A c \in DOMAIN Start : Seen(c) \in Int
    BY DEF TypeOK, TurnOK, Seen, Turn, Idle
  <1>6. \A c : Seen(c)' = Seen(c)
    BY DEF Seen
  <1>7. SeenBounded'
    BY <1>1, <1>2, <1>4, <1>5, <1>6 DEF SeenBounded
  <1>8. OverdraftBounded'
    BY <1>2, <1>4 DEF OverdraftBounded, TypeOK
  <1> QED
    BY <1>3, <1>7, <1>8

-----------------------------------------------------------------------------
(* PlayerWalletGrain: every variable keeps its type, and no row of
   player_wallets appears or disappears.                                   *)
THEOREM WalletTyped == Spec => []TypeOK
  <1>1. IInv => TypeOK
    BY DEF IInv
  <1> QED
    BY <1>1, AlwaysInv, PTL

(* SpendAsync: a row is overdrawn by no more than the lost acknowledgements
   hide, for any number of callers, crashes, failures and timeouts.        *)
THEOREM WalletOverdraftBounded == Spec => []OverdraftBounded
  <1>1. IInv => OverdraftBounded
    BY DEF IInv
  <1> QED
    BY <1>1, AlwaysInv, PTL

(* The write-through comment of PlayerWalletGrain holds until the database
   link loses an acknowledgement.                                          *)
THEOREM WalletCacheIsExact == Spec => []CacheIsExact
  <1>1. IInv => CacheIsExact
    <2> SUFFICES ASSUME IInv, lost = 0, wact, wturn = Idle PROVE wcache = wrows
      BY DEF CacheIsExact, CacheIsWriteThrough
    <2>1. DOMAIN wcache = DOMAIN Start /\ DOMAIN wrows = DOMAIN Start
      BY DEF IInv, TypeOK, TurnOK
    <2>2. \A c \in DOMAIN Start : wcache[c] = wrows[c]
      BY <2>1 DEF IInv, SeenBounded, Seen, Idle
    <2>3. wcache \in [DOMAIN Start -> Int] /\ wrows \in [DOMAIN Start -> Int]
      BY <2>1 DEF IInv, TypeOK
    <2> QED
      BY <2>2, <2>3
  <1> QED
    BY <1>1, AlwaysInv, PTL

-----------------------------------------------------------------------------
(* Until an acknowledgement is lost a statement can only debit. *)
LEMMA OnlyDebits ==
    ASSUME IInv, wturn.pc = "await", lost = 0
    PROVE  /\ wturn.op = "Spend" /\ wturn.amt \in Amounts /\ wturn.amt \in Nat
           /\ wturn.cur \in DOMAIN Start =>
                  wrows[wturn.cur] \in Int /\ wrows[wturn.cur] >= wturn.amt
  <1>1. wturn \in Turn /\ wturn # Idle /\ wact
    BY UpdatedRows
  <1>2. wturn.op \in {"Spend", "Add"} /\ wturn.amt \in Nat /\ wturn.bal \in Int
    BY <1>1, WalletAssumption DEF Turn
  <1>3. ASSUME wturn.cur \in DOMAIN Start
        PROVE  /\ wrows[wturn.cur] = wturn.bal
               /\ wrows[wturn.cur] \in Int /\ wrows[wturn.cur] >= 0
    <2>1. wcache[wturn.cur] = wturn.bal
      BY <1>1, <1>3 DEF IInv, TurnOK, Balance
    <2>2. wrows[wturn.cur] = wcache[wturn.cur]
      BY <1>1, <1>3 DEF IInv, SeenBounded, Seen
    <2>3. wrows[wturn.cur] \in Int /\ wrows[wturn.cur] >= -(lost * MaxAmount)
      BY <1>3 DEF IInv, TypeOK, OverdraftBounded
    <2>4. lost * MaxAmount = 0
      BY HiddenAmount
    <2> QED
      BY <2>1, <2>2, <2>3, <2>4
  <1>4. wturn.op = "Spend"
    <2> SUFFICES ASSUME wturn.op = "Add" PROVE FALSE
      BY <1>2
    <2>1. wturn.amt > 0 /\ wturn.bal + wturn.amt <= 0 /\ wturn.bal = Balance(wturn.cur)
      BY <1>1 DEF IInv, TurnOK
    <2>2. wturn.bal < 0
      BY <1>2, <2>1
    <2>3. CASE wturn.cur \in DOMAIN Start
      BY <1>2, <1>3, <2>2, <2>3
    <2>4. CASE wturn.cur \notin DOMAIN Start
      BY <1>1, <2>1, <2>2, <2>4 DEF IInv, TurnOK, Balance
    <2> QED
      BY <2>3, <2>4
  <1>5. wturn.amt \in Amounts /\ wturn.bal >= wturn.amt
    BY <1>1, <1>4 DEF IInv, TurnOK
  <1> QED
    BY <1>2, <1>3, <1>4, <1>5

(* The rows change only where the pending statement is applied. *)
LEMMA RowsChangeByStatement ==
    ASSUME IInv, [Next]_wvars
    PROVE  \/ wrows' = wrows /\ wtaken' = wtaken
           \/ wturn.pc = "await" /\ wrows' = Updated /\ wtaken' = Taken
  BY DEF Next, Serve, Fault, Send, Receive, TimeOut, Activate, ActivateFails,
         Begin, Apply, Fail, LoseAck, Resume, Deactivate, Crash, wvars

(* Until an acknowledgement is lost each step of the grain is a debit of the
   atomic account, or leaves it alone.                                     *)
LEMMA StepDebits ==
    ASSUME IInv, [Next]_wvars, lost = 0
    PROVE  L!Next \/ UNCHANGED <<wrows, wtaken>>
  <1> SUFFICES ASSUME <<wrows, wtaken>>' # <<wrows, wtaken>> PROVE L!Next
    OBVIOUS
  <1>1. wturn.pc = "await" /\ wrows' = Updated /\ wtaken' = Taken
    BY RowsChangeByStatement
  <1>2. wturn \in Turn /\ DOMAIN wrows = DOMAIN Start
    BY <1>1, UpdatedRows DEF IInv, TypeOK
  <1>3. wturn.cur \in DOMAIN Start
    BY <1>1, <1>2 DEF Updated, Taken
  <1>4. /\ wturn.op = "Spend" /\ wturn.amt \in Amounts /\ wturn.from \in Callers
        /\ wrows[wturn.cur] >= wturn.amt
    BY <1>1, <1>2, <1>3, OnlyDebits DEF Turn
  <1>5. /\ wrows' = [wrows EXCEPT ![wturn.cur] = @ - wturn.amt]
        /\ wtaken' = [wtaken EXCEPT ![wturn.from] = @ + wturn.amt]
    BY <1>1, <1>2, <1>3, <1>4 DEF Updated, Taken
  <1>6. L!Debit(wturn.from, wturn.cur, wturn.amt)
    BY <1>4, <1>5 DEF L!Debit
  <1> QED
    BY <1>3, <1>4, <1>6 DEF L!Next

(* PlayerWalletGrain implements the atomic account up to the first lost
   acknowledgement ...                                                     *)
THEOREM WalletImplementsLedger == Spec => ImplementsLedger
  <1>1. Init => L!Init
    BY DEF Init, L!Init
  <1>2. IInv /\ [Next]_wvars =>
            [lost = 0 => L!Next \/ UNCHANGED <<wrows, wtaken>>]_wvars
    BY StepDebits
  <1> QED
    BY <1>1, <1>2, AlwaysInv, PTL DEF Spec, ImplementsLedger

(* ... and, on a link that never loses one, for good. *)
THEOREM WalletIsLedger == ASSUME MaxLost = 0 PROVE Spec => L!Spec
  <1>1. Init => L!Init
    BY DEF Init, L!Init
  <1>2. IInv /\ [Next]_wvars => [L!Next]_<<wrows, wtaken>>
    <2> SUFFICES ASSUME IInv, [Next]_wvars PROVE [L!Next]_<<wrows, wtaken>>
      OBVIOUS
    <2>1. lost = 0
      BY DEF IInv, TurnOK
    <2> QED
      BY <2>1, StepDebits
  <1> QED
    BY <1>1, <1>2, AlwaysInv, PTL DEF Spec, L!Spec

=============================================================================
