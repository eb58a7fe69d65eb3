--------------------------- MODULE InventoryProofs ---------------------------
(***************************************************************************)
(* Inventory, for every set of callers and items, every stack table and    *)
(* every count.  The invariant bounds how far a row is from the count the  *)
(* activation takes it to have, Seen, and keeps what a request checked     *)
(* against its cache before its await.                                     *)
(***************************************************************************)
EXTENDS Inventory, TLAPS

\* What the activation takes the row of i to hold, or is about to cache of it.
Seen(i) ==
    IF iturn.pc = "ok" /\ iturn.item = i
    THEN IF iturn.stmt = "spend" THEN CountIn(icache, i) - iturn.count
                                 ELSE CountIn(icache, i) + iturn.count
    ELSE CountIn(icache, i)

\* Requests run on an activation, and their counts fit what is cached.
TurnOK ==
    iturn # Idle =>
        /\ iact
        /\ iturn.stmt = "spend" => CountIn(icache, iturn.item) >= iturn.count
        /\ iturn.stmt # "spend" /\ MaxStack[iturn.item] > 0 =>
              CountIn(icache, iturn.item) + iturn.count <= MaxStack[iturn.item]
        /\ iturn.pc = "ok" => iturn.item \in DOMAIN irows

\* Each lost acknowledgement hides at most one count.
SeenBounded ==
    iact => \A i \in Items :
        /\ CountIn(irows, i) <= Seen(i) + lost * MaxCount
        /\ CountIn(irows, i) >= Seen(i) - lost * MaxCount

\* Until one is lost, exactly the rows there are are cached or about to be.
RowsKnown ==
    lost = 0 /\ iact =>
        \A i \in DOMAIN irows :
            i \in DOMAIN icache \/ (iturn.pc = "ok" /\ iturn.item = i)

IInv == TypeOK /\ TurnOK /\ SeenBounded /\ RowsKnown /\ CountWithinStack

-----------------------------------------------------------------------------
(* What one lost acknowledgement adds to the bound. *)
LEMMA HiddenCount ==
    ASSUME NEW n \in Nat
    PROVE  /\ n * MaxCount \in Nat
           /\ n = 0 => n * MaxCount = 0
           /\ (n + 1) * MaxCount = n * MaxCount + MaxCount
  BY SMT, InventoryAssumption

(* The record of a running request. *)
LEMMA TurnFields ==
    ASSUME TypeOK, iturn # Idle \/ iturn.pc # "idle"
    PROVE  /\ iturn \in Turn /\ iturn # Idle
           /\ iturn.item \in Items /\ iturn.count \in 0..MaxCount
           /\ iturn.count \in Nat /\ iturn.count <= MaxCount
           /\ iturn.stmt \in {"insert", "add", "spend"} /\ iturn.from \in Callers
  BY InventoryAssumption DEF TypeOK, Turn, Idle

(* A count is a number, held or not. *)
LEMMA CountType ==
    ASSUME TypeOK, NEW i
    PROVE  CountIn(irows, i) \in Int /\ CountIn(icache, i) \in Int
  BY DEF TypeOK, CountIn

LEMMA InitInv == Init => IInv
  <1> SUFFICES ASSUME Init PROVE IInv
    OBVIOUS
  <1> USE DEF Init, Nothing, Idle
  <1>1. TypeOK
    BY DEF TypeOK
  <1>2. TurnOK /\ SeenBounded /\ RowsKnown /\ CountWithinStack
    BY DEF TurnOK, SeenBounded, RowsKnown, CountWithinStack
  <1> QED
    BY <1>1, <1>2 DEF IInv

(* The caller's side touches neither rows nor cache. *)
LEMMA CallersKeepInv ==
    ASSUME IInv,
           \/ \E m \in Request : Send(m)
           \/ \E c \in Callers : Receive(c) \/ TimeOut(c)
           \/ ActivateFails
           \/ UNCHANGED ivars
    PROVE  IInv'
  <1>1. /\ irows' = irows /\ icache' = icache /\ iact' = iact /\ lost' = lost
        /\ ireqs' \subseteq Request /\ ireps' \subseteq Reply
    BY DEF IInv, TypeOK, Send, Receive, TimeOut, ActivateFails, ivars, Request,
           Reply, ResultCode
  <1>2. \/ iturn' = iturn
        \/ iturn # Idle /\ iturn' = [iturn EXCEPT !.live = FALSE]
    BY DEF Send, Receive, TimeOut, ActivateFails, ivars
  <1>3. CASE iturn' = iturn
    BY <1>1, <1>3 DEF IInv, TypeOK, TurnOK, SeenBounded, RowsKnown, CountWithinStack, Seen
  <1>4. CASE iturn # Idle /\ iturn' = [iturn EXCEPT !.live = FALSE]
    <2>1. /\ iturn \in Turn /\ iturn' \in Turn /\ iturn' # Idle
          /\ iturn'.pc = iturn.pc /\ iturn'.stmt = iturn.stmt
          /\ iturn'.item = iturn.item /\ iturn'.count = iturn.count
      BY <1>4 DEF IInv, TypeOK, Turn, Idle
    <2>2. TypeOK' /\ TurnOK' /\ RowsKnown' /\ CountWithinStack'
      BY <1>1, <1>4, <2>1 DEF IInv, TypeOK, TurnOK, RowsKnown, CountWithinStack
    <2>3. SeenBounded'
      BY <1>1, <2>1 DEF IInv, SeenBounded, Seen
    <2> QED
      BY <2>2, <2>3 DEF IInv
  <1> QED
    BY <1>2, <1>3, <1>4

LEMMA ActivateKeepsInv ==
    ASSUME IInv, Activate PROVE IInv'
  <1> USE DEF IInv, Activate
  <1>1. iturn = Idle
    BY DEF TurnOK
  <1>2. TypeOK' /\ TurnOK' /\ RowsKnown' /\ CountWithinStack'
    BY <1>1 DEF TypeOK, TurnOK, RowsKnown, CountWithinStack
  <1>3. SeenBounded'
    BY <1>1, HiddenCount, CountType DEF TypeOK, SeenBounded, Seen, Idle
  <1> QED
    BY <1>2, <1>3

(* A request that starts checks its count against the cache. *)
LEMMA BeginKeepsInv ==
    ASSUME IInv, NEW m \in ireqs, Begin(m) PROVE IInv'
  <1> USE DEF IInv, Begin
  <1>1. m \in Request /\ iturn = Idle /\ TypeOK /\ iact
    BY DEF TypeOK
  <1>2. irows' = irows /\ icache' = icache /\ iact' = iact /\ lost' = lost
    OBVIOUS
  <1>3. CountWithinStack'
    BY <1>2 DEF CountWithinStack
  <1>4. CASE AnswerAtOnce(m) /\ UNCHANGED iturn
    <2>1. ireps' \subseteq Reply
      BY <1>1, <1>4 DEF AnswerAtOnce, Answer, TypeOK, Reply, Request, ResultCode
    <2>2. TypeOK' /\ TurnOK' /\ SeenBounded' /\ RowsKnown'
      BY <1>2, <1>4, <2>1 DEF TypeOK, TurnOK, SeenBounded, RowsKnown, Seen
    <2> QED
      BY <1>3, <2>2
  <1>5. CASE Submit(m) /\ UNCHANGED ireps
    <2>1. /\ CountIn(icache, m.item) \in Int /\ MaxStack[m.item] \in Nat
          /\ m.count \in 0..MaxCount /\ m.item \in Items /\ MaxCount \in Nat
      BY <1>1, CountType, InventoryAssumption DEF Request
    <2>2. PICK stmt \in {"insert", "add", "spend"}, n \in 0..MaxCount :
             /\ iturn' = Awaiting(m, stmt, n)
             /\ stmt = "spend" => CountIn(icache, m.item) >= n
             /\ stmt # "spend" /\ MaxStack[m.item] > 0 =>
                   CountIn(icache, m.item) + n <= MaxStack[m.item]
      <3>1. CASE /\ m.op = "Spend" /\ CountIn(icache, m.item) >= m.count
                 /\ iturn' = Awaiting(m, "spend", m.count)
        BY <2>1, <3>1
      <3>2. CASE /\ m.op = "Add" /\ AddCount(m.item, m.count) > 0
                 /\ iturn' = Awaiting(m, AddStatement(m.item), AddCount(m.item, m.count))
        <4>1. /\ AddCount(m.item, m.count) \in 0..MaxCount
              /\ MaxStack[m.item] > 0 =>
                   CountIn(icache, m.item) + AddCount(m.item, m.count) <= MaxStack[m.item]
          BY <2>1, <3>2 DEF AddCount
        <4>2. AddStatement(m.item) \in {"insert", "add"}
          BY DEF AddStatement
        <4> QED
          BY <3>2, <4>1, <4>2
      <3> QED
        BY <1>5, <3>1, <3>2 DEF Submit
    <2>3. /\ iturn' \in Turn /\ iturn' # Idle /\ iturn'.pc = "await"
          /\ iturn'.stmt = stmt /\ iturn'.item = m.item /\ iturn'.count = n
      BY <1>1, <2>2 DEF Awaiting, Turn, Idle, Request
    <2>4. TypeOK'
      BY <1>2, <1>5, <2>3 DEF TypeOK
    <2>5. TurnOK'
      BY <1>1, <1>2, <2>2, <2>3 DEF TurnOK
    <2>6. SeenBounded' /\ RowsKnown'
      BY <1>1, <1>2, <2>3 DEF SeenBounded, RowsKnown, Seen, Idle
    <2> QED
      BY <1>3, <2>4, <2>5, <2>6
  <1> QED
    BY <1>4, <1>5

(* What the pending statement does to the rows: they stay within the stack up
   to what is hidden, because the cache the count was checked against is no
   farther than that from them.                                            *)
LEMMA ChangedRows ==
    ASSUME IInv, iturn.pc = "await", Affected
    PROVE  LET rows == Changed(irows)
               n == IF iturn.stmt = "spend" THEN -iturn.count ELSE iturn.count
           IN  /\ DOMAIN rows = DOMAIN irows \cup {iturn.item}
               /\ DOMAIN rows \subseteq Items
               /\ rows \in [DOMAIN rows -> Int]
               /\ \A i \in Items : CountIn(rows, i) =
                      IF i = iturn.item THEN CountIn(irows, i) + n ELSE CountIn(irows, i)
               /\ \A i \in DOMAIN rows :
                    /\ rows[i] >= -(lost * MaxCount)
                    /\ MaxStack[i] > 0 => rows[i] <= MaxStack[i] + lost * MaxCount
  <1> DEFINE rows == Changed(irows)
             n == IF iturn.stmt = "spend" THEN -iturn.count ELSE iturn.count
  <1>1. /\ iturn \in Turn /\ iturn # Idle /\ iturn.item \in Items
        /\ iturn.count \in Nat /\ iturn.count <= MaxCount /\ n \in Int
        /\ iturn.stmt \in {"insert", "add", "spend"}
    BY TurnFields DEF IInv
  <1>2. DOMAIN irows \subseteq Items /\ \A i \in DOMAIN irows : irows[i] \in Int
    BY DEF IInv, TypeOK
  <1>3. /\ DOMAIN rows = DOMAIN irows \cup {iturn.item}
        /\ \A i \in DOMAIN rows : rows[i] =
              IF i = iturn.item THEN CountIn(irows, i) + n ELSE irows[i]
        /\ rows = [i \in DOMAIN rows |-> rows[i]]
    BY <1>1, CountType DEF Changed, Put, IInv
  <1> HIDE DEF rows
  <1>4. \A i \in DOMAIN rows : rows[i] \in Int
    BY <1>1, <1>2, <1>3, CountType DEF IInv
  <1>5. \A i \in Items : CountIn(rows, i) =
            IF i = iturn.item THEN CountIn(irows, i) + n ELSE CountIn(irows, i)
    BY <1>1, <1>3 DEF CountIn
  <1>6. /\ CountIn(irows, iturn.item) <= CountIn(icache, iturn.item) + lost * MaxCount
        /\ CountIn(irows, iturn.item) >= CountIn(icache, iturn.item) - lost * MaxCount
    BY <1>1 DEF IInv, TurnOK, SeenBounded, Seen
  <1>7. /\ CountIn(irows, iturn.item) \in Int /\ CountIn(icache, iturn.item) \in Int
        /\ lost * MaxCount \in Nat /\ MaxStack[iturn.item] \in Nat
    BY <1>1, CountType, HiddenCount, InventoryAssumption DEF IInv, TypeOK
  <1>8. \/ iturn.item \in DOMAIN irows /\ CountIn(irows, iturn.item) = irows[iturn.item]
        \/ CountIn(irows, iturn.item) = 0
    BY DEF CountIn
  <1>9. /\ CountIn(irows, iturn.item) >= -(lost * MaxCount)
        /\ MaxStack[iturn.item] > 0 =>
              CountIn(irows, iturn.item) <= MaxStack[iturn.item] + lost * MaxCount
    BY <1>7, <1>8 DEF IInv, CountWithinStack
  <1>10. /\ rows[iturn.item] >= -(lost * MaxCount)
         /\ MaxStack[iturn.item] > 0 =>
               rows[iturn.item] <= MaxStack[iturn.item] + lost * MaxCount
    <2>1. CASE iturn.stmt = "spend"
      <3>1. CountIn(icache, iturn.item) >= iturn.count
        BY <1>1, <2>1 DEF IInv, TurnOK
      <3>2. rows[iturn.item] = CountIn(irows, iturn.item) - iturn.count
        BY <1>1, <1>3, <1>7, <2>1
      <3> QED
        BY <1>1, <1>6, <1>7, <1>9, <3>1, <3>2
    <2>2. CASE iturn.stmt # "spend"
      <3>1. MaxStack[iturn.item] > 0 =>
               CountIn(icache, iturn.item) + iturn.count <= MaxStack[iturn.item]
        BY <1>1, <2>2 DEF IInv, TurnOK
      <3>2. rows[iturn.item] = CountIn(irows, iturn.item) + iturn.count
        BY <1>1, <1>3, <1>7, <2>2
      <3> QED
        BY <1>1, <1>6, <1>7, <1>9, <3>1, <3>2
    <2> QED
      BY <2>1, <2>2
  <1>11. \A i \in DOMAIN rows :
           /\ rows[i] >= -(lost * MaxCount)
           /\ MaxStack[i] > 0 => rows[i] <= MaxStack[i] + lost * MaxCount
    BY <1>3, <1>10 DEF IInv, CountWithinStack
  <1> QED
    BY <1>1, <1>2, <1>3, <1>4, <1>5, <1>11 DEF rows

(* The turn after its statement: the same request at another point. *)
LEMMA TurnMoves ==
    ASSUME IInv, iturn.pc = "await", NEW pc \in {"ok", "norow", "failed"},
           iturn' = [iturn EXCEPT !.pc = pc]
    PROVE  /\ iturn' \in Turn /\ iturn' # Idle /\ iturn'.pc = pc
           /\ iturn'.stmt = iturn.stmt /\ iturn'.item = iturn.item
           /\ iturn'.count = iturn.count /\ iact
  <1>1. iturn \in Turn /\ iturn # Idle
    BY TurnFields DEF IInv
  <1>2. iact
    BY <1>1 DEF IInv, TurnOK
  <1> QED
    BY <1>1, <1>2 DEF Turn, Idle

(* A statement that affected no row, or threw. *)
LEMMA UnappliedKeepsInv ==
    ASSUME IInv, iturn.pc = "await",
           NEW pc \in {"norow", "failed"}, iturn' = [iturn EXCEPT !.pc = pc],
           UNCHANGED <<irows, icache, iact, ireqs, ireps, lost>>
    PROVE  IInv'
  <1>1. /\ iturn' \in Turn /\ iturn' # Idle /\ iturn'.pc = pc /\ iact
        /\ iturn'.stmt = iturn.stmt /\ iturn'.item = iturn.item
        /\ iturn'.count = iturn.count
    BY TurnMoves
  <1>2. iturn # Idle
    BY TurnFields DEF IInv
  <1>3. TypeOK' /\ TurnOK'
    BY <1>1, <1>2 DEF IInv, TypeOK, TurnOK
  <1>4. SeenBounded' /\ RowsKnown' /\ CountWithinStack'
    BY <1>1 DEF IInv, SeenBounded, RowsKnown, CountWithinStack, Seen
  <1> QED
    BY <1>3, <1>4 DEF IInv

LEMMA ApplyKeepsInv ==
    ASSUME IInv, Apply PROVE IInv'
  <1>1. CASE ~Affected
    BY <1>1, UnappliedKeepsInv DEF Apply
  <1>2. CASE Affected
    <2> DEFINE n == IF iturn.stmt = "spend" THEN -iturn.count ELSE iturn.count
    <2>1. /\ irows' = Changed(irows) /\ iturn.pc = "await"
          /\ iturn' = [iturn EXCEPT !.pc = "ok"]
          /\ icache' = icache /\ iact' = iact /\ ireqs' = ireqs /\ ireps' = ireps
          /\ lost' = lost
      BY <1>2 DEF Apply
    <2>2. /\ iturn' \in Turn /\ iturn' # Idle /\ iturn'.pc = "ok" /\ iact
          /\ iturn'.stmt = iturn.stmt /\ iturn'.item = iturn.item
          /\ iturn'.count = iturn.count
      BY <2>1, TurnMoves
    <2>3. /\ iturn.item \in Items /\ iturn.count \in Nat /\ iturn # Idle
          /\ iturn.stmt \in {"insert", "add", "spend"}
      BY <2>1, TurnFields DEF IInv
    <2>4. /\ DOMAIN irows' = DOMAIN irows \cup {iturn.item}
          /\ DOMAIN irows' \subseteq Items
          /\ irows' \in [DOMAIN irows' -> Int]
          /\ \A i \in Items : CountIn(irows', i) =
                IF i = iturn.item THEN CountIn(irows, i) + n ELSE CountIn(irows, i)
          /\ \A i \in DOMAIN irows' :
                /\ irows'[i] >= -(lost * MaxCount)
                /\ MaxStack[i] > 0 => irows'[i] <= MaxStack[i] + lost * MaxCount
      BY <1>2, <2>1, ChangedRows
    <2>5. TypeOK' /\ CountWithinStack'
      BY <2>1, <2>2, <2>4 DEF IInv, TypeOK, CountWithinStack
    <2>6. TurnOK'
      BY <2>1, <2>2, <2>3, <2>4 DEF IInv, TurnOK
    <2>7. SeenBounded'
      <3> SUFFICES ASSUME NEW i \in Items
                   PROVE  /\ CountIn(irows', i) <= Seen(i)' + lost * MaxCount
                          /\ CountIn(irows', i) >= Seen(i)' - lost * MaxCount
        BY <2>1 DEF SeenBounded, CountIn
      <3>1. /\ CountIn(irows, i) <= CountIn(icache, i) + lost * MaxCount
            /\ CountIn(irows, i) >= CountIn(icache, i) - lost * MaxCount
        BY <2>1, <2>2 DEF IInv, SeenBounded, Seen
      <3>2. Seen(i)' = IF i = iturn.item THEN CountIn(icache, i) + n ELSE CountIn(icache, i)
        BY <2>1, <2>2, <2>3, CountType DEF Seen, IInv
      <3>3. /\ CountIn(irows, i) \in Int /\ CountIn(icache, i) \in Int
            /\ lost * MaxCount \in Nat /\ n \in Int
        BY <2>3, CountType, HiddenCount DEF IInv, TypeOK
      <3> HIDE DEF n
      <3> QED
        BY <2>4, <3>1, <3>2, <3>3
    <2>8. RowsKnown'
      BY <2>1, <2>2, <2>4 DEF IInv, RowsKnown
    <2> QED
      BY <2>5, <2>6, <2>7, <2>8 DEF IInv
  <1> QED
    BY <1>1, <1>2

LEMMA FailKeepsInv ==
    ASSUME IInv, Fail PROVE IInv'
  BY UnappliedKeepsInv DEF Fail

(* The lost acknowledgement puts a row one count farther from the cache. *)
LEMMA LoseAckKeepsInv ==
    ASSUME IInv, LoseAck PROVE IInv'
  <1> DEFINE n == IF iturn.stmt = "spend" THEN -iturn.count ELSE iturn.count
  <1>1. /\ irows' = Changed(irows) /\ iturn.pc = "await" /\ Affected
        /\ iturn' = [iturn EXCEPT !.pc = "failed"]
        /\ icache' = icache /\ iact' = iact /\ ireqs' = ireqs /\ ireps' = ireps
        /\ lost' = lost + 1
    BY DEF LoseAck
  <1>2. /\ iturn' \in Turn /\ iturn' # Idle /\ iturn'.pc = "failed" /\ iact
        /\ iturn'.stmt = iturn.stmt /\ iturn'.item = iturn.item
        /\ iturn'.count = iturn.count
    BY <1>1, TurnMoves
  <1>3. /\ iturn.item \in Items /\ iturn.count \in Nat /\ iturn # Idle
        /\ iturn.count <= MaxCount /\ MaxCount \in Nat /\ n \in Int
        /\ -MaxCount <= n /\ n <= MaxCount
    BY <1>1, TurnFields, InventoryAssumption DEF IInv
  <1>4. /\ DOMAIN irows' \subseteq Items /\ DOMAIN irows \subseteq DOMAIN irows'
        /\ irows' \in [DOMAIN irows' -> Int]
        /\ \A i \in Items : CountIn(irows', i) =
              IF i = iturn.item THEN CountIn(irows, i) + n ELSE CountIn(irows, i)
        /\ \A i \in DOMAIN irows' :
              /\ irows'[i] >= -(lost * MaxCount)
              /\ MaxStack[i] > 0 => irows'[i] <= MaxStack[i] + lost * MaxCount
    BY <1>1, ChangedRows
  <1>5. /\ lost \in Nat /\ lost * MaxCount \in Nat
        /\ (lost + 1) * MaxCount = lost * MaxCount + MaxCount
    BY HiddenCount DEF IInv, TypeOK
  <1>6. TypeOK' /\ TurnOK' /\ RowsKnown'
    BY <1>1, <1>2, <1>3, <1>4, <1>5 DEF IInv, TypeOK, TurnOK, RowsKnown
  <1>7. CountWithinStack'
    <2> SUFFICES ASSUME NEW i \in DOMAIN irows'
                 PROVE  /\ irows'[i] >= -((lost + 1) * MaxCount)
                        /\ MaxStack[i] > 0 =>
                              irows'[i] <= MaxStack[i] + (lost + 1) * MaxCount
      BY <1>1 DEF CountWithinStack
    <2>1. irows'[i] \in Int /\ MaxStack[i] \in Nat
      BY <1>4, InventoryAssumption
    <2> QED
      BY <1>3, <1>4, <1>5, <2>1
  <1>8. SeenBounded'
    <2> SUFFICES ASSUME NEW i \in Items
                 PROVE  /\ CountIn(irows', i) <= Seen(i)' + (lost + 1) * MaxCount
                        /\ CountIn(irows', i) >= Seen(i)' - (lost + 1) * MaxCount
      BY <1>1 DEF SeenBounded, CountIn
    <2>1. /\ CountIn(irows, i) <= CountIn(icache, i) + lost * MaxCount
          /\ CountIn(irows, i) >= CountIn(icache, i) - lost * MaxCount
      BY <1>1, <1>2 DEF IInv, SeenBounded, Seen
    <2>2. Seen(i)' = CountIn(icache, i)
      BY <1>1, <1>2 DEF Seen
    <2>3. CountIn(irows, i) \in Int /\ CountIn(icache, i) \in Int
      BY CountType DEF IInv
    <2> HIDE DEF n
    <2> QED
      BY <1>3, <1>4, <1>5, <2>1, <2>2, <2>3
  <1> QED
    BY <1>6, <1>7, <1>8 DEF IInv

(* A request that ends caches what its statement made of the row. *)
LEMMA ResumeKeepsInv ==
    ASSUME IInv, Resume PROVE IInv'
  <1> USE DEF Resume
  <1>1. /\ irows' = irows /\ iact' = iact /\ lost' = lost
        /\ iturn' = Idle /\ ireqs' = ireqs
    OBVIOUS
  <1>2. /\ iturn \in Turn /\ iturn # Idle /\ iturn.item \in Items
        /\ iturn.count \in Nat /\ iturn.from \in Callers
        /\ iturn.stmt \in {"insert", "add", "spend"}
    BY TurnFields DEF IInv
  <1>3. iact /\ (iturn.pc = "ok" => iturn.item \in DOMAIN irows)
    BY <1>2 DEF IInv, TurnOK
  <1>4. ireps' \subseteq Reply
    <2>1. CASE ireps' = ireps
      BY <2>1 DEF IInv, TypeOK
    <2>2. ASSUME NEW r \in ResultCode, ireps' = Answer(iturn.from, r)
          PROVE  ireps' \subseteq Reply
      BY <1>2, <2>2 DEF Answer, Reply, IInv, TypeOK
    <2>3. ireps' = ireps \/ \E r \in ResultCode : ireps' = Answer(iturn.from, r)
      BY DEF ResultCode
    <2> QED
      BY <2>1, <2>2, <2>3
  <1>5. /\ icache' \in [DOMAIN icache' -> Int]
        /\ DOMAIN icache' = DOMAIN icache \cup
              (IF iturn.pc = "ok" THEN {iturn.item} ELSE {})
        /\ \A i \in Items : CountIn(icache', i) = Seen(i)
    <2>1. CASE Succeeded
      BY <1>2, <2>1, CountType DEF Succeeded, Changed, Put, CountIn, Seen, IInv, TypeOK
    <2>2. CASE ~Succeeded
      BY <2>2 DEF Succeeded, Seen, IInv, TypeOK
    <2> QED
      BY <2>1, <2>2
  <1>6. TypeOK'
    BY <1>1, <1>3, <1>4, <1>5 DEF IInv, TypeOK
  <1>7. TurnOK' /\ CountWithinStack'
    BY <1>1 DEF IInv, TurnOK, CountWithinStack
  <1>8. SeenBounded'
    <2>1. \A i \in Items : Seen(i)' = Seen(i)
      BY <1>1, <1>5 DEF Seen, Idle
    <2> QED
      BY <1>1, <1>3, <2>1 DEF IInv, SeenBounded, CountIn
  <1>9. RowsKnown'
    BY <1>1, <1>3, <1>5 DEF IInv, RowsKnown
  <1> QED
    BY <1>6, <1>7, <1>8, <1>9 DEF IInv

LEMMA DropKeepsInv ==
    ASSUME IInv, Deactivate \/ Crash PROVE IInv'
  <1>1. /\ iact' = FALSE /\ icache' = Nothing /\ iturn' = Idle /\ lost' = lost
        /\ ireqs' \subseteq Request /\ ireps' \subseteq Reply
        /\ \/ irows' = irows
           \/ iturn.pc = "await" /\ Affected /\ irows' = Changed(irows)
    BY DEF Deactivate, Crash, IInv, TypeOK
  <1>2. /\ irows' \in [DOMAIN irows' -> Int] /\ DOMAIN irows' \subseteq Items
        /\ \A i \in DOMAIN irows' :
              /\ irows'[i] >= -(lost * MaxCount)
              /\ MaxStack[i] > 0 => irows'[i] <= MaxStack[i] + lost * MaxCount
    <2>1. CASE irows' = irows
      BY <2>1 DEF IInv, TypeOK, CountWithinStack
    <2>2. CASE iturn.pc = "await" /\ Affected /\ irows' = Changed(irows)
      BY <2>2, ChangedRows
    <2> QED
      BY <1>1, <2>1, <2>2
  <1>3. TypeOK'
    BY <1>1, <1>2 DEF IInv, TypeOK, Nothing
  <1>4. TurnOK' /\ SeenBounded' /\ RowsKnown' /\ CountWithinStack'
    BY <1>1, <1>2 DEF TurnOK, SeenBounded, RowsKnown, CountWithinStack
  <1> QED
    BY <1>3, <1>4 DEF IInv

LEMMA StepKeepsInv == IInv /\ [Next]_ivars => IInv'
  <1> SUFFICES ASSUME IInv, [Next]_ivars PROVE IInv'
    OBVIOUS
  <1>1. CASE Serve
    BY <1>1, ActivateKeepsInv, BeginKeepsInv, ApplyKeepsInv, ResumeKeepsInv, DropKeepsInv
       DEF Serve
  <1>2. CASE Fault
    BY <1>2, CallersKeepInv, FailKeepsInv, LoseAckKeepsInv DEF Fault
  <1> QED
    BY <1>1, <1>2, CallersKeepInv, DropKeepsInv DEF Next

LEMMA AlwaysInv == Spec => []IInv
  BY InitInv, StepKeepsInv, PTL DEF Spec

(* An acknowledgement another grain loses only widens what may be hidden. *)
LEMMA LossElsewhereKeepsInv ==
    ASSUME IInv, UNCHANGED <<irows, icache, iact, iturn, ireqs, ireps>>,
           lost < MaxLost, lost' = lost + 1
    PROVE  IInv'
  <1> USE InventoryAssumption DEF IInv
  <1>1. lost \in Nat /\ lost' \in Nat /\ lost' # 0
    BY DEF TypeOK
  <1>2. /\ lost * MaxCount \in Nat /\ lost' * MaxCount \in Nat
        /\ lost * MaxCount <= lost' * MaxCount
    BY <1>1, HiddenCount
  <1>3. TypeOK' /\ TurnOK' /\ RowsKnown'
    BY <1>1 DEF TypeOK, TurnOK, RowsKnown, CountIn
  <1>4. \A i : CountIn(irows, i) \in Int /\ CountIn(irows, i)' = CountIn(irows, i)
    BY CountType DEF CountIn
  <1>5. \A i : Seen(i) \in Int /\ Seen(i)' = Seen(i)
    BY CountType DEF TypeOK, Turn, Idle, Seen, CountIn
  <1>6. SeenBounded'
    BY <1>2, <1>4, <1>5 DEF SeenBounded
  <1>7. CountWithinStack'
    BY <1>2 DEF CountWithinStack, TypeOK
  <1> QED
    BY <1>3, <1>6, <1>7

(* PlayerInventoryGrain keeps its types and caches only items that have rows. *)
THEOREM InventoryTypeOK == Spec => []TypeOK
  <1>1. IInv => TypeOK
    BY DEF IInv
  <1> QED
    BY <1>1, AlwaysInv, PTL

(* AddAsync and SpendAsync: a row leaves 0 .. MaxStack by no more than lost
   acknowledgements hide, whatever failed, timed out or died.              *)
THEOREM InventoryCountWithinStack == Spec => []CountWithinStack
  <1>1. IInv => CountWithinStack
    BY DEF IInv
  <1> QED
    BY <1>1, AlwaysInv, PTL

(* The cache of an activation between two requests is its rows, as long as no
   acknowledgement was lost.                                               *)
THEOREM InventoryCacheIsExact == Spec => []CacheIsExact
  <1>1. IInv => CacheIsExact
    <2> SUFFICES ASSUME IInv, lost = 0, iact, iturn = Idle PROVE icache = irows
      BY DEF CacheIsExact
    <2>1. lost * MaxCount = 0
      BY HiddenCount
    <2>2. DOMAIN icache = DOMAIN irows /\ DOMAIN irows \subseteq Items
      BY DEF IInv, TypeOK, RowsKnown, Idle
    <2>3. \A i \in DOMAIN irows : Seen(i) = icache[i] /\ CountIn(irows, i) = irows[i]
      BY <2>2 DEF Seen, Idle, CountIn
    <2>4. ASSUME NEW i \in DOMAIN irows PROVE icache[i] = irows[i]
      <3>1. irows[i] \in Int /\ icache[i] \in Int
        BY <2>2 DEF IInv, TypeOK
      <3>2. irows[i] <= icache[i] + 0 /\ irows[i] >= icache[i] - 0
        BY <2>1, <2>2, <2>3 DEF IInv, SeenBounded
      <3> QED
        BY <3>1, <3>2
    <2> QED
      BY <2>2, <2>4 DEF IInv, TypeOK
  <1> QED
    BY <1>1, AlwaysInv, PTL
=============================================================================
