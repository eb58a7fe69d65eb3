---------------------------- MODULE LoginProofs ----------------------------
(***************************************************************************)
(* Login, for every finite set of clients, every assignment of guids to    *)
(* them and every number of faults.  The invariant says, for each point a  *)
(* request can be at, what it has found or made so far; it survives the    *)
(* steps of the other requests because rows and tokens are only added.     *)
(***************************************************************************)
EXTENDS Login, TLAPS, FiniteSetTheorems, SequenceTheorems

\* Accounts are numbered as they are inserted, no two alike.
AccountsOK ==
    /\ accounts \in [DOMAIN accounts -> 1..Cardinality(DOMAIN accounts)]
    /\ DOMAIN accounts \subseteq Guids
    /\ \A g, h \in DOMAIN accounts : accounts[g] = accounts[h] => g = h

SharedOK ==
    /\ AccountsOK
    /\ players \subseteq Ids
    /\ tokens \in Seq(players)
    /\ faults \in 0..MaxFaults

RequestType == [pc : Waiting \cup {"out", "in"}, player : Ids \cup {0},
                token : DOMAIN tokens \cup {0}]

\* What the request of c has established by the point it is at.
RequestOK(c) ==
    /\ req[c] \in RequestType
    /\ req[c].pc \in {"readBack", "player", "insertPlayer", "token", "answer", "in"}
          => HasAccount(c)
    /\ req[c].pc \in {"player", "insertPlayer", "token", "answer", "in"}
          => req[c].player = accounts[GuidOf[c]]
    /\ req[c].pc \in {"token", "answer", "in"} => HasPlayer(c)
    /\ req[c].pc \in {"answer", "in"} => Vouched(req[c].token, req[c].player)

IInv ==
    /\ SharedOK
    /\ req = [c \in Clients |-> req[c]]
    /\ \A c \in Clients : RequestOK(c)

\* A step adds rows and tokens and changes none.
Grown ==
    /\ DOMAIN accounts \subseteq DOMAIN accounts'
    /\ \A g \in DOMAIN accounts : accounts'[g] = accounts[g]
    /\ players \subseteq players'
    /\ DOMAIN tokens \subseteq DOMAIN tokens'
    /\ \A t \in DOMAIN tokens : tokens'[t] = tokens[t]

-----------------------------------------------------------------------------
(* Only finitely many guids log in, so that ids can be counted. *)
LEMMA GuidsFinite == IsFiniteSet(Guids)
  <1> DEFINE f == [c \in Clients |-> GuidOf[c]]
  <1>1. f \in Surjection(Clients, Guids)
    BY DEF Surjection, Guids
  <1> QED
    BY <1>1, FS_Surjection, LoginAssumption

(* The ids in use are among the ids of all guids. *)
LEMMA AccountIds ==
    ASSUME AccountsOK
    PROVE  /\ IsFiniteSet(DOMAIN accounts)
           /\ Cardinality(DOMAIN accounts) \in Nat
           /\ \A g \in DOMAIN accounts : accounts[g] \in Ids
           /\ accounts \in [DOMAIN accounts -> Ids]
  <1>1. /\ IsFiniteSet(DOMAIN accounts)
        /\ Cardinality(DOMAIN accounts) <= Cardinality(Guids)
    BY GuidsFinite, FS_Subset DEF AccountsOK
  <1>2. Cardinality(DOMAIN accounts) \in Nat /\ Cardinality(Guids) \in Nat
    BY <1>1, GuidsFinite, FS_CardinalityType
  <1>3. 1..Cardinality(DOMAIN accounts) \subseteq Ids
    BY <1>1, <1>2 DEF Ids
  <1> QED
    BY <1>1, <1>2, <1>3 DEF AccountsOK

(* The INSERT of a new account's row. *)
LEMMA AccountRowAdded ==
    ASSUME AccountsOK, NEW c \in Clients, ~HasAccount(c), AccountInserted(c)
    PROVE  /\ AccountsOK'
           /\ HasAccount(c)'
           /\ DOMAIN accounts \subseteq DOMAIN accounts'
           /\ \A g \in DOMAIN accounts : accounts'[g] = accounts[g]
  <1> DEFINE n == Cardinality(DOMAIN accounts)
  <1>1. IsFiniteSet(DOMAIN accounts) /\ n \in Nat
    BY AccountIds
  <1>2. /\ DOMAIN accounts' = DOMAIN accounts \cup {GuidOf[c]}
        /\ GuidOf[c] \notin DOMAIN accounts
        /\ accounts'[GuidOf[c]] = n + 1
        /\ \A g \in DOMAIN accounts : accounts'[g] = accounts[g]
    BY DEF AccountInserted, HasAccount
  <1>3. Cardinality(DOMAIN accounts') = n + 1
    BY <1>1, <1>2, FS_AddElement
  <1> HIDE DEF n
  <1>4. \A g \in DOMAIN accounts : accounts[g] \in 1..n
    BY DEF AccountsOK, n
  <1>5. \A g \in DOMAIN accounts' : accounts'[g] \in 1..(n + 1)
    BY <1>1, <1>2, <1>4
  <1>6. accounts' \in [DOMAIN accounts' -> 1..Cardinality(DOMAIN accounts')]
    BY <1>3, <1>5 DEF AccountInserted
  <1>7. DOMAIN accounts' \subseteq Guids
    BY <1>2 DEF AccountsOK, Guids
  <1>8. ASSUME NEW g \in DOMAIN accounts', NEW h \in DOMAIN accounts',
               accounts'[g] = accounts'[h]
        PROVE  g = h
    BY <1>1, <1>2, <1>4, <1>8 DEF AccountsOK
  <1>9. HasAccount(c)'
    BY <1>2 DEF HasAccount
  <1> QED
    BY <1>2, <1>6, <1>7, <1>8, <1>9 DEF AccountsOK, Guids

(* The INSERT of a player's row, under the id of its account. *)
LEMMA PlayerRowAdded ==
    ASSUME SharedOK, NEW c \in Clients, req[c].player \in Ids, PlayerInserted(c)
    PROVE  /\ players' \subseteq Ids
           /\ players \subseteq players'
           /\ req[c].player \in players'
           /\ tokens \in Seq(players')
  <1>1. players' \subseteq Ids /\ players \subseteq players' /\ req[c].player \in players'
    BY DEF PlayerInserted, SharedOK
  <1>2. tokens \in Seq(players')
    BY <1>1, SeqMonotonic DEF SharedOK
  <1> QED
    BY <1>1, <1>2

(* The SET of a token. *)
LEMMA TokenAdded ==
    ASSUME SharedOK, NEW c \in Clients, HasPlayer(c), TokenSet(c)
    PROVE  /\ tokens' \in Seq(players)
           /\ Len(tokens) + 1 \in DOMAIN tokens'
           /\ tokens'[Len(tokens) + 1] = req[c].player
           /\ DOMAIN tokens \subseteq DOMAIN tokens'
           /\ \A t \in DOMAIN tokens : tokens'[t] = tokens[t]
  BY AppendProperties DEF TokenSet, SharedOK, HasPlayer

(* One request moves; the others still stand on what they established. *)
LEMMA RequestMoves ==
    ASSUME IInv, NEW c \in Clients, NEW r, req' = [req EXCEPT ![c] = r],
           SharedOK', Grown, RequestOK(c)'
    PROVE  IInv'
  <1>1. req' = [d \in Clients |-> req'[d]]
    BY DEF IInv
  <1>2. ASSUME NEW d \in Clients, d # c
        PROVE  RequestOK(d)'
    <2>1. req'[d] = req[d] /\ RequestOK(d)
      BY <1>2 DEF IInv
    <2> QED
      BY <2>1 DEF RequestOK, Grown, RequestType, HasAccount, HasPlayer, Vouched, Ids,
                  Guids
  <1> QED
    BY <1>1, <1>2 DEF IInv

(* A row that is there already fails the INSERT, and nothing is lost. *)
LEMMA FailedRequest ==
    ASSUME IInv, NEW c \in Clients, Fail(c), SharedOK', Grown
    PROVE  IInv'
  <1>1. RequestOK(c)'
    BY DEF IInv, Fail, RequestOK, RequestType, Out, Waiting
  <1> QED
    BY <1>1, RequestMoves DEF Fail

LEMMA InitInv == Init => IInv
  <1> SUFFICES ASSUME Init PROVE IInv
    OBVIOUS
  <1> USE DEF Init
  <1>1. AccountsOK
    BY DEF AccountsOK
  <1>2. SharedOK
    BY <1>1, EmptySeq, LoginAssumption DEF SharedOK
  <1>3. ASSUME NEW c \in Clients PROVE RequestOK(c)
    BY DEF RequestOK, RequestType, Out, Waiting
  <1> QED
    BY <1>2, <1>3 DEF IInv

(* Steps that read at most: each finds what the next point stands on. *)
LEMMA ReadsKeepInv ==
    ASSUME IInv, NEW c \in Clients,
           LoginAsync(c) \/ GetAccount(c) \/ ReadBack(c) \/ GetPlayer(c) \/ Answer(c)
    PROVE  IInv'
  <1> DEFINE r == req'[c]
  <1>1. /\ accounts' = accounts /\ players' = players /\ tokens' = tokens /\ faults' = faults
        /\ req' = [req EXCEPT ![c] = r]
    BY DEF LoginAsync, GetAccount, ReadBack, GetPlayer, Answer, At, Found, IInv
  <1>2. SharedOK' /\ Grown
    BY <1>1 DEF IInv, SharedOK, AccountsOK, Grown, Ids, Guids
  <1>3. RequestOK(c) /\ req = [d \in Clients |-> req[d]]
    BY DEF IInv
  <1>4. HasAccount(c) => accounts[GuidOf[c]] \in Ids
    BY AccountIds DEF HasAccount, IInv, SharedOK
  <1>5. RequestOK(c)'
    <2> USE <1>1, <1>3, <1>4 DEF RequestOK, RequestType, HasAccount, HasPlayer, Vouched, Ids, Guids, Waiting
    <2>1. CASE LoginAsync(c)
      BY <2>1 DEF LoginAsync, At
    <2>2. CASE GetAccount(c)
      BY <2>2 DEF GetAccount, At, Found
    <2>3. CASE ReadBack(c)
      BY <2>3 DEF ReadBack, Found
    <2>4. CASE GetPlayer(c)
      BY <2>4 DEF GetPlayer, At
    <2>5. CASE Answer(c)
      BY <2>5 DEF Answer, At
    <2> QED
      BY <2>1, <2>2, <2>3, <2>4, <2>5
  <1> QED
    BY <1>1, <1>2, <1>5, RequestMoves

LEMMA InsertAccountKeepsInv ==
    ASSUME IInv, NEW c \in Clients, InsertAccount(c) PROVE IInv'
  <1> USE DEF InsertAccount
  <1>1. /\ players' = players /\ tokens' = tokens /\ faults' = faults
        /\ SharedOK /\ AccountsOK /\ RequestOK(c)
        /\ req = [d \in Clients |-> req[d]]
    BY DEF IInv, SharedOK
  <1>2. CASE ~HasAccount(c) /\ AccountInserted(c) /\ At(c, "readBack")
    <2>1. /\ AccountsOK' /\ HasAccount(c)'
          /\ DOMAIN accounts \subseteq DOMAIN accounts'
          /\ \A g \in DOMAIN accounts : accounts'[g] = accounts[g]
      BY <1>1, <1>2, AccountRowAdded
    <2>2. SharedOK' /\ Grown
      BY <1>1, <2>1 DEF SharedOK, Grown, Ids, Guids
    <2>3. req' = [req EXCEPT ![c] = [@ EXCEPT !.pc = "readBack"]]
      BY <1>2 DEF At
    <2>4. RequestOK(c)'
      BY <1>1, <2>1, <2>3 DEF RequestOK, RequestType, Waiting, Ids, Guids
    <2> QED
      BY <2>2, <2>3, <2>4, RequestMoves
  <1>3. CASE HasAccount(c) /\ Fail(c) /\ UNCHANGED accounts
    <2>1. SharedOK' /\ Grown
      BY <1>1, <1>3 DEF SharedOK, AccountsOK, Grown, Ids, Guids
    <2> QED
      BY <1>3, <2>1, FailedRequest
  <1> QED
    BY <1>2, <1>3

LEMMA InsertPlayerKeepsInv ==
    ASSUME IInv, NEW c \in Clients, InsertPlayer(c) PROVE IInv'
  <1> USE DEF InsertPlayer
  <1>1. /\ accounts' = accounts /\ tokens' = tokens /\ faults' = faults
        /\ SharedOK /\ AccountsOK /\ RequestOK(c)
        /\ req = [d \in Clients |-> req[d]]
    BY DEF IInv, SharedOK
  <1>2. CASE ~HasPlayer(c) /\ PlayerInserted(c) /\ At(c, "token")
    <2>1. req[c].player \in Ids
      BY <1>1, AccountIds DEF RequestOK, HasAccount
    <2>2. /\ players' \subseteq Ids /\ players \subseteq players'
          /\ req[c].player \in players' /\ tokens \in Seq(players')
      BY <1>1, <1>2, <2>1, PlayerRowAdded
    <2>3. SharedOK' /\ Grown
      BY <1>1, <2>2 DEF SharedOK, AccountsOK, Grown, Ids, Guids
    <2>4. req' = [req EXCEPT ![c] = [@ EXCEPT !.pc = "token"]]
      BY <1>2 DEF At
    <2>5. RequestOK(c)'
      BY <1>1, <2>2, <2>4 DEF RequestOK, RequestType, Waiting, HasAccount, HasPlayer,
                              Ids, Guids
    <2> QED
      BY <2>3, <2>4, <2>5, RequestMoves
  <1>3. CASE HasPlayer(c) /\ Fail(c) /\ UNCHANGED players
    <2>1. SharedOK' /\ Grown
      BY <1>1, <1>3 DEF SharedOK, AccountsOK, Grown, Ids, Guids
    <2> QED
      BY <1>3, <2>1, FailedRequest
  <1> QED
    BY <1>2, <1>3

LEMMA SetTokenKeepsInv ==
    ASSUME IInv, NEW c \in Clients, SetToken(c) PROVE IInv'
  <1> USE DEF SetToken
  <1>1. /\ accounts' = accounts /\ players' = players /\ faults' = faults
        /\ req[c].pc = "token"
        /\ SharedOK /\ AccountsOK /\ RequestOK(c)
        /\ req = [d \in Clients |-> req[d]]
    BY DEF IInv, SharedOK
  <1>2. HasPlayer(c)
    BY <1>1 DEF RequestOK
  <1>3. /\ tokens' \in Seq(players)
        /\ Len(tokens) + 1 \in DOMAIN tokens'
        /\ tokens'[Len(tokens) + 1] = req[c].player
        /\ DOMAIN tokens \subseteq DOMAIN tokens'
        /\ \A t \in DOMAIN tokens : tokens'[t] = tokens[t]
    BY <1>1, <1>2, TokenAdded
  <1>4. SharedOK' /\ Grown
    BY <1>1, <1>3 DEF SharedOK, AccountsOK, Grown, Ids, Guids
  <1>5. req' = [req EXCEPT ![c] = [@ EXCEPT !.pc = "answer", !.token = Len(tokens) + 1]]
    OBVIOUS
  <1>6. RequestOK(c)'
    <2> DEFINE r == req[c]
    <2>0. req'[c] = [r EXCEPT !.pc = "answer", !.token = Len(tokens) + 1] /\ r \in RequestType
      BY <1>1, <1>5 DEF RequestOK
    <2> HIDE DEF r, SetToken
    <2>1. /\ req'[c].pc = "answer" /\ req'[c].player = r.player
          /\ req'[c].token = Len(tokens) + 1
          /\ req'[c] \in [pc : {"answer"}, player : Ids \cup {0}, token : {Len(tokens) + 1}]
      BY <2>0 DEF RequestType
    <2>2. /\ HasAccount(c)' /\ HasPlayer(c)'
          /\ r.player = accounts[GuidOf[c]] /\ r.player = req[c].player
      BY <1>1, <1>2, <2>1 DEF RequestOK, HasAccount, HasPlayer, r
    <2> QED
      BY <1>1, <1>3, <2>1, <2>2 DEF RequestOK, RequestType, Waiting, Vouched, Ids, Guids
  <1> QED
    BY <1>4, <1>5, <1>6, RequestMoves

(* A fault leaves at most a row or a token nobody was told of. *)
LEMMA AbortKeepsInv ==
    ASSUME IInv, NEW c \in Clients, Abort(c) PROVE IInv'
  <1> USE DEF Abort
  <1>1. /\ SharedOK /\ AccountsOK /\ RequestOK(c)
        /\ req = [d \in Clients |-> req[d]]
    BY DEF IInv, SharedOK
  <1>2. faults' \in 0..MaxFaults
    BY <1>1, LoginAssumption DEF SharedOK
  <1>3. SharedOK' /\ Grown
    <2>1. CASE UNCHANGED <<accounts, players, tokens>>
      BY <1>1, <1>2, <2>1 DEF SharedOK, AccountsOK, Grown, Ids, Guids
    <2>2. CASE /\ req[c].pc = "insertAccount" /\ ~HasAccount(c)
               /\ AccountInserted(c) /\ UNCHANGED <<players, tokens>>
      <3>1. /\ AccountsOK'
            /\ DOMAIN accounts \subseteq DOMAIN accounts'
            /\ \A g \in DOMAIN accounts : accounts'[g] = accounts[g]
        BY <1>1, <2>2, AccountRowAdded
      <3> QED
        BY <1>1, <1>2, <2>2, <3>1 DEF SharedOK, Grown, Ids, Guids
    <2>3. CASE /\ req[c].pc = "insertPlayer" /\ ~HasPlayer(c)
               /\ PlayerInserted(c) /\ UNCHANGED <<accounts, tokens>>
      <3>1. req[c].player \in Ids
        BY <1>1, <2>3, AccountIds DEF RequestOK, HasAccount
      <3>2. players' \subseteq Ids /\ players \subseteq players' /\ tokens \in Seq(players')
        BY <1>1, <2>3, <3>1, PlayerRowAdded
      <3> QED
        BY <1>1, <1>2, <2>3, <3>2 DEF SharedOK, AccountsOK, Grown, Ids, Guids
    <2>4. CASE req[c].pc = "token" /\ TokenSet(c) /\ UNCHANGED <<accounts, players>>
      <3>1. /\ tokens' \in Seq(players)
            /\ DOMAIN tokens \subseteq DOMAIN tokens'
            /\ \A t \in DOMAIN tokens : tokens'[t] = tokens[t]
        BY <1>1, <2>4, TokenAdded DEF RequestOK
      <3> QED
        BY <1>1, <1>2, <2>4, <3>1 DEF SharedOK, AccountsOK, Grown, Ids, Guids
    <2> QED
      BY <2>1, <2>2, <2>3, <2>4
  <1> QED
    BY <1>3, FailedRequest

LEMMA StepKeepsInv == IInv /\ [Next]_vars => IInv'
  <1> SUFFICES ASSUME IInv, [Next]_vars PROVE IInv'
    OBVIOUS
  <1>1. ASSUME NEW c \in Clients, LoginAsync(c) \/ Serve(c) \/ Abort(c)
        PROVE  IInv'
    BY <1>1, ReadsKeepInv, InsertAccountKeepsInv, InsertPlayerKeepsInv,
       SetTokenKeepsInv, AbortKeepsInv DEF Serve
  <1>2. CASE UNCHANGED vars
    BY <1>2 DEF vars, IInv, SharedOK, AccountsOK, RequestOK, RequestType, HasAccount,
                HasPlayer, Vouched, Ids, Guids
  <1> QED
    BY <1>1, <1>2 DEF Next

LEMMA AlwaysInv == Spec => []IInv
  BY InitInv, StepKeepsInv, PTL DEF Spec

(* Login's rows, tokens and requests keep their types: no interleaving of
   first logins gives out more ids than there are guids.                   *)
THEOREM LoginTypeOK == Spec => []TypeOK
  <1>1. IInv => TypeOK
    <2> SUFFICES ASSUME IInv PROVE TypeOK
      OBVIOUS
    <2>1. accounts \in [DOMAIN accounts -> Ids] /\ DOMAIN accounts \subseteq Guids
      BY AccountIds DEF IInv, SharedOK, AccountsOK
    <2>2. \A c \in Clients : req[c] \in RequestType
      BY DEF IInv, RequestOK
    <2>3. req \in [Clients -> RequestType]
      BY <2>2 DEF IInv
    <2> QED
      BY <2>1, <2>3 DEF TypeOK, IInv, SharedOK, RequestType
  <1> QED
    BY <1>1, AlwaysInv, PTL

(* LoginAsync: clients are logged in as one player exactly when they share a
   guid, that player exists, and its token is vouched for, whatever requests
   ran between the awaits of another and wherever one was cut short.       *)
THEOREM LoginAsOne == Spec => []LoggedInAsOne
  <1>1. IInv => LoggedInAsOne
    <2> SUFFICES ASSUME IInv PROVE LoggedInAsOne
      OBVIOUS
    <2>1. \A c \in LoggedIn :
            /\ c \in Clients /\ HasAccount(c) /\ req[c].player = accounts[GuidOf[c]]
            /\ HasPlayer(c) /\ Vouched(req[c].token, req[c].player)
      BY DEF IInv, RequestOK, LoggedIn
    <2>2. ASSUME NEW c \in LoggedIn, NEW d \in LoggedIn
          PROVE  req[c].player = req[d].player <=> GuidOf[c] = GuidOf[d]
      <3>1. \A g, h \in DOMAIN accounts : accounts[g] = accounts[h] => g = h
        BY DEF IInv, SharedOK, AccountsOK
      <3>2. GuidOf[c] \in DOMAIN accounts /\ GuidOf[d] \in DOMAIN accounts
        BY <2>1 DEF HasAccount
      <3>3. req[c].player = accounts[GuidOf[c]] /\ req[d].player = accounts[GuidOf[d]]
        BY <2>1
      <3> QED
        BY <3>1, <3>2, <3>3
    <2> QED
      BY <2>1, <2>2 DEF LoggedInAsOne
  <1> QED
    BY <1>1, AlwaysInv, PTL
=============================================================================
