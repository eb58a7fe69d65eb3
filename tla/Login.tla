-------------------------------- MODULE Login --------------------------------
(***************************************************************************)
(* SessionController.LoginAsync of the ApiServer: the account of a guid,   *)
(* its player and an access token, each made when it is missing.  Nothing  *)
(* serialises requests, of one guid or of several, on one server or on     *)
(* several: between its awaits a request sees whatever the others did.     *)
(*                                                                         *)
(* A request whose client gave up runs on: that is the request of another  *)
(* client of the same guid.  The crash of a server is the failure of every *)
(* request it ran.  A request without a guid is refused and left out.      *)
(***************************************************************************)
EXTENDS Integers, FiniteSets, Sequences

CONSTANTS
    Clients,
    GuidOf,     \* client -> the guid it logs in with
    MaxFaults   \* bound: so many requests fail for reasons outside the code

ASSUME LoginAssumption == IsFiniteSet(Clients) /\ MaxFaults \in Nat

VARIABLES
    accounts,   \* accounts: guid -> account_id (rows keyed by guid, see README)
    players,    \* players: the player_ids of its rows (keyed by player_id)
    tokens,     \* Redis PlayerAuth: token -> player id; tokens are numbered
    req,        \* per client, the request it waits for, or its last answer
    faults      \* failures so far

vars == <<accounts, players, tokens, req, faults>>

-----------------------------------------------------------------------------
Guids == {GuidOf[c] : c \in Clients}

Ids == 1..Cardinality(Guids)

Waiting == {"account", "insertAccount", "readBack", "player", "insertPlayer",
            "token", "answer"}

\* A request that failed, an HTTP error or a result code: there is no session.
Out == [pc |-> "out", player |-> 0, token |-> 0]

At(c, pc) == req' = [req EXCEPT ![c].pc = pc]

Fail(c) == req' = [req EXCEPT ![c] = Out]

HasAccount(c) == GuidOf[c] \in DOMAIN accounts

HasPlayer(c) == req[c].player \in players

\* AUTO_INCREMENT: an id nothing has; only its being new matters.
AccountInserted(c) ==
    accounts' = [g \in DOMAIN accounts \cup {GuidOf[c]} |->
                    IF g = GuidOf[c] THEN Cardinality(DOMAIN accounts) + 1
                    ELSE accounts[g]]

PlayerInserted(c) == players' = players \cup {req[c].player}

TokenSet(c) == tokens' = Append(tokens, req[c].player)

\* What the Auth handler of the front server makes of a token and an account.
Vouched(t, p) == t \in DOMAIN tokens /\ tokens[t] = p

-----------------------------------------------------------------------------
Init ==
    /\ accounts = [g \in {} |-> 0]
    /\ players = {}
    /\ tokens = <<>>
    /\ req = [c \in Clients |-> Out]
    /\ faults = 0

\* A client that is not logged in tries, again if it tried before.
LoginAsync(c) ==
    /\ req[c].pc = "out"
    /\ At(c, "account")
    /\ UNCHANGED <<accounts, players, tokens, faults>>

\* playerId is the account's id.
Found(c) ==
    req' = [req EXCEPT ![c] =
                [pc |-> "player", player |-> accounts[GuidOf[c]], token |-> 0]]

GetAccount(c) ==
    /\ req[c].pc = "account"
    /\ \/ HasAccount(c) /\ Found(c)
       \/ ~HasAccount(c) /\ At(c, "insertAccount")
    /\ UNCHANGED <<accounts, players, tokens, faults>>

\* Another request inserted the guid since: the key makes this one throw.
InsertAccount(c) ==
    /\ req[c].pc = "insertAccount"
    /\ \/ ~HasAccount(c) /\ AccountInserted(c) /\ At(c, "readBack")
       \/ HasAccount(c) /\ Fail(c) /\ UNCHANGED accounts
    /\ UNCHANGED <<players, tokens, faults>>

\* Nothing deletes accounts: the row is there.
ReadBackNewest(c) ==
    /\ req[c].pc = "readBack"
    /\ req' = [req EXCEPT ![c] = [pc |-> "player", token |-> 0,
                                  player |-> Cardinality(DOMAIN accounts)]]
    /\ UNCHANGED <<accounts, players, tokens, faults>>
ReadBack(c) ==
    /\ req[c].pc = "readBack"
    /\ Found(c)
    /\ UNCHANGED <<accounts, players, tokens, faults>>

GetPlayerAlwaysNew(c) ==
    /\ req[c].pc = "player"
    /\ At(c, "insertPlayer")
    /\ UNCHANGED <<accounts, players, tokens, faults>>
GetPlayerNeverMade(c) ==
    /\ req[c].pc = "player"
    /\ At(c, "token")
    /\ UNCHANGED <<accounts, players, tokens, faults>>
GetPlayer(c) ==
    /\ req[c].pc = "player"
    /\ At(c, IF HasPlayer(c) THEN "token" ELSE "insertPlayer")
    /\ UNCHANGED <<accounts, players, tokens, faults>>

InsertPlayer(c) ==
    /\ req[c].pc = "insertPlayer"
    /\ \/ ~HasPlayer(c) /\ PlayerInserted(c) /\ At(c, "token")
       \/ HasPlayer(c) /\ Fail(c) /\ UNCHANGED players
    /\ UNCHANGED <<accounts, tokens, faults>>

SetToken(c) ==
    /\ req[c].pc = "token"
    /\ TokenSet(c)
    /\ req' = [req EXCEPT ![c].pc = "answer", ![c].token = Len(tokens) + 1]
    /\ UNCHANGED <<accounts, players, faults>>

Answer(c) ==
    /\ req[c].pc = "answer"
    /\ At(c, "in")
    /\ UNCHANGED <<accounts, players, tokens, faults>>

\* A statement or its server fails, before or after the statement is applied,
\* or the answer is lost.
Abort(c) ==
    /\ req[c].pc \in Waiting
    /\ faults < MaxFaults /\ faults' = faults + 1
    /\ Fail(c)
    /\ \/ UNCHANGED <<accounts, players, tokens>>
       \/ /\ req[c].pc = "insertAccount" /\ ~HasAccount(c)
          /\ AccountInserted(c) /\ UNCHANGED <<players, tokens>>
       \/ /\ req[c].pc = "insertPlayer" /\ ~HasPlayer(c)
          /\ PlayerInserted(c) /\ UNCHANGED <<accounts, tokens>>
       \/ req[c].pc = "token" /\ TokenSet(c) /\ UNCHANGED <<accounts, players>>

Serve(c) ==
    \/ GetAccount(c) \/ InsertAccount(c) \/ ReadBack(c)
    \/ GetPlayer(c) \/ InsertPlayer(c)
    \/ SetToken(c) \/ Answer(c)

Next == \E c \in Clients : LoginAsync(c) \/ Serve(c) \/ Abort(c)

Spec == Init /\ [][Next]_vars

\* Servers go on with what they run, and a client that is out tries again.
FairSpec ==
    /\ Spec
    /\ \A c \in Clients : WF_vars(LoginAsync(c)) /\ WF_vars(Serve(c))

-----------------------------------------------------------------------------
LoggedIn == {c \in Clients : req[c].pc = "in"}

(* Every variable stays in its type. *)
TypeOK ==
    /\ accounts \in [DOMAIN accounts -> Ids] /\ DOMAIN accounts \subseteq Guids
    /\ players \subseteq Ids
    /\ tokens \in Seq(players)
    /\ req \in [Clients -> [pc : Waiting \cup {"out", "in"}, player : Ids \cup {0},
                            token : DOMAIN tokens \cup {0}]]
    /\ faults \in 0..MaxFaults

(* Whatever requests ran between the awaits of another, and wherever one was
   cut short: clients with one guid are logged in as one player and clients
   with two as two, players that exist, each with a token the front server
   takes for it.                                                           *)
LoggedInAsOne ==
    /\ \A c \in LoggedIn :
        /\ HasAccount(c) /\ req[c].player = accounts[GuidOf[c]]
        /\ HasPlayer(c)
        /\ Vouched(req[c].token, req[c].player)
    /\ \A c, d \in LoggedIn :
        req[c].player = req[d].player <=> GuidOf[c] = GuidOf[d]

(* A client that keeps trying is logged in at last: no interleaving of first
   logins and no request that was cut short, which may leave an account
   without a player, locks its guid out.                                   *)
EveryoneGetsIn == \A c \in Clients : <>(c \in LoggedIn)
=============================================================================
