------------------------------ MODULE Sessions ------------------------------
(***************************************************************************)
(* The front server's connections: SessionService's two dictionaries, the  *)
(* PlayerSession of each connection with its authentication timer, and the *)
(* Auth handler, which awaits Redis between reading the token and binding  *)
(* the player.                                                             *)
(*                                                                         *)
(* The handlers of one connection run on its event loop, one at a time,    *)
(* and so does what follows an await; connections are on different loops.  *)
(***************************************************************************)
CONSTANTS
    Conns,      \* connections, each used once
    Players,    \* player ids
    MayAuth,    \* connection -> the tokens its client sends: players', or bad ones
    NoPlayer,   \* the session id of a session that is not authenticated (0)
    BadToken    \* an empty, unknown or mismatched token

ASSUME SessionsAssumption ==
    /\ MayAuth \in [Conns -> SUBSET (Players \cup {BadToken})]
    /\ NoPlayer \notin Players /\ BadToken \notin Players

VARIABLES
    chan,       \* state of each connection's channel
    contexts,   \* keys of _contextSessions
    id,         \* PlayerSession.SessionId
    authed,     \* PlayerSession.IsAuthenticated
    disposed,   \* is _authTimeoutCts disposed?
    timer,      \* the delay of StartAuthTimeout
    awaiting,   \* per connection, the Auth requests that await Redis
    sessions,   \* _sessions: player id -> connection of the registered session
    authedAs    \* history: the players a connection authenticated as while it
                \* had a session

vars == <<chan, contexts, id, authed, disposed, timer, awaiting, sessions, authedAs>>

-----------------------------------------------------------------------------
Registered(p) == p \in DOMAIN sessions

Connected(c) == chan[c] \in {"open", "closing"}

\* _sessions.TryAdd
AddSession(p, c) ==
    IF Registered(p) THEN sessions
    ELSE [q \in DOMAIN sessions \cup {p} |-> IF q = p THEN c ELSE sessions[q]]

RemoveSessionEmptied(p) ==
    [q \in DOMAIN sessions |-> IF q = p THEN NoPlayer ELSE sessions[q]]
\* _sessions.TryRemove: by player id, whichever session is registered
RemoveSession(p) == [q \in DOMAIN sessions \ {p} |-> sessions[q]]

TryRemoveSession(c) ==
    IF c \notin contexts THEN UNCHANGED <<contexts, sessions, disposed>>
    ELSE /\ contexts' = contexts \ {c}
         /\ sessions' = RemoveSession(id[c])
         /\ disposed' = [disposed EXCEPT ![c] = TRUE]

CloseAsync(c) ==
    chan' = IF chan[c] = "open" THEN [chan EXCEPT ![c] = "closing"] ELSE chan

-----------------------------------------------------------------------------
Init ==
    /\ chan = [c \in Conns |-> "none"]
    /\ contexts = {}
    /\ id = [c \in Conns |-> NoPlayer]
    /\ authed = [c \in Conns |-> FALSE]
    /\ disposed = [c \in Conns |-> FALSE]
    /\ timer = [c \in Conns |-> "off"]
    /\ awaiting = [c \in Conns |-> {}]
    /\ sessions = [p \in {} |-> NoPlayer]
    /\ authedAs = [c \in Conns |-> {}]

ChannelActive(c) ==
    /\ chan[c] = "none"
    /\ chan' = [chan EXCEPT ![c] = "open"]
    /\ contexts' = contexts \cup {c}
    /\ timer' = [timer EXCEPT ![c] = "armed"]
    /\ UNCHANGED <<id, authed, disposed, awaiting, sessions, authedAs>>

\* An Auth packet is dispatched, to a session of any state, and asks Redis.
AuthAsync(c, t) ==
    /\ Connected(c) /\ c \in contexts
    /\ awaiting' = [awaiting EXCEPT ![c] = @ \cup {t}]
    /\ UNCHANGED <<chan, contexts, id, authed, disposed, timer, sessions, authedAs>>

\* Redis does not vouch for the player, or fails.
AuthRefused(c, t) ==
    /\ t \in awaiting[c]
    /\ awaiting' = [awaiting EXCEPT ![c] = @ \ {t}]
    /\ UNCHANGED <<chan, contexts, id, authed, disposed, timer, sessions, authedAs>>

\* CompleteAuth and AddSession.  Cancelling a disposed source throws, and
\* then the session is not added.
CancelNeverThrows(c) == FALSE
CancelThrowsOnceElapsed(c) == disposed[c] \/ timer[c] = "off"
CancelThrows(c) == disposed[c]

AuthCompletes(c, p) ==
    /\ p \in awaiting[c] \cap Players
    /\ awaiting' = [awaiting EXCEPT ![c] = @ \ {p}]
    /\ id' = [id EXCEPT ![c] = p]
    /\ authed' = [authed EXCEPT ![c] = TRUE]
    /\ timer' = IF timer[c] = "armed" /\ ~CancelThrows(c)
                THEN [timer EXCEPT ![c] = "cancelled"] ELSE timer
    /\ sessions' = IF CancelThrows(c) THEN sessions ELSE AddSession(p, c)
    /\ authedAs' = IF c \in contexts THEN [authedAs EXCEPT ![c] = @ \cup {p}] ELSE authedAs
    /\ UNCHANGED <<chan, contexts, disposed>>

\* Any other packet changes something here only when its session is gone.
DispatchWithoutSession(c) ==
    /\ Connected(c) /\ c \notin contexts
    /\ CloseAsync(c)
    /\ UNCHANGED <<contexts, id, authed, disposed, timer, awaiting, sessions, authedAs>>

\* The delay elapses; its continuation closes the channel, even if the
\* session is authenticated by then.
TimerElapses(c) ==
    /\ timer[c] = "armed"
    /\ timer' = [timer EXCEPT ![c] = "elapsed"]
    /\ UNCHANGED <<chan, contexts, id, authed, disposed, awaiting, sessions, authedAs>>

TimerDropped(c) ==
    /\ timer[c] = "elapsed"
    /\ timer' = [timer EXCEPT ![c] = "off"]
    /\ UNCHANGED <<chan, contexts, id, authed, disposed, awaiting, sessions, authedAs>>
TimerCloses(c) ==
    /\ timer[c] = "elapsed"
    /\ timer' = [timer EXCEPT ![c] = "off"]
    /\ CloseAsync(c)
    /\ UNCHANGED <<contexts, id, authed, disposed, awaiting, sessions, authedAs>>

PeerCloses(c) ==
    /\ chan[c] = "open"
    /\ CloseAsync(c)
    /\ UNCHANGED <<contexts, id, authed, disposed, timer, awaiting, sessions, authedAs>>

ChannelInactive(c) ==
    /\ chan[c] = "closing"
    /\ chan' = [chan EXCEPT ![c] = "closed"]
    /\ TryRemoveSession(c)
    /\ UNCHANGED <<id, authed, timer, awaiting, authedAs>>

ExceptionCaught(c) ==
    /\ Connected(c)
    /\ TryRemoveSession(c)
    /\ CloseAsync(c)
    /\ UNCHANGED <<id, authed, timer, awaiting, authedAs>>

Server(c) ==
    \/ \E t \in Players \cup {BadToken} : AuthRefused(c, t)
    \/ \E p \in Players : AuthCompletes(c, p)
    \/ TimerElapses(c) \/ TimerCloses(c) \/ ChannelInactive(c)

Client(c) ==
    \/ ChannelActive(c) \/ PeerCloses(c) \/ ExceptionCaught(c)
    \/ \E t \in MayAuth[c] : AuthAsync(c, t)
    \/ DispatchWithoutSession(c)

Next == \E c \in Conns : Server(c) \/ Client(c)

Spec == Init /\ [][Next]_vars

\* Timers elapse and event loops run what is posted to them; Redis may not
\* answer, and a client need not do anything.
FairSpec ==
    /\ Spec
    /\ \A c \in Conns :
         /\ WF_vars(TimerElapses(c)) /\ WF_vars(TimerCloses(c))
         /\ WF_vars(ChannelInactive(c))

-----------------------------------------------------------------------------
(* Every variable stays in its type. *)
TypeOK ==
    /\ chan \in [Conns -> {"none", "open", "closing", "closed"}]
    /\ contexts \subseteq Conns
    /\ id \in [Conns -> Players \cup {NoPlayer}]
    /\ authed \in [Conns -> BOOLEAN]
    /\ disposed \in [Conns -> BOOLEAN]
    /\ timer \in [Conns -> {"off", "armed", "elapsed", "cancelled"}]
    /\ awaiting \in [Conns -> SUBSET (Players \cup {BadToken})]
    /\ sessions \in [DOMAIN sessions -> Conns] /\ DOMAIN sessions \subseteq Players
    /\ authedAs \in [Conns -> SUBSET Players]

\* A client that holds the tokens of one player.
OnePlayer(c) == \E p \in Players : MayAuth[c] \cap Players = {p}

(* Whispers and broadcasts reach live players: a registered session is
   authenticated as the player it is registered under and its connection has
   not been removed, although the connection may go while Redis is asked.
   Only a client that authenticates one connection as two players escapes
   this: its first registration stays behind.                              *)
RegisteredIsLive ==
    \A p \in DOMAIN sessions :
        /\ authed[sessions[p]]
        /\ OnePlayer(sessions[p]) => id[sessions[p]] = p /\ sessions[p] \in contexts

(* An authenticated, connected player that nobody can reach shares its player
   with another connection that authenticated as that player: either that
   one is still registered, since AddSession kept the first, or it is gone,
   and a removal by player id took the registration along.                 *)
UnreachableOnlyByDuplicate ==
    \A c \in contexts :
        authed[c] /\ ~(Registered(id[c]) /\ sessions[id[c]] = c) =>
            \E d \in Conns \ {c} :
                /\ id[c] \in authedAs[d]
                /\ d \in contexts => Registered(id[c]) /\ sessions[id[c]] = d

(* A connection that does not authenticate is closed, whatever Redis does.  *)
NoLingering ==
    \A c \in Conns : chan[c] = "open" ~> (authed[c] \/ chan[c] = "closed")
=============================================================================
