--------------------------- MODULE SessionsProofs ---------------------------
(***************************************************************************)
(* Sessions, for every set of connections and players and whatever tokens  *)
(* the clients hold.  The invariant ties the two dictionaries to the       *)
(* states of the connections: a session is removed once, and its timer's   *)
(* source is disposed in the same step, which is what keeps an Auth that   *)
(* completes afterwards from registering it.                               *)
(***************************************************************************)
EXTENDS Sessions, TLAPS

\* What a connection's own state says of its session.
ConnOK(c) ==
    /\ chan[c] = "none" => c \notin contexts /\ ~disposed[c] /\ ~authed[c]
                           /\ awaiting[c] = {} /\ authedAs[c] = {}
    /\ chan[c] # "none" => (c \in contexts <=> ~disposed[c])
    /\ awaiting[c] \subseteq MayAuth[c]
    /\ IF authed[c] THEN id[c] \in Players \cap MayAuth[c] ELSE id[c] = NoPlayer
    /\ c \in contexts /\ authed[c] => id[c] \in authedAs[c]

\* A player is registered to a connection that authenticated as it.
RegisteredOK ==
    \A p \in DOMAIN sessions :
        /\ authed[sessions[p]] /\ p \in MayAuth[sessions[p]]
        /\ p \in authedAs[sessions[p]]

IInv ==
    /\ TypeOK
    /\ \A c \in Conns : ConnOK(c)
    /\ RegisteredOK
    /\ RegisteredIsLive
    /\ UnreachableOnlyByDuplicate

-----------------------------------------------------------------------------
LEMMA InitInv == Init => IInv
  <1> SUFFICES ASSUME Init PROVE IInv
    OBVIOUS
  <1> USE DEF Init
  <1>1. TypeOK
    BY DEF TypeOK
  <1>2. \A c \in Conns : ConnOK(c)
    BY DEF ConnOK
  <1>3. RegisteredOK /\ RegisteredIsLive /\ UnreachableOnlyByDuplicate
    BY DEF RegisteredOK, RegisteredIsLive, UnreachableOnlyByDuplicate
  <1> QED
    BY <1>1, <1>2, <1>3 DEF IInv

(* A client of one player can have authenticated only as that player. *)
LEMMA OnlyPlayer ==
    ASSUME NEW c, OnePlayer(c),
           NEW p \in MayAuth[c] \cap Players, NEW q \in MayAuth[c] \cap Players
    PROVE  p = q
  BY DEF OnePlayer

(* Steps that touch neither the dictionaries nor who is authenticated. *)
LEMMA ChannelStepKeepsInv ==
    ASSUME IInv, NEW c \in Conns,
           UNCHANGED <<contexts, id, authed, disposed, sessions, authedAs>>,
           TypeOK', ConnOK(c)',
           \A d \in Conns \ {c} : chan'[d] = chan[d] /\ awaiting'[d] = awaiting[d]
    PROVE  IInv'
  <1>1. \A d \in Conns : ConnOK(d)'
    BY DEF IInv, ConnOK
  <1>2. RegisteredOK' /\ RegisteredIsLive' /\ UnreachableOnlyByDuplicate'
    BY DEF IInv, RegisteredOK, RegisteredIsLive, UnreachableOnlyByDuplicate, Registered,
           OnePlayer
  <1> QED
    BY <1>1, <1>2 DEF IInv

LEMMA ClosingKeepsInv ==
    ASSUME IInv, NEW c \in Conns,
           \/ PeerCloses(c) \/ TimerElapses(c) \/ TimerCloses(c)
           \/ DispatchWithoutSession(c)
    PROVE  IInv'
  <1>1. /\ UNCHANGED <<contexts, id, authed, disposed, sessions, awaiting, authedAs>>
        /\ TypeOK /\ ConnOK(c)
    BY DEF IInv, PeerCloses, TimerElapses, TimerCloses, DispatchWithoutSession, CloseAsync
  <1>2. /\ \/ chan' = chan
           \/ chan[c] = "open" /\ chan' = [chan EXCEPT ![c] = "closing"]
        /\ \/ timer' = timer
           \/ \E s \in {"elapsed", "off"} : timer' = [timer EXCEPT ![c] = s]
    BY DEF PeerCloses, TimerElapses, TimerCloses, DispatchWithoutSession, CloseAsync
  <1>3. TypeOK'
    BY <1>1, <1>2 DEF TypeOK
  <1>4. ConnOK(c)'
    BY <1>1, <1>2 DEF ConnOK, TypeOK
  <1>5. \A d \in Conns \ {c} : chan'[d] = chan[d] /\ awaiting'[d] = awaiting[d]
    BY <1>1, <1>2 DEF TypeOK
  <1> QED
    BY <1>1, <1>3, <1>4, <1>5, ChannelStepKeepsInv

LEMMA AuthAsyncKeepsInv ==
    ASSUME IInv, NEW c \in Conns, NEW t \in MayAuth[c], AuthAsync(c, t)
    PROVE  IInv'
  <1>1. /\ UNCHANGED <<chan, contexts, id, authed, disposed, timer, sessions, authedAs>>
        /\ chan[c] # "none" /\ awaiting' = [awaiting EXCEPT ![c] = @ \cup {t}]
        /\ TypeOK /\ ConnOK(c)
    BY DEF IInv, AuthAsync, Connected
  <1>2. TypeOK'
    BY <1>1, SessionsAssumption DEF TypeOK
  <1>3. ConnOK(c)'
    BY <1>1 DEF ConnOK, TypeOK
  <1>4. \A d \in Conns \ {c} : chan'[d] = chan[d] /\ awaiting'[d] = awaiting[d]
    BY <1>1 DEF TypeOK
  <1> QED
    BY <1>1, <1>2, <1>3, <1>4, ChannelStepKeepsInv

LEMMA AuthRefusedKeepsInv ==
    ASSUME IInv, NEW c \in Conns, NEW t, AuthRefused(c, t)
    PROVE  IInv'
  <1>1. /\ UNCHANGED <<chan, contexts, id, authed, disposed, timer, sessions, authedAs>>
        /\ awaiting' = [awaiting EXCEPT ![c] = @ \ {t}]
        /\ TypeOK /\ ConnOK(c)
    BY DEF IInv, AuthRefused
  <1>2. TypeOK'
    BY <1>1 DEF TypeOK
  <1>3. ConnOK(c)'
    BY <1>1 DEF ConnOK, TypeOK
  <1>4. \A d \in Conns \ {c} : chan'[d] = chan[d] /\ awaiting'[d] = awaiting[d]
    BY <1>1 DEF TypeOK
  <1> QED
    BY <1>1, <1>2, <1>3, <1>4, ChannelStepKeepsInv

LEMMA ChannelActiveKeepsInv ==
    ASSUME IInv, NEW c \in Conns, ChannelActive(c) PROVE IInv'
  <1> USE DEF ChannelActive
  <1>1. TypeOK /\ ConnOK(c)
    BY DEF IInv
  <1>2. TypeOK'
    BY <1>1 DEF TypeOK
  <1>3. \A d \in Conns : ConnOK(d)'
    BY <1>1 DEF IInv, ConnOK, TypeOK
  <1>4. RegisteredOK' /\ RegisteredIsLive'
    BY DEF IInv, RegisteredOK, RegisteredIsLive, OnePlayer
  <1>5. UnreachableOnlyByDuplicate'
    <2> SUFFICES ASSUME NEW d \in contexts, authed[d],
                        ~(id[d] \in DOMAIN sessions /\ sessions[id[d]] = d)
                 PROVE  \E e \in Conns \ {d} :
                            /\ id[d] \in authedAs[e]
                            /\ e \in contexts' => /\ id[d] \in DOMAIN sessions
                                                 /\ sessions[id[d]] = e
      BY <1>1 DEF ConnOK, UnreachableOnlyByDuplicate, Registered
    <2>1. PICK e \in Conns \ {d} :
            /\ id[d] \in authedAs[e]
            /\ e \in contexts => id[d] \in DOMAIN sessions /\ sessions[id[d]] = e
      BY DEF IInv, UnreachableOnlyByDuplicate, Registered
    <2>2. e # c
      BY <1>1, <2>1 DEF ConnOK
    <2> QED
      BY <2>1, <2>2
  <1> QED
    BY <1>2, <1>3, <1>4, <1>5 DEF IInv

(* Another registration of the player stays; of a session that was removed
   meanwhile nothing is registered.                                        *)
LEMMA AuthCompletesKeepsInv ==
    ASSUME IInv, NEW c \in Conns, NEW p \in Players, AuthCompletes(c, p)
    PROVE  IInv'
  <1> USE DEF AuthCompletes
  <1>1. /\ TypeOK /\ ConnOK(c) /\ p \in awaiting[c] /\ chan' = chan
        /\ contexts' = contexts /\ disposed' = disposed
    BY DEF IInv
  <1>2. p \in MayAuth[c] /\ chan[c] # "none" /\ (c \in contexts <=> ~disposed[c])
    BY <1>1 DEF ConnOK
  <1>3. /\ \A d \in Conns : id'[d] = IF d = c THEN p ELSE id[d]
        /\ \A d \in Conns : authed'[d] = IF d = c THEN TRUE ELSE authed[d]
        /\ \A d \in Conns : awaiting'[d] \subseteq awaiting[d]
        /\ \A d \in Conns : authedAs'[d] =
                authedAs[d] \cup IF d = c /\ c \in contexts THEN {p} ELSE {}
        /\ authedAs' \in [Conns -> SUBSET Players]
    BY <1>1 DEF TypeOK
  <1>4. /\ DOMAIN sessions' = DOMAIN sessions \cup
                (IF ~disposed[c] THEN {p} ELSE {})
        /\ \A q \in DOMAIN sessions : sessions'[q] = sessions[q]
        /\ ~disposed[c] /\ p \notin DOMAIN sessions => sessions'[p] = c
        /\ sessions' \in [DOMAIN sessions' -> Conns]
    BY <1>1 DEF CancelThrows, AddSession, Registered, TypeOK
  <1>5. TypeOK'
    <2>1. timer' \in [Conns -> {"off", "armed", "elapsed", "cancelled"}]
      BY <1>1 DEF TypeOK
    <2>2. DOMAIN sessions' \subseteq Players
      BY <1>1, <1>4 DEF TypeOK
    <2> QED
      BY <1>1, <1>3, <1>4, <2>1, <2>2 DEF TypeOK
  <1>6. ASSUME NEW d \in Conns PROVE ConnOK(d)'
    <2>1. ConnOK(d)
      BY DEF IInv
    <2> HIDE DEF AuthCompletes
    <2>2. CASE d = c
      <3>1. id'[c] = p /\ authed'[c] /\ awaiting'[c] \subseteq MayAuth[c]
            /\ (c \in contexts => p \in authedAs'[c])
        BY <1>1, <1>3 DEF ConnOK
      <3> QED
        BY <1>1, <1>2, <2>2, <3>1 DEF ConnOK
    <2>3. CASE d # c
      <3>1. id'[d] = id[d] /\ authed'[d] = authed[d] /\ awaiting'[d] \subseteq awaiting[d]
            /\ authedAs'[d] = authedAs[d]
        BY <1>3, <2>3
      <3> QED
        BY <1>1, <2>1, <3>1 DEF ConnOK
    <2> QED
      BY <2>2, <2>3
  <1>7. RegisteredOK'
    BY <1>1, <1>2, <1>3, <1>4 DEF IInv, RegisteredOK, TypeOK
  <1>8. RegisteredIsLive'
    <2> SUFFICES ASSUME NEW q \in DOMAIN sessions', OnePlayer(sessions'[q])
                 PROVE  id'[sessions'[q]] = q /\ sessions'[q] \in contexts
      BY <1>1, <1>7 DEF RegisteredIsLive, RegisteredOK, OnePlayer
    <2>1. CASE q \in DOMAIN sessions /\ sessions[q] # c
      BY <1>1, <1>3, <1>4, <2>1 DEF IInv, RegisteredIsLive, TypeOK
    <2>2. CASE q \in DOMAIN sessions /\ sessions[q] = c
      <3>1. q \in MayAuth[c] /\ q \in Players /\ c \in contexts /\ sessions'[q] = c
        BY <1>1, <1>4, <2>2 DEF IInv, RegisteredIsLive, RegisteredOK, TypeOK
      <3>2. p = q
        BY <1>2, <3>1, OnlyPlayer
      <3> QED
        BY <1>3, <3>1, <3>2
    <2>3. CASE q \notin DOMAIN sessions
      BY <1>2, <1>3, <1>4, <2>3
    <2> QED
      BY <2>1, <2>2, <2>3
  <1>9. UnreachableOnlyByDuplicate'
    <2> SUFFICES ASSUME NEW d \in contexts, authed'[d],
                        ~(id'[d] \in DOMAIN sessions' /\ sessions'[id'[d]] = d)
                 PROVE  \E e \in Conns \ {d} :
                            /\ id'[d] \in authedAs'[e]
                            /\ e \in contexts => /\ id'[d] \in DOMAIN sessions'
                                                /\ sessions'[id'[d]] = e
      BY <1>1 DEF UnreachableOnlyByDuplicate, Registered
    <2>1. d \in Conns
      BY <1>1 DEF TypeOK
    <2>2. CASE d = c
      <3>1. id'[c] = p /\ p \in DOMAIN sessions /\ sessions[p] \in Conns \ {c}
        BY <1>1, <1>2, <1>3, <1>4, <2>2 DEF TypeOK
      <3>2. p \in authedAs'[sessions[p]]
        BY <1>3, <3>1 DEF IInv, RegisteredOK
      <3>3. p \in DOMAIN sessions' /\ sessions'[p] = sessions[p]
        BY <1>4, <3>1
      <3> QED
        BY <2>2, <3>1, <3>2, <3>3
    <2>3. CASE d # c
      <3>1. /\ id'[d] = id[d] /\ authed[d]
            /\ ~(id[d] \in DOMAIN sessions /\ sessions[id[d]] = d)
        BY <1>3, <1>4, <2>1, <2>3
      <3>2. PICK e \in Conns \ {d} :
              /\ id[d] \in authedAs[e]
              /\ e \in contexts => id[d] \in DOMAIN sessions /\ sessions[id[d]] = e
        BY <3>1 DEF IInv, UnreachableOnlyByDuplicate, Registered
      <3>3. id[d] \in DOMAIN sessions =>
               id[d] \in DOMAIN sessions' /\ sessions'[id[d]] = sessions[id[d]]
        BY <1>4
      <3> QED
        BY <1>3, <3>1, <3>2, <3>3
    <2> QED
      BY <2>2, <2>3
  <1> QED
    BY <1>5, <1>6, <1>7, <1>8, <1>9 DEF IInv

(* What a removal takes: the connection's own registration, or that of another
   connection of its player; of a client of one player, never another's.   *)
LEMMA RemovalKeepsInv ==
    ASSUME IInv, NEW c \in Conns, TryRemoveSession(c), chan[c] # "none",
           UNCHANGED <<id, authed, timer, awaiting, authedAs>>,
           \/ chan' = chan
           \/ \E s \in {"closing", "closed"} : chan' = [chan EXCEPT ![c] = s]
    PROVE  IInv'
  <1>1. TypeOK /\ ConnOK(c)
    BY DEF IInv
  <1>2. /\ chan' \in [Conns -> {"none", "open", "closing", "closed"}]
        /\ \A d \in Conns : chan'[d] = "none" <=> chan[d] = "none"
    BY <1>1 DEF TypeOK
  <1>3. CASE c \notin contexts
    <2>1. UNCHANGED <<contexts, sessions, disposed>>
      BY <1>3 DEF TryRemoveSession
    <2>2. TypeOK' /\ \A d \in Conns : ConnOK(d)'
      BY <1>2, <2>1 DEF IInv, TypeOK, ConnOK
    <2>3. RegisteredOK' /\ RegisteredIsLive' /\ UnreachableOnlyByDuplicate'
      BY <2>1 DEF IInv, RegisteredOK, RegisteredIsLive, UnreachableOnlyByDuplicate,
                  Registered, OnePlayer
    <2> QED
      BY <2>2, <2>3 DEF IInv
  <1>4. CASE c \in contexts
    <2>1. /\ contexts' = contexts \ {c}
          /\ disposed' = [disposed EXCEPT ![c] = TRUE]
          /\ DOMAIN sessions' = DOMAIN sessions \ {id[c]}
          /\ \A p \in DOMAIN sessions' : sessions'[p] = sessions[p]
          /\ sessions' = [p \in DOMAIN sessions' |-> sessions[p]]
      BY <1>4 DEF TryRemoveSession, RemoveSession
    <2>2. TypeOK'
      BY <1>1, <1>2, <2>1 DEF TypeOK
    <2>3. ASSUME NEW d \in Conns PROVE ConnOK(d)'
      BY <1>1, <1>2, <2>1 DEF IInv, ConnOK, TypeOK
    <2>4. RegisteredOK'
      BY <2>1 DEF IInv, RegisteredOK
    <2>5. RegisteredIsLive'
      <3> SUFFICES ASSUME NEW p \in DOMAIN sessions', OnePlayer(sessions[p])
                   PROVE  id[sessions[p]] = p /\ sessions[p] \in contexts \ {c}
        BY <2>1, <2>4 DEF RegisteredIsLive, RegisteredOK, OnePlayer
      <3>1. id[sessions[p]] = p /\ sessions[p] \in contexts /\ p # id[c]
        BY <2>1 DEF IInv, RegisteredIsLive
      <3> QED
        BY <3>1
    <2>6. UnreachableOnlyByDuplicate'
      <3> SUFFICES ASSUME NEW d \in contexts, d # c, authed[d],
                          ~(id[d] \in DOMAIN sessions' /\ sessions'[id[d]] = d)
                   PROVE  \E e \in Conns \ {d} :
                              /\ id[d] \in authedAs[e]
                              /\ e \in contexts' => /\ id[d] \in DOMAIN sessions'
                                                   /\ sessions'[id[d]] = e
        BY <2>1 DEF UnreachableOnlyByDuplicate, Registered
      <3>1. CASE id[d] = id[c]
        <4>1. d \in Conns /\ id[d] \in Players
          BY <1>1 DEF IInv, ConnOK, TypeOK
        <4>2. authed[c] /\ id[c] \in authedAs[c]
          BY <1>1, <1>4, <3>1, <4>1, SessionsAssumption DEF ConnOK
        <4> QED
          BY <2>1, <3>1, <4>2
      <3>2. CASE id[d] # id[c]
        <4>1. id[d] \in DOMAIN sessions =>
                 id[d] \in DOMAIN sessions' /\ sessions'[id[d]] = sessions[id[d]]
          BY <2>1, <3>2
        <4>2. PICK e \in Conns \ {d} :
                /\ id[d] \in authedAs[e]
                /\ e \in contexts => id[d] \in DOMAIN sessions /\ sessions[id[d]] = e
          BY <2>1, <4>1 DEF IInv, UnreachableOnlyByDuplicate, Registered
        <4> QED
          BY <2>1, <4>1, <4>2
      <3> QED
        BY <3>1, <3>2
    <2> QED
      BY <2>2, <2>3, <2>4, <2>5, <2>6 DEF IInv
  <1> QED
    BY <1>3, <1>4

LEMMA StepKeepsInv == IInv /\ [Next]_vars => IInv'
  <1> SUFFICES ASSUME IInv, [Next]_vars PROVE IInv'
    OBVIOUS
  <1>1. ASSUME NEW c \in Conns, Server(c) PROVE IInv'
    <2>1. CASE ChannelInactive(c)
      BY <2>1, RemovalKeepsInv DEF ChannelInactive
    <2> QED
      BY <1>1, <2>1, AuthRefusedKeepsInv, AuthCompletesKeepsInv, ClosingKeepsInv DEF Server
  <1>2. ASSUME NEW c \in Conns, Client(c) PROVE IInv'
    <2>1. CASE ExceptionCaught(c)
      BY <2>1, RemovalKeepsInv DEF ExceptionCaught, Connected, CloseAsync
    <2> QED
      BY <1>2, <2>1, ChannelActiveKeepsInv, AuthAsyncKeepsInv, ClosingKeepsInv DEF Client
  <1>3. CASE UNCHANGED vars
    BY <1>3 DEF vars, IInv, TypeOK, ConnOK, RegisteredOK, RegisteredIsLive,
                UnreachableOnlyByDuplicate, Registered, OnePlayer
  <1> QED
    BY <1>1, <1>2, <1>3 DEF Next

LEMMA AlwaysInv == Spec => []IInv
  BY InitInv, StepKeepsInv, PTL DEF Spec

(* SessionService and PlayerSession keep their types. *)
THEOREM SessionsTypeOK == Spec => []TypeOK
  <1>1. IInv => TypeOK
    BY DEF IInv
  <1> QED
    BY <1>1, AlwaysInv, PTL

(* SessionService._sessions: what is registered is authenticated, and of a
   client of one player it is that player's connection, not yet removed.   *)
THEOREM SessionsRegisteredIsLive == Spec => []RegisteredIsLive
  <1>1. IInv => RegisteredIsLive
    BY DEF IInv
  <1> QED
    BY <1>1, AlwaysInv, PTL

(* AddSession and RemoveSession: a connected, authenticated player is out of
   reach only when another connection authenticated as it, which is still
   registered or was removed since.                                        *)
THEOREM SessionsUnreachableOnlyByDuplicate == Spec => []UnreachableOnlyByDuplicate
  <1>1. IInv => UnreachableOnlyByDuplicate
    BY DEF IInv
  <1> QED
    BY <1>1, AlwaysInv, PTL
=============================================================================
