SPECIFICATION FairSpec
CONSTANTS
    a = a
    d = d
    p = p
    q = q
    Conns = {a, d}
    Players = {p, q}
    MayAuth <- TwoTokens
    NoPlayer = NoPlayer
    BadToken = BadToken
INVARIANTS TypeOK RegisteredIsLive UnreachableOnlyByDuplicate
PROPERTIES NoLingering
CHECK_DEADLOCK FALSE
