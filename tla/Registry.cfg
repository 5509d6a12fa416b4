\* Three attaches of two peers with room for two sessions, with the list changing.
CONSTANTS
    p1 = p1
    p2 = p2
    k1 = k1
    k2 = k2
    k3 = k3
    None = None
    Peers = {p1, p2}
    Calls = {k1, k2, k3}
    CallPeer <- Peers3
    MayPick <- Picks3
    MaxNumber = 3
    MaxSessions = 2
    MaxPublish = 1
    ControlQueue = 1
    RequestQueue = 2
    AttachTries = 2
SPECIFICATION Spec
CHECK_DEADLOCK FALSE
INVARIANTS TypeOK OwnSessionOnly NamedGetsItself RevokedHasNone CapKept
