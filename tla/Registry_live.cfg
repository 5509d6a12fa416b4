\* Three attaches of a peer that may be dropped from the list, and a shutdown.
CONSTANTS
    p1 = p1
    p2 = p2
    k1 = k1
    k2 = k2
    k3 = k3
    None = None
    Peers = {p1}
    Calls = {k1, k2, k3}
    CallPeer <- PeersOne
    MayPick <- PicksOne
    MaxNumber = 3
    MaxSessions = 2
    MaxPublish = 1
    ControlQueue = 1
    RequestQueue = 2
    AttachTries = 2
SPECIFICATION FairSpec
CHECK_DEADLOCK FALSE
PROPERTIES NothingLeftUndone
