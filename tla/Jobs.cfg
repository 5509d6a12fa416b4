\* Two starts of a peer, with room for one job, the list changing, and a shutdown.
CONSTANTS
    p1 = p1
    j1 = j1
    j2 = j2
    None = None
    full = full
    exec = exec
    build = build
    serve = serve
    Scopes = {full, exec}
    Peers = {p1}
    Starts = {j1, j2}
    StartPeer <- OnePeer
    Names = {build, serve}
    MaxJobs = 1
    SignalQueue = 1
    MaxPublish = 1
    MaxKill = 1
SPECIFICATION FairSpec
CHECK_DEADLOCK FALSE
INVARIANTS TableIsTrue
PROPERTIES RunsAsLongAsItMay
