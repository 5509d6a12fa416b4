\* Keys of one client over two attaches, with the PTY's queues full and its writer stopping.
CONSTANTS
    c1 = c1
    None = None
    Clients = {c1}
    MaxAttach = 2
    MaxSeq = 2
    MaxOut = 0
    InputQueue = 1
    AskQueue = 1
    ControlQueue = 1
    EchoPending = 1
    PtyRoom = 1
    TtyRoom = 1
    ChunksAtOnce = 0
    SettleReads = 1
    EchoModes = {TRUE}
    Extras = {"colours"}
SPECIFICATION Spec
INVARIANTS TypeOK KeysAreTrue ClaimsButLost
PROPERTIES KeptWhileAttached
