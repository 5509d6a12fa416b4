\* Output, the modes and the program's end, to two attachments that come, go and are redrawn.
CONSTANTS
    c1 = c1
    None = None
    Clients = {c1}
    MaxAttach = 2
    MaxSeq = 0
    MaxOut = 2
    InputQueue = 1
    AskQueue = 1
    ControlQueue = 1
    EchoPending = 1
    PtyRoom = 1
    TtyRoom = 1
    ChunksAtOnce = 0
    SettleReads = 1
    EchoModes = {TRUE, FALSE}
    Extras = {"redraw", "resize"}
SPECIFICATION Spec
INVARIANTS ShownExact HeldIsSettling EndReachesAll
PROPERTIES EndIsLast
