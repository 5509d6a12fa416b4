\* The end, the output and the modes reach clients that come and go; a session left goes.
CONSTANTS
    c1 = c1
    None = None
    Clients = {c1}
    MaxAttach = 2
    MaxSeq = 0
    MaxOut = 1
    InputQueue = 1
    AskQueue = 1
    ControlQueue = 1
    EchoPending = 1
    PtyRoom = 1
    TtyRoom = 1
    ChunksAtOnce = 0
    SettleReads = 1
    EchoModes = {TRUE, FALSE}
    Extras = {}
SPECIFICATION FairSpec
PROPERTIES ToldInTheEnd
