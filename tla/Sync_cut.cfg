\* One file to send, and the connection cut, or the receiver failing, on the way.
CONSTANTS
    x = x
    y = y
    z = z
    d = d
    e = e
    top = top
    None = None
    Link = Link
    Zero = 0
    Files = {x, y, z}
    Dirs = {d, e}
    Top = top
    In <- Flat
    Copies <- OneFile
    Starts <- Fresh
    Window = 2
    PipeDepth = 2
    ReplyDepth = 3
    Gather = 1
SPECIFICATION FairSpec
CHECK_DEADLOCK FALSE
PROPERTIES SenderEnds
