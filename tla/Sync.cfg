\* A tree of two files, with what any earlier copy may have left, every option, and a fault.
CONSTANTS
    x = x
    y = y
    z = z
    d = d
    e = e
    top = top
    None = None
    Link = Link
    Zero = 0
    Files = {x, y, z}
    Dirs = {d, e}
    Top = top
    In <- Tree
    Copies <- Trees
    Starts <- Leftovers
    Window = 2
    PipeDepth = 3
    ReplyDepth = 3
    Gather = 2
SPECIFICATION FairSpec
CHECK_DEADLOCK FALSE
INVARIANTS WholeFiles
PROPERTIES CopyIsTrue
