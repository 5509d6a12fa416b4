SPECIFICATION Spec
CONSTANTS
    Cells = {"a", "b"}  StatusRow = {"b"}  Texts = {"x"}  Bare = "blank"
    MostQueued = 2  Messages = 2  ControlRoom = 1  Long = 3  LongestWait = 2
    MaxDone = 3  MaxReads = 1  MaxWindows = 1  MaxFails = 1
    Processes = {"p", "q", "r"}  Names = {"n", "m"}  Ids = {"i"}
CHECK_DEADLOCK FALSE
INVARIANTS LogIsRead ShownAsMirrored TypedGoesOn JudgesWhole GuessesAreSafe GlobIsExact CopyLandsWell RedrawIsExact KeyIsKept
PROPERTIES LinkKeepsOrder
