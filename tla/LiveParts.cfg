SPECIFICATION Spec
CONSTANTS
    Sources = {{"c1", "c2"}, {"c3"}, {"c4"}}  Relayed = {"c4"}  MostPending = 3  MaxConnections = 1
    Keys = {"k", "l", "m"}  Given = {"m"}  MaxSaves = 3
    Programs = {"p", "q"}  Groups = {"q"}
    Streams = {"out", "err"}  Room = 1  MaxWritten = 1  MaxStdin = 1
    Activities = {"busy", "reading"}  Spacing = 2
    Statuses = {0, 124}
CHECK_DEADLOCK FALSE
INVARIANTS ReapsItsOwn MarksAreTrue ReportsSpaced CommandsExit StatusAfterOutput
PROPERTIES GateKeeps SaveLocksNoOneOut AllEnd
