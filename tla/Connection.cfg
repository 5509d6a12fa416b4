\* A connection that lags, is redrawn, and sees the program's end, with a control queue that holds
\* fewer reports than a budget takes.
CONSTANTS
    Garbled = Garbled
    MaxOut = 3
    MaxEpoch = 2
    Events = 1
    Budget = 2
    ReaderQueue = 1
    ControlQueue = 1
SPECIFICATION FairSpec
INVARIANTS AccountIsTrue
PROPERTIES ShowsAsPromised NeitherWaitsOn
