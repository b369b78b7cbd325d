\* A history of two rows that rotates, a client that keeps two, a channel of one.
CONSTANTS
    HistoryCap = 2
    ClientCap = 2
    ChanCap = 1
    MaxRows = 3
    MaySwitch = TRUE
    NoFrame = NoFrame
SPECIFICATION FairSpec
INVARIANTS TypeOK Mirror
PROPERTIES CatchesUp
CHECK_DEADLOCK FALSE
