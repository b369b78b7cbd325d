\* A history of one row that rotates, a client that keeps two, a channel of two.
CONSTANTS
    HistoryCap = 1
    ClientCap = 2
    ChanCap = 2
    MaxRows = 3
    MaySwitch = FALSE
    NoFrame = NoFrame
SPECIFICATION Spec
INVARIANT NoRowTwice

CHECK_DEADLOCK FALSE
