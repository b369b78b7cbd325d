\* The pane as a stream of output, with its liveness.
CONSTANTS
    p1 = p1  p2 = p2
    Pane = {p1}
    NoPane = NoPane
    TtyCap = 1
    ChanCap = 2
    InCap = 2
    MaxReply = 1
    MaxOut = 4
SPECIFICATION FairSpec
INVARIANTS TypeOK NoLostWakeup
PROPERTIES StreamImplemented
CHECK_DEADLOCK FALSE
