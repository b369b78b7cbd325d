\* Three panes at a time, restarts of the daemon, programs that cannot be started.
CONSTANTS
    p1 = p1  p2 = p2  p3 = p3
    Pane = {p1, p2, p3}
    NoFile = NoFile
SPECIFICATION Spec
INVARIANT NoPanic

SYMMETRY Panes
CHECK_DEADLOCK FALSE
