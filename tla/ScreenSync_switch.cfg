\* One client that switches between two sessions.
CONSTANTS
    c1 = c1  c2 = c2  sA = sA  sB = sB  pA = pA  pB = pB  r1 = r1  r2 = r2
    Client = {c1}
    Session = {sA, sB}
    Pane = {pA, pB}
    Row = {r1}
    SessionOf <- MCSessionOf
    NoSession = NoSession
    Target = {sA, sB}
    AltScreen = {pA, pB}
    SyncPane = {}
    QueueCap = 2
    MaxFailures = 2
    MaxVersion <- TwoAndNone
SPECIFICATION Spec
INVARIANTS SettledMirror
PROPERTIES PushedToCurrentSession
CHECK_DEADLOCK FALSE
