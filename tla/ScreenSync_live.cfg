\* One client that may stop reading, synchronized output and a held cursor.
CONSTANTS
    c1 = c1  c2 = c2  sA = sA  sB = sB  pA = pA  pB = pB  r1 = r1  r2 = r2
    Client = {c1}
    Session = {sA}
    Pane = {pA}
    Row = {r1}
    SessionOf <- OneSession
    NoSession = NoSession
    Target = {}
    AltScreen = {}
    SyncPane = {pA}
    QueueCap = 2
    MaxFailures = 2
    MaxVersion <- Three
SPECIFICATION FairSpec
INVARIANTS TypeOK Accounted IInv
PROPERTIES OutputSnapshot FullSyncRetried
CHECK_DEADLOCK FALSE
