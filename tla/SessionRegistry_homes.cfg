\* Two attached clients and one command line, two sessions, templates.
CONSTANTS
    g1 = g1  g2 = g2  k1 = k1  sA = sA  sB = sB
    Gui = {g1, g2}
    Cli = {k1}
    Session = {sA, sB}
    Control = Control
    NoSession = NoSession
    NoPane = NoPane
    NoClient = NoClient
    Template = {sA, sB}
    Linger = TRUE
    MayQuit = FALSE
    MaxRestore = 1
    MaxPane = 2
SPECIFICATION Spec
INVARIANTS TypeOK LiveHome WaitsAgree
PROPERTIES LastSessionOnly
SYMMETRY NamesAndGuis
CHECK_DEADLOCK FALSE
