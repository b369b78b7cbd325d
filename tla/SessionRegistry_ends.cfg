\* One client and one command line, one session, with the end of the daemon.
CONSTANTS
    g1 = g1  g2 = g2  k1 = k1  sA = sA  sB = sB
    Gui = {g1}
    Cli = {k1}
    Session = {sA}
    Control = Control
    NoSession = NoSession
    NoPane = NoPane
    NoClient = NoClient
    Template = {}
    Linger = TRUE
    MayQuit = TRUE
    MaxRestore = 1
    MaxPane = 2
SPECIFICATION FairSpec
PROPERTIES EmptySessionGone QuitEnds
CHECK_DEADLOCK FALSE
