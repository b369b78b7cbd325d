\* Three keys on a row of four columns, at a prompt that may go silent.
CONSTANTS
    x = x  y = y
    Cols = 4
    Letter = {x}
    Control = {"back", "enter", "left"}
    Mode = {"plain", "paste", "password"}
    Habit = {"edit", "ignore", "bell"}
    Display = "adaptive"
    MaxKeys = 3
    ChanCap = 1
    Blank = Blank  Prompt = Prompt  NoRow = NoRow  None = None  NoOverlay = NoOverlay  Off = Off
SPECIFICATION FairSpec
INVARIANTS TypeOK JudgedAtOnce NoBlindEcho
PROPERTIES LaterKept Converges
CHECK_DEADLOCK FALSE
