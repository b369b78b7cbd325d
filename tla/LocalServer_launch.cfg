\* Two clients that start and lose daemons.
CONSTANTS
    c1 = c1  c2 = c2  d1 = d1  d2 = d2  d3 = d3
    Client = {c1, c2}
    Server = {d1, d2}
    Legacy = Legacy
    Nobody = Nobody
    MaxAttempts = 1
    MaxEvents = 2
SPECIFICATION FairSpec
INVARIANTS TypeOK OneServer LegacyKept
PROPERTIES Settles
CHECK_DEADLOCK FALSE
