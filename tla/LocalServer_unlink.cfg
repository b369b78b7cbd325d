\* Two clients that find the socket of a daemon that has crashed.
CONSTANTS
    c1 = c1  c2 = c2  d1 = d1  d2 = d2  d3 = d3
    Client = {c1, c2}
    Server = {d1, d2, d3}
    Legacy = Legacy
    Nobody = Nobody
    MaxAttempts = 2
    MaxEvents = 0
SPECIFICATION Spec
INVARIANTS LiveSocketKept
CHECK_DEADLOCK FALSE
