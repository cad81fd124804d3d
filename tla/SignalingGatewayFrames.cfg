SPECIFICATION Spec
CONSTANTS
    Clients = {k1}
    SessionIds = {s1, s2}
    None = None
    MaxFrames = 2
SYMMETRY Symmetry
INVARIANTS
    RelayOnlyWhileLive
\* Clients do not reconnect: when all are closed nothing is left to happen.
CHECK_DEADLOCK FALSE
