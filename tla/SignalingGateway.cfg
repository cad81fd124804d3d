SPECIFICATION FairSpec
CONSTANTS
    Clients = {k1, k2}
    SessionIds = {s1, s2}
    None = None
    MaxFrames = 1
INVARIANTS
    RegistryIsExact
    RelayOnlyWhileLive
PROPERTIES
    NoRevival
    FollowsAuthority
    RelaysEnd
\* Clients do not reconnect: when all are closed nothing is left to happen.
CHECK_DEADLOCK FALSE
