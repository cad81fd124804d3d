SPECIFICATION SupervisorFairSpec
CONSTANTS
    Connections = {k1, k2}
    None = None
INVARIANTS
    OneController
    RelayIsAuthenticated
    ExitCodeTells
    OnlyReadySessions
PROPERTIES
    ClosedIsFinal
    ConnectionsEnd
    FailsClosed
\* A container that has ended does nothing more.
CHECK_DEADLOCK FALSE
