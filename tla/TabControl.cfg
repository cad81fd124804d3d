SPECIFICATION FairSpec
CONSTANTS
    Callers = {c1, c2}
    TabIds = {t1, t2, t3}
    Numbers = {n1, n2}
    None = None
    InitialTab = t1
    MaximumTabs = 2
INVARIANTS
    TabsAreSound
PROPERTIES
    SuccessIsReal
    OperationsEnd
    ShutdownCompletes
\* After a shutdown nothing is left to happen.
CHECK_DEADLOCK FALSE
