SPECIFICATION Spec
CONSTANTS
    Callers = {c1, c2}
    TabIds = {t1, t2, t3}
    Numbers = {n1, n2}
    None = None
    InitialTab = t1
    MaximumTabs = 2
PROPERTIES
    ActivationSelects
\* After a shutdown nothing is left to happen.
CHECK_DEADLOCK FALSE
