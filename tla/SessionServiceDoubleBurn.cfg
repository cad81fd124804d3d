SPECIFICATION Spec
CONSTANTS
    Tenants = {t1}
    SessionIds = {s1}
    Credentials = {c1, c2}
    Requests = {r1, r2}
    None = None
    MaximumSessionsPerTenant = 1
    Quota <- MCQuota
    HostCapacity <- MCHostCapacity
SYMMETRY Symmetry
INVARIANTS
    BurnedStaysGone
CHECK_DEADLOCK FALSE
