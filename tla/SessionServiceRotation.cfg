SPECIFICATION Spec
CONSTANTS
    Tenants = {t1}
    SessionIds = {s1}
    Credentials = {c1, c2, c3}
    Requests = {r1, r2}
    None = None
    MaximumSessionsPerTenant = 1
    Quota <- MCQuota
    HostCapacity <- MCHostCapacity
SYMMETRY Symmetry
INVARIANTS
    SingleOutstandingCredential
CHECK_DEADLOCK FALSE
