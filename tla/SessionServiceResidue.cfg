SPECIFICATION Spec
CONSTANTS
    Tenants = {t1, t2, t3}
    SessionIds = {s1, s2, s3}
    Credentials = {c1, c2}
    Requests = {r1, r2}
    None = None
    MaximumSessionsPerTenant = 1
    Quota <- MCQuota
    HostCapacity <- MCHostCapacity
SYMMETRY Symmetry
INVARIANTS
    HostWithinQuota
