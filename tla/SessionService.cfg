SPECIFICATION FairSpec
CONSTANTS
    Tenants = {t1}
    SessionIds = {s1}
    Credentials = {c1, c2}
    Requests = {r1, r2, r3}
    None = None
    MaximumSessionsPerTenant = 1
    Quota <- MCQuota
    HostCapacity <- MCHostCapacity
INVARIANTS
    CredentialsRevocable
    RelaysOnlyWhileActive
PROPERTIES
    PhasesFollowCalls
    ImplementsAuthority
    CallsSettle
CHECK_DEADLOCK FALSE
