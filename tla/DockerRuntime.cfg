SPECIFICATION FairSpec
CONSTANTS
    SessionIds = {s1, s2}
    HealthAttempts = 2
INVARIANTS
    RollbackComplete
    DestroyedLeavesNothing
PROPERTIES
    ListensClean
    JobsEnd
