SPECIFICATION Spec
CONSTANTS
    SessionIds = {s1, s2}
    HealthAttempts = 1
SYMMETRY Symmetry
INVARIANTS
    CreateTransactional
