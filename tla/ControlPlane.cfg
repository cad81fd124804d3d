SPECIFICATION Spec
CONSTANTS
    Processes = {p1, p2}
    Instances = {i1, i2}
    MaxContainers = 1
    MaxFiles = 2
    MaxChanges = 1
    None = None
SYMMETRY Symmetry
INVARIANTS ListensSafely ContainersAreConfined
PROPERTY OnlyOwnLeftovers
