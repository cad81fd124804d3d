SPECIFICATION Spec
CONSTANTS
    Installers = {i1, i2}
INVARIANTS ReportsAreTrue NothingIsLost
