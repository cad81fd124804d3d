SPECIFICATION Spec
CONSTANTS
    Sessions = {s1, s2}
    Ids = {t1, t2, t3, t4, t5}
    MaximumTabs = 3
    None = None
SYMMETRY Symmetry
CHECK_DEADLOCK TRUE
INVARIANTS ListsAreAccepted AdaptersAgree
PROPERTIES AnswersAreTrue OnlyOwnTabs
