SPECIFICATION Spec
CONSTANTS
    Procs = {p1, p2}
    Names = {n}
    Keys = {1}
    MaxId = 2
    None = None
    AssumeNew = FALSE
    DropFails = TRUE
    CanCrash = TRUE
INVARIANTS RetiredStayEmpty MapMatchesRecords NoUseAfterClose NoCircularWait
PROPERTY FreshSetIsEmpty
