SPECIFICATION QuerySpec
CONSTANTS
    ts = ts
    a = a
    b = b
    Nil = Nil
    Keys = {1, 2}
    Names = {ts, a, b}
    IndexCol = ts
    TypeOf <- Types
    Half = 4
    Puts <- Rows
    Queries <- Mixed
    MaxWrites = 4
INVARIANTS AnswersAreRight NothingIsMissed
CHECK_DEADLOCK FALSE
