SPECIFICATION Spec
CONSTANTS
    Procs = {p1, p2}
    Keys = {1}
    ts = ts
    a = a
    Names = {ts, a}
    MaxCol = 2
    Requests <- AllRequests
    FirstIndexed = ts
    PutModes = {TRUE, FALSE}
    CanCrash = TRUE
    None = None
    Ptr = Ptr
    Corrupt = Corrupt
    Ok = Ok
    Err = Err
    Pending = Pending
SYMMETRY MCSymmetry
INVARIANTS ValuesKeepTheirColumn RowsReadable
PROPERTY PutIsVisible
