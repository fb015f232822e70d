SPECIFICATION FairSpec
CONSTANTS
    Procs = {p1, p2}
    Keys = {1, 3}
    Times = {1, 2}
    va = va
    vb = vb
    Payloads = {va, vb}
    Requests <- MCRequests
    StripeOf <- MCStripeOf
    NoTime = NoTime
    None = None
    Keep = Keep
    Ok = Ok
    Err = Err
    Pending = Pending
    CanCrash = TRUE
INVARIANTS TypeOK IndexMatchesData PointersResolve RowInv
PROPERTIES AtomicCalls CallsReturn
CHECK_DEADLOCK FALSE
