SPECIFICATION FairSpec
CONSTANTS
    f1 = f1
    f2 = f2
    a = a
    b = b
    x = x
    y = y
    LabelCol = lc
    None = None
    Files = {f1, f2}
    ClusterOf <- MCClusterOf
    Lines <- MCLines
    Interval = interval
    Final = final
    AtClose = close
    InFlight = 1
    Modes <- AllModes
CHECK_DEADLOCK FALSE
INVARIANTS IndexesKeepTheirLabel AnswersNameTheRightLabel
PROPERTY CacheCatchesUp
