SPECIFICATION HostFairSpec
CONSTANTS
    Files = {f1}
    CfFiles = {c1}
    Ahead = 1
    Modes <- AllModes
CHECK_DEADLOCK FALSE
INVARIANT OnlyExcusedRowsLost
PROPERTY RowsArrive
