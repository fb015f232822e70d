SPECIFICATION FairSpec
CONSTANTS
    Workers = {"v", "w"}
    s1 = s1
    s2 = s2
    Shards = {s1, s2}
    Routes <- MCRoutes
    Sets = {"a", "b"}
    Keys = {"k", "l"}
    Cols = {"x", "y"}
    int = int
    str = str
    bool = bool
    None = None
    Types = {int, str, bool}
    Ids = {1, 2, 3, 4, 5}
    Row <- MCRow
    Load <- MCLoad
    Widens <- MCWidens
    Parses <- MCParses
    FlushSize = 2
    ChanCap = 1
    MaxRetries = 3
    StoreFails = TRUE
INVARIANTS RowsAccounted LastSubmittedWins RetriesSuffice
PROPERTY RowsArrive
CHECK_DEADLOCK FALSE
