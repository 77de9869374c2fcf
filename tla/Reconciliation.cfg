SPECIFICATION Spec
CONSTANTS
    NULL = NULL
    t = 1
    u = 2
    spot = spot
    forward = forward
    Trades = {1, 2, 3, 4, 5, 6, 7, 8, 9}
    Products = {spot, forward}
    window_seconds <- OneSecond
    tolerance <- Cents
    effective_from = 1
    effective_to = 3
    Feed <- Everything
    CorrectionIds = {44}
    CorrectionTimes = {2, 3}
    Bounds <- FourFeeds
    MaxWait = 1
    VerificationModes <- Modes
INVARIANTS
    TypeOK
    OracleAgrees
    OnlyKnownFailures
PROPERTIES
    CorrectionOnlyMends
    AuthorityNeverRegresses
