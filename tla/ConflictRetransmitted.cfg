SPECIFICATION Spec
CONSTANTS
    NULL = NULL
    t = t
    u = u
    spot = spot
    forward = forward
    Trades = {t, u}
    Products = {spot, forward}
    window_seconds <- OneSecond
    tolerance <- Cents
    effective_from = 1
    effective_to = 3
    Feed <- Resent
    CorrectionIds = {44}
    CorrectionTimes = {2, 3}
    Bounds <- ResentOnly
    MaxWait = 0
    VerificationModes <- Modes
INVARIANTS
    ConflictsAreReported
