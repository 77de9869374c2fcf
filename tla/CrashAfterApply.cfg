SPECIFICATION FairSpec
CONSTANTS
    NULL = NULL
    Values = {1, 2}
    Trades = {t1}
    CaseIds = {c1}
    Identities = {alice, bob}
    Workers = {w1}
    Secrets = {s1}
    Amends <- Forward
    RowCap = 1
    MaxRevisions = 0
    MaxCrashes = 1
    ClockAdvances = FALSE
PROPERTIES
    AppliedIsEvidenced
