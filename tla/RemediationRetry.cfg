SPECIFICATION FairSpec
CONSTANTS
    NULL = NULL
    Values = {1, 2}
    Trades = {t1}
    CaseIds = {c1}
    Identities = {alice, bob}
    Workers = {w1, w2}
    Secrets = {s1}
    Amends <- Forward
    RowCap = 0
    MaxRevisions = 2
    MaxCrashes = 1
    ClockAdvances = TRUE
PROPERTIES
    ApprovedCaseSettles
    EvidencedUnlessStopped
