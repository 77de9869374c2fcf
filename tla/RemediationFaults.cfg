SPECIFICATION Spec
CONSTANTS
    NULL = NULL
    Values = {1, 2}
    Trades = {t1}
    CaseIds = {c1}
    Identities = {alice, bob}
    Workers = {w1, w2}
    Secrets = {s1, s2}
    Amends <- Forward
    RowCap = 1
    MaxRevisions = 2
    MaxCrashes = 1
    ClockAdvances = TRUE
SYMMETRY Interchangeable
INVARIANTS
    FourEyes
    ApprovedValueOnly
    EvidenceShowsTheCorrection
    IInv
PROPERTIES
    EveryWriteIsApproved
