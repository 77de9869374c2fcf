SPECIFICATION Spec
CONSTANTS
    NULL = NULL
    Values = {1, 2}
    Trades = {t1}
    CaseIds = {c1, c2}
    Identities = {alice, bob}
    Workers = {w1}
    Secrets = {s1}
    Amends <- BackAndForth
    RowCap = 1
    MaxRevisions = 0
    MaxCrashes = 0
    ClockAdvances = FALSE
SYMMETRY Interchangeable
INVARIANTS
    OneAppliedRow
