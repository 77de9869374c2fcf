SPECIFICATION PageSpec
CONSTANTS
    NULL = NULL
    london = london
    sydney = sydney
    spot = spot
    i1 = i1
    i2 = i2
    Invocations = {i1, i2}
    Trades = {london, sydney}
    Observations <- Sent
    trade_of <- TradeOf
    N = 2
    portfolio_of <- PortfolioOf
    TradeBreaks <- Families
    breaks_of <- Table
    Loads <- Demo
    MaxSecond = 1
    product_of <- ProductOf
    family_of <- FamilyOf
    PageLimit = 2
SYMMETRY Interchangeable
INVARIANTS
    TypeOK
    Consistent
    NoConflictOverlooked
    OnlyKilledRunsAreHalf
    ReportedTradesAreStored
    PageTypeOK
    SummaryNeverOverstates
    EveryLinkOpens
PROPERTIES
    ImplementsLedger
CHECK_DEADLOCK FALSE
