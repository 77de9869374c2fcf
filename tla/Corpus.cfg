SPECIFICATION CorpusSpec
CONSTANTS
    NULL = NULL
    trade = trade
    alternate = alternate
    Trades = {trade, alternate}
    Products = {"FX_SPOT", "FX_FORWARD"}
    window_seconds <- FixtureWindows
    tolerance <- FixtureTolerances
    effective_from = 0
    effective_to = NULL
    Feed <- Everything
    CorrectionIds = {98, 99}
    CorrectionTimes = {999}
    Bounds = {}
    MaxWait = 0
    VerificationModes = {}
INVARIANTS
    TypeOK
    GeneratedIsValid
    CorpusIsDetected
    RerunSeesTheSame
    ProvenanceIsComplete
PROPERTIES
    ReloadChangesNothing
