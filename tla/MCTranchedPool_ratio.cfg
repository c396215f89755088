\* Two slices, one without a senior tranche, repaid by half at the end of the term.
CONSTANTS
    INTEREST_DECIMALS = 1
    SECONDS_PER_YEAR = 10
    LatenessGracePeriod = 1
    Terms <- PoolTerms
    Amounts = {5, 6}
    Limits <- AllLimits
    StartTime = 10
    MaxTime = 12
    MaxUsdc = 6
    MaxPrincipalOwed = 12
    FP_SCALING_FACTOR = 100
    ReserveFeePercent = 25
    JuniorFeePercent = 25
    MaxTokens = 3
    DrawdownPeriod = 3
    DepositAmounts = {1, 5}
    DrawAmounts = {5, 6}
    Donations = {}
    InitialMaxLimit = 11
    AdminLimits = {}
    PauseValues = {}
    FundableTimes = {0}
    MaxSlices = 2
SPECIFICATION PoolSpec
CHECK_DEADLOCK FALSE
INVARIANTS
    SeniorFirstInEverySlice
