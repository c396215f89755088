\* A slice is locked before anything is deposited.
CONSTANTS
    INTEREST_DECIMALS = 1
    SECONDS_PER_YEAR = 1
    LatenessGracePeriod = 1
    Terms <- PoolTerms
    Amounts = {2, 5}
    Limits <- AllLimits
    StartTime = 10
    MaxTime = 12
    MaxUsdc = 5
    MaxPrincipalOwed = 5
    FP_SCALING_FACTOR = 100
    ReserveFeePercent = 25
    JuniorFeePercent = 25
    MaxTokens = 2
    DrawdownPeriod = 1
    DepositAmounts = {1, 2}
    DrawAmounts = {2}
    Donations = {}
    InitialMaxLimit = 4
    AdminLimits = {}
    PauseValues = {}
    FundableTimes = {0}
    MaxSlices = 1
SPECIFICATION PoolSpec
CHECK_DEADLOCK FALSE
INVARIANTS
    LockedSlicesFunded
