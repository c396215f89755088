\* A pool of two slices, and a block of events at a time.
CONSTANTS
    INTEREST_DECIMALS = 1
    SECONDS_PER_YEAR = 1
    LatenessGracePeriod = 1
    Terms <- PoolTerms
    Amounts = {2, 4}
    Limits <- AllLimits
    StartTime = 10
    MaxTime = 11
    MaxUsdc = 4
    MaxPrincipalOwed = 4
    FP_SCALING_FACTOR = 100
    ReserveFeePercent = 25
    JuniorFeePercent = 25
    MaxTokens = 2
    DrawdownPeriod = 0
    DepositAmounts = {2}
    DrawAmounts = {2}
    Donations = {}
    InitialMaxLimit = 4
    AdminLimits = {}
    PauseValues = {}
    FundableTimes = {0}
    MaxSlices = 2
    Backers = {b1, b2}
    SeniorFund = SeniorFund
    Nobody = Nobody
    SelfTransfers = FALSE
    NonFatalErrors = TRUE
    MaxBlockTxs = 2
SYMMETRY Symmetric
SPECIFICATION SubgraphSpec
CHECK_DEADLOCK FALSE
INVARIANTS
    TokensMirrored
    LoanAddsUp
    LockedPoolMirrored
PROPERTIES
    BackersWithdrawn
