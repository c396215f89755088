\* Two slices, repaid in parts that do not divide and drawn again to the last unit.
CONSTANTS
    INTEREST_DECIMALS = 1
    SECONDS_PER_YEAR = 1
    LatenessGracePeriod = 1
    Terms <- LongTerms
    Amounts = {1, 3}
    Limits <- AllLimits
    StartTime = 10
    MaxTime = 13
    MaxUsdc = 4
    MaxPrincipalOwed = 5
    FP_SCALING_FACTOR = 100
    ReserveFeePercent = 50
    JuniorFeePercent = 25
    MaxTokens = 2
    DrawdownPeriod = 0
    DepositAmounts = {2}
    DrawAmounts = {1}
    Donations = {}
    InitialMaxLimit = 4
    AdminLimits = {}
    PauseValues = {}
    FundableTimes = {0}
    MaxSlices = 2
SPECIFICATION PoolSpec
CHECK_DEADLOCK FALSE
INVARIANTS
    DeployedWithinDeposits
