\* Two slices of one loan, while the admin changes limits, migrates and shuts down.
CONSTANTS
    INTEREST_DECIMALS = 1
    SECONDS_PER_YEAR = 1
    LatenessGracePeriod = 1
    Terms <- PoolTerms
    Amounts = {1, 3}
    Limits <- AllLimits
    StartTime = 10
    MaxTime = 11
    MaxUsdc = 3
    MaxPrincipalOwed = 5
    FP_SCALING_FACTOR = 100
    ReserveFeePercent = 50
    JuniorFeePercent = 25
    MaxTokens = 2
    DrawdownPeriod = 0
    DepositAmounts = {2}
    DrawAmounts = {1}
    Donations = {1}
    InitialMaxLimit = 4
    AdminLimits = {2}
    PauseValues = {FALSE}
    FundableTimes = {0, 10}
    MaxSlices = 2
SPECIFICATION PoolSpec
CHECK_DEADLOCK FALSE
INVARIANTS
    DeploymentCoversLoan
    PaymentsApplied
PROPERTIES
    LockedOnce
