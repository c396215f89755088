\* One loan, one provider's deposit and a second one's, and Compound.
CONSTANTS
    INTEREST_DECIMALS = 1
    SECONDS_PER_YEAR = 2
    LatenessGracePeriod = 0
    Terms <- SeniorTerms
    Amounts = {40}
    Limits <- AllLimits
    StartTime = 10
    MaxTime = 12
    MaxUsdc = 40
    MaxPrincipalOwed = 60
    FP_SCALING_FACTOR = 100
    ReserveFeePercent = 25
    JuniorFeePercent = 25
    MaxTokens = 2
    DrawdownPeriod = 0
    DepositAmounts = {20}
    DrawAmounts = {40}
    Donations = {}
    InitialMaxLimit = 60
    AdminLimits = {}
    PauseValues = {}
    FundableTimes = {0}
    MaxSlices = 1
    FIDU_MANTISSA = 1000
    USDC_MANTISSA = 10
    LeverageRatio = 2
    LatenessMaxDays = 4
    LPAmounts = {40}
    FiduAmounts = {2000}
    CompoundInterest = {16}
    CompoundRounding = 1
    KeptShares = 100
    MaxProviderCalls = 3
    MaxCompoundInterest = 16
SPECIFICATION SeniorSpec
CHECK_DEADLOCK FALSE
INVARIANTS
    SeniorPoolTypeOK
    SharesMatchAssets
    LoansMatchTokens
    TargetNotExceeded
PROPERTIES
    WorthFollowsAssets
