\* One slice with a deposit in each tranche, drawn, late and repaid, while runs of
\* both autotasks read and act in between.
CONSTANTS
    INTEREST_DECIMALS = 1
    SECONDS_PER_YEAR = 1
    LatenessGracePeriod = 1
    Terms <- KeptTerms
    Amounts = {4}
    Limits <- AllLimits
    StartTime = 10
    MaxTime = 12
    MaxUsdc = 4
    MaxPrincipalOwed = 5
    FP_SCALING_FACTOR = 100
    ReserveFeePercent = 25
    JuniorFeePercent = 25
    MaxTokens = 2
    DrawdownPeriod = 0
    DepositAmounts = {2}
    DrawAmounts = {4}
    Donations = {}
    InitialMaxLimit = 4
    AdminLimits = {}
    PauseValues = {}
    FundableTimes = {0}
    MaxSlices = 1
    MaxAssessments = 1
SPECIFICATION FairKeepers
CHECK_DEADLOCK FALSE
PROPERTIES
    InvestmentStays
    DueIsAssessed
    SeniorIsRedeemed
