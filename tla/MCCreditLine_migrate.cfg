\* A migration to a shorter payment period.
CONSTANTS
    INTEREST_DECIMALS = 2
    SECONDS_PER_YEAR = 4
    LatenessGracePeriod = 1
    Terms <- PeriodTerms
    Amounts = {1, 3}
    Limits = {1, 3}
    StartTime = 20
    MaxTime = 36
    MaxUsdc = 4
    MaxPrincipalOwed = 3
SPECIFICATION Spec
CHECK_DEADLOCK FALSE
INVARIANTS
    InterestAccruedInPast
