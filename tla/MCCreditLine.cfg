\* One credit line, drawn, paid, migrated and assessed in every order.
CONSTANTS
    INTEREST_DECIMALS = 2
    SECONDS_PER_YEAR = 4
    LatenessGracePeriod = 1
    Terms <- MCTerms
    Amounts = {1, 3}
    Limits = {1, 3}
    StartTime = 10
    MaxTime = 20
    MaxUsdc = 4
    MaxPrincipalOwed = 3
SPECIFICATION Spec
CHECK_DEADLOCK FALSE
INVARIANTS
    TypeOK
    PaymentSchedule
    NothingAheadOfTime
    PaidUpIsNotLate
    WholePeriodsAssessed
PROPERTIES
    AccrualNeverRewinds
    ImplementsLoan
