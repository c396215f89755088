\* One transaction, and the data that it refreshes.
CONSTANTS
    Txs = {t1}
    CONFIRMATION_THRESHOLD = 2
    MaxBlock = 3
SPECIFICATION FairClient
CHECK_DEADLOCK FALSE
PROPERTIES
    StatusIsEarned
    StaleLoadNotShown
    FollowedIsSettled
    ConfirmedIsRead
    RootIsAdopted
