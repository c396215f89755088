\* The late end of an older load leaves the page behind the current block.
CONSTANTS
    Txs = {t1}
    CONFIRMATION_THRESHOLD = 2
    MaxBlock = 3
SPECIFICATION FairClient
CHECK_DEADLOCK FALSE
PROPERTIES
    CascadeReachesLeaf
