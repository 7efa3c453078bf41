CONSTANTS
    Exec = {e1, e2, e3}
    MaxDeaths = 1
SPECIFICATION FairSpec
CHECK_DEADLOCK FALSE
INVARIANTS TypeOK MinerHasAlerting IdleIsScaledDown
PROPERTY MinerIsReached
