SPECIFICATION FairSpec
CONSTANTS
    LastCall = 2
    Limit = 1
    Readers = {periodic, oneShot}
    MaxKills = 1
INVARIANTS
    NothingLost
    OneActivityWhileRemembered
PROPERTIES
    EveryCallIsReported
CHECK_DEADLOCK FALSE
