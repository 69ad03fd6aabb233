SPECIFICATION FairSpec
CONSTANTS
    Events = {e1, e2}
    MaxAttempts = 2
INVARIANTS
    OneChain
    NoRetryForgotten
PROPERTIES
    ChainsEnd
    DeliverySpec
CHECK_DEADLOCK FALSE
