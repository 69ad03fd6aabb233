SPECIFICATION FairSpec
CONSTANTS
    Attempts = {a1, a2, a3}
    Prints = {p1, p2}
    NoRow = NoRow
INVARIANTS
    ReplaysAreFaithful
    OneEffectWhileRemembered
PROPERTIES
    PendingIsResolved
    KeyedSpec
CHECK_DEADLOCK FALSE
