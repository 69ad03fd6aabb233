SPECIFICATION FairSpec
CONSTANTS
    Ids = {i1}
    Shares = {h1}
    NoShare = NoShare
    Requests = {r1, r2}
    Nobody = Nobody
    MaxPerUser = 1
INVARIANTS
    AppliedOnce
    ShareTellsTruth
PROPERTIES
    RepeatableSpec
    ConfirmsEnd
