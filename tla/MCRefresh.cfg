\* One request at a time, feedback may be withdrawn, SQL store.
CONSTANTS
    Items = {i1, i2}
    Positive = {i1}
    Requests = {r1}
    CacheExpire = 2
    RankerExpire = 1
    ActiveUserTTL = 2
    EmptyFails = TRUE
    Withdrawals = TRUE
    MaxTime = 3
    MaxConfig = 2
    MaxFailures = 1
CHECK_DEADLOCK FALSE
SPECIFICATION MCSpec
INVARIANT
    FreshMeansSeen
PROPERTY FeedbackLeaves
