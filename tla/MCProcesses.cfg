\* Four jobs on two slots and one detached; four jobs, two workers and a channel of
\* one; two versions of two pieces, two readers and a failure; five epochs of two
\* batches; two items, room for one, and one change of an item.
\* Every component is bounded, so every behaviour may stop.
CHECK_DEADLOCK FALSE
CONSTANTS
    NJobs = 4
    NWorkers = 2
    NMaxDetached = 1
    nJobs = 4
    MaxWorkers = 2
    ChanSize = 1
    NPieces = 2
    MaxVersion = 2
    MaxReads = 2
    MaxFaults = 1
    Users = {1, 2}
    Items = {1, 2}
    NEpochs = 5
    MaxPatience = 2
    MaxVerbose = 2
    MaxScore = 1
    NThreads = 2
    NBatches = 2
    ItemIds = {1, 2}
    Nearest <- NearestItems
    CacheSize = 1
    Logits <- Outputs
    MaxChanges = 1
SPECIFICATION MCSpec
INVARIANTS
    TokensOwned
    ReturnIsComplete
    NilMeansAllRan
    ReadIsWhole
    FitKeepsBest
    RankedAsAnswered
PROPERTIES
    CallsEnd
    WorkEnds
