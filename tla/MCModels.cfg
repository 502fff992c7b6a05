\* Three workers and a server, a time-out of two, one failure; two handlers, room for
\* one user and one item; three items in two groups, feedback that arrives late and a
\* stream that breaks.  The constants of the other components are in MCModels.
CONSTANTS
    Workers = {"a", "b", "c"}
    Servers = {"s"}
    RingUsers = {"u", "v"}
    Place <- Positions
    TicksPerSecond = 2
    Timeout = 2
    Jitter = 1
    MaxTime = 11
    MaxFaults = 1
    UserIds = {1, 2, 3}
    ItemIds = {1}
    Handlers = {1, 2}
    MaxUsers = 1
    MaxItems = 1
    MaxBatch = 1
    Estimates = {0, 2}
    MaxWrites = 3
    NItems = 3
    NumJobs = 2
    Known = {1, 2}
    Store <- Feedbacks
    MaxLate = 1
    MayBreak = TRUE
    Catalogue = {1, 2, 3}
    InCategory = {1, 2}
    Sim <- Similarity
    Peers <- Neighbours
    Options <- Settings
    Lists <- CachedLists
    CacheSize = 2
    ContextSize = 1
    States <- ItemStates
    Histories <- FirstFeedback
    Ns = {0, 2}
    Offsets = {0, 1}
    MaxEvents = 2
\* Every component is bounded, so every behaviour may stop.
CHECK_DEADLOCK FALSE
SPECIFICATION MCSpec
INVARIANTS
    DatasetIsComplete
    TrainingIsExact
    ModelArrivesWhole
    EvaluationIsSound
    ServedOnce
    WalkIsComplete
    QuotaBounds
    ProgressIsTrue
    EveryUserIsVisited
PROPERTIES
    ConfigurationIsSound
