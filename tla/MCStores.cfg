\* Lists: one item, two lists, two requests, two loads.  Search index: every driver,
\* two items written twice, one crash, columns whose texts mention each other.
\* Vectors: three owners in batches of two, two runs and one failure; more ids than a
\* sparse vector holds, with equal and zero weights.  Redis: three documents, pages of
\* two, one added meanwhile.  Paging: five rows, pages of two, two writes between
\* them.  Backup: two users and an item, batches of two, one write meanwhile.  The
\* constants of the instances are in MCStores.
CONSTANTS
    ItemIds = {1}
    Categories = {"x"}
    Lists = {a, b}
    Writers = {v, w}
    HeapSize = 1
    MaxLoads = 2
    MaxWrites = 2
    IndexDrivers = {"sqlite", "mysql", "postgres", "mongo"}
    IndexedIds = {1, 2}
    Columns = {"comment", "label", "Label", "odd"}
    OddColumns = {"odd"}
    Folded <- LowerCase
    Mentions <- Texts
    MaxVersion = 2
    MaxCrashes = 1
    Owners = {1, 2, 3}
    Dims = {1, 2}
    Quantizations = {"q4"}
    BatchSize = 2
    MaxRuns = 2
    MaxFaults = 1
    Tags = {1, 2, 3}
    Users = {1}
    Weights = {0, 1, 2}
    MaxNNZ = 2
    MaxIds = 4
    NKeys = 3
    Limit = 2
    MaxAdds = 1
    NRows = 5
    PageSize = 2
    Future = {3}
    MaxRowWrites = 2
    BackupUsers = {1, 2}
    BackupItems = {1}
    Now = 1
    RestoreBatch = 2
    MaxInserts = 1
\* The calls of a component are bounded, so every behaviour may stop.
CHECK_DEADLOCK FALSE
SPECIFICATION MCSpec
SYMMETRY Alike
INVARIANTS
    CacheStoresAgree
    RedisPassesNoneOver
    DataStoresAgree
    PagesCoverOnce
    SearchIsCurrent
    ShownIsVisible
    VectorStoresAgree
    NeighboursAreWritten
PROPERTY
    BackupIsComplete
