CONSTANTS
    MaxId = 2
    UseCTR = FALSE
    MaxFailures = 0
SPECIFICATION SyncSpec
INVARIANT
    PairInstalled
