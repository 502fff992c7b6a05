\* A data set that is never empty, without the three failures that break the
\* promise: an unreadable meta store, a ctr id that is not stored, a blob that
\* is silently truncated.
CONSTANTS
    MaxId = 6
    Counts = {1, 2}
    Faults = {"collection", "index", "create", "marshal", "cfPut", "stats",
              "list", "remove", "drop", "load", "crash"}
    MaxFaults = 2
SPECIFICATION FairSpec
PROPERTIES
    ImplementsRegistry
    CFRetried
