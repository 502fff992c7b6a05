\* Every failure but a meta store that cannot be read, and the ctr model's
\* meta that cannot be written.
CONSTANTS
    MaxId = 5
    Counts = {0, 1, 2}
    Faults = {"collection", "index", "create", "marshal", "write", "cfPut",
              "stats", "list", "remove", "drop", "load", "crash"}
    MaxFaults = 2
SPECIFICATION Spec
INVARIANTS
    TypeOK
    AdvertisedCF
    AdvertisedCTR
    CollectionsBounded
