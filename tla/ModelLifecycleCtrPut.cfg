\* The meta of the ctr model cannot be written, then the process dies.
CONSTANTS
    MaxId = 4
    Counts = {1, 2}
    Faults = {"ctrPut", "crash"}
    MaxFaults = 2
SPECIFICATION Spec
INVARIANT
    AdvertisedCTR
