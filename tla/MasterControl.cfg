\* Requests and edits are bounded and the master may stop.
CHECK_DEADLOCK FALSE
CONSTANTS
    Requests = {1, 2}
    Versions = {1, 2}
    MaxChanges = 2
SPECIFICATION ControlSpec
INVARIANTS
    ClosedLast
    OverrideMatches
PROPERTY
    AcceptedIsDone
