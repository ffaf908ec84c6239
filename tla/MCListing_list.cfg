\* Four items, of which the filter selects three; two changes, and one restart.
CONSTANTS
    MaxId = 4
    Chosen = {1, 3, 4}
    MaxChanges = 2
    MaxRestarts = 1
SPECIFICATION FairSpec
INVARIANTS
    ListedOnce
    NothingSkipped
PROPERTIES
    ListAllReturns
\* A listing that has ended stops.
CHECK_DEADLOCK FALSE
