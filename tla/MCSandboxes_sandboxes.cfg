\* A goroutine that calls anything, one that retries Kill, on one sandbox and one snapshot.
CONSTANTS
    c1 = c1
    k1 = k1
    s1 = s1
    p1 = p1
    Callers <- MCCallers
    Keepers <- MCKeepers
    Boxes <- MCBoxes
    Snapshots <- MCSnapshots
    Refusals = {500}
    MaxLate = 1
SPECIFICATION FairSpec
INVARIANTS
    AnswersAreTrue
    RemovedOnce
PROPERTIES
    RetriedKillEnds
