\* More events than the channel holds, two calls of Stop, a reader that may leave.
CONSTANTS
    s1 = s1
    s2 = s2
    Stoppers <- MCStoppers
    Cap = 2
    MaxEvents = 4
    MayLeave = TRUE
SPECIFICATION FairSpec
INVARIANTS
    NoEventLost
    ErrIsFinalAtEnd
PROPERTIES
    StopIsFinal
    StopReturns
\* The watch stops when its stream has ended and its calls have returned.
CHECK_DEADLOCK FALSE
