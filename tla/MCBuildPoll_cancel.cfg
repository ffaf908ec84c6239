\* The consumer stops reading and the context is cancelled.
CONSTANTS
    Buffer = 1
    TailLimit = 1
    Batch = 2
    MaxLogs = 3
    MayAbandon = TRUE
    EmptyBodies = FALSE
SPECIFICATION FairSpec
PROPERTIES
    CancelEndsPoll
\* Everything stops once the channel is closed and read, or the program has crashed.
CHECK_DEADLOCK FALSE
