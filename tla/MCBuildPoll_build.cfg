\* More entries than the channel, the tail and one answer hold; the server finishes the build.
CONSTANTS
    Buffer = 2
    TailLimit = 2
    Batch = 2
    MaxLogs = 5
    MayAbandon = TRUE
    EmptyBodies = TRUE
SPECIFICATION BuildingSpec
INVARIANTS
    TerminalIsTrue
PROPERTIES
    KeepsPromise
    BuildReturns
    StreamEnds
\* Everything stops once the channel is closed and read, or the program has crashed.
CHECK_DEADLOCK FALSE
