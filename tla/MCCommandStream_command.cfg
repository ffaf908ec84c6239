\* Accumulated output and PTY output, more chunks than a channel holds, one call of Wait.
CONSTANTS
    c1 = c1
    Callers <- MCCallers
    Streams = {"stdout", "pty"}
    Callbacks = {"stdout"}
    Cap = 1
    MaxChunks = 2
    Codes = {0, 1}
    NoResult = NoResult
SPECIFICATION FairSpec
INVARIANTS
    ReadersSeeOutputInOrder
    ReadersNeverAheadOfWait
    FirstChunksKept
    ClosedChannelMeansDone
    ExitCarriesAllOutput
PROPERTIES
    ImplementsPromise
    WaitReturns
    ReadersReachTheEnd
\* The handle stops when its stream has ended and its calls have returned.
CHECK_DEADLOCK FALSE
