\* A starting or a connected command, a call of Kill, and the pump of standard input.
CONSTANTS
    k1 = k1
    pump = pump
    Callers = {}
    Killers <- MCKillers
    Pump = pump
    Pid = 7
    MaxStdin = 3
    Streams = {}
    Callbacks = {}
    Cap = 1
    MaxChunks = 0
    Codes = {0}
    NoResult = NoResult
SPECIFICATION CFairSpec
INVARIANTS
    KnownPidKillHits
    StdinInOrder
PROPERTIES
    KilledCommandEnds
\* The handle stops when its stream has ended and its calls have returned.
CHECK_DEADLOCK FALSE
