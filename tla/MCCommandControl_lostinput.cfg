\* Standard input sent before the Start event.
CONSTANTS
    k1 = k1
    pump = pump
    Callers = {}
    Killers = {}
    Pump = pump
    Pid = 7
    MaxStdin = 2
    Streams = {}
    Callbacks = {}
    Cap = 1
    MaxChunks = 0
    Codes = {0}
    NoResult = NoResult
SPECIFICATION CSpec
INVARIANTS
    StdinStreamed
\* The handle stops when its stream has ended and its calls have returned.
CHECK_DEADLOCK FALSE
