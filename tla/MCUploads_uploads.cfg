\* Three entries, the first and the last for one path, of two chunks each.
CONSTANTS
    Paths <- MCPaths
    Chunks = 2
SPECIFICATION UFairSpec
INVARIANTS
    FilesAsReported
PROPERTIES
    FeedersEnd
    WriteReturns
\* Everything stops when the call has returned.
CHECK_DEADLOCK FALSE
