\* Two COPY instructions that share a file, the second with a forced upload, and one edit.
CONSTANTS
    Copies <- MCCopies
    MaxEdits = 1
    NotYet = NotYet
SPECIFICATION FairSpec
INVARIANTS
    StoredArchivesAreWhole
    TriggeredIsStored
    BrokenNeverBuilt
    NoGoroutineLeft
PROPERTIES
    StartReturns
\* Everything stops when startBuild has returned.
CHECK_DEADLOCK FALSE
