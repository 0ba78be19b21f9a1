\* One process, and a world that moves at every step of it.
CONSTANTS
    p1 = p1
    p2 = p2
    i1 = i1
    i2 = i2
    here = here
    there = there
    x = x
    y = y
    NoPath = NoPath
    NoRef = NoRef
    NoEntry = NoEntry
    NoBranch = NoBranch
    Procs = {p1}
    Ids = {i1}
    Paths = {here, there}
    Branches = {x, y}
    Basename <- OneId
    Drifts = FALSE
    Interleaved = TRUE
    Failures = TRUE
    MaxWorld = 3
    MaxOid = 1
    MaxClock = 3
    MaxEntries = 2
SPECIFICATION Spec
INVARIANTS
    Inv
    NoPhantomEntry
PROPERTIES
    OnlyConfirmedPathsFall
    DeletedBranchIsTheRecordedOne
    UndoCanBringBack
CHECK_DEADLOCK FALSE
