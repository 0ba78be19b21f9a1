\* Two removals whose reads and writes of the journal interleave.
CONSTANTS
    p1 = p1
    p2 = p2
    i1 = i1
    i2 = i2
    here = here
    there = there
    x = x
    y = y
    NoPath = NoPath
    NoRef = NoRef
    NoEntry = NoEntry
    NoBranch = NoBranch
    Procs = {p1, p2}
    Ids = {i1, i2}
    Paths = {here, there}
    Branches = {x, y}
    Basename <- TwoIds
    Drifts = FALSE
    Interleaved = FALSE
    Failures = FALSE
    MaxWorld = 0
    MaxOid = 0
    MaxClock = 2
    MaxEntries = 2
SPECIFICATION Spec
PROPERTY
    AnchorKept
CHECK_DEADLOCK FALSE
