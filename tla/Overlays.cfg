\* A PR and an issue with what can cover their view, notes of six branches, and two rows.
CONSTANTS
    Windows = {}
    Issues = {1}
    Prs = {2}
    Nothing = Nothing
    MaxVersion = 2
    Branches = {"n", "m", "M", "e", "E", "con"}
    Portable = {"n", "m", "M", "e", "E"}
    Folded <- MCFolded
    FileOf <- MCFileOf
    Noted = "n"
    Texts <- MCTexts
    Outside <- MCOutside
    Typed = {"a", ".", "-"}
    Heights = {1, 2}
    MaxKeys = 2
    Rows = {1, 2}
    Settings <- MCSettings
    MaxStarts = 2
    Homes = {"p", "q"}
    Old = 2
    Parents <- MCParents
    Diff <- MCDiff
    CommitsPage = 1
    CommitsMax = 2
    MaxMemo = 1
    MaxMoves = 1
    MaxOpens = 3
    MaxRows = 5
    MaxIds = 6
    MaxParents = 2
SPECIFICATION OverlaySpec
INVARIANTS
    OverlayInv
    ReaderIsServed
    PanesHold
PROPERTIES
    ThreadsOnScreenAreHeld
    NoteHolds
CHECK_DEADLOCK FALSE
