CONSTANTS
    p1 = p1
    p2 = p2
    n1 = n1
    plain = plain
    boots = boots
    hooks = hooks
    Windows = {}
    Callers = {p1}
    Configs = {plain, boots, hooks}
    Surface = {boots, hooks}
    Hooked = {hooks}
    NoConfig = NoConfig
    MaxEdits = 3
    Creators = {p1, p2}
    NewNames = {n1}
    NoTip = NoTip
    MaxCommit = 2
    MaxOthers = 2
    Targets = {"t1"}
    Copies <- MCCopies
    MaxCopies = 2
    MaxWrites = 2
    Repos = {1, 2}
    Worktrees <- MCWorktrees
    Patterns = {"a", "b"}
    Within <- MCWithin
    MaxSlugs = 2
    MaxJobs = 2
    Dirs = {"target", "dist"}
    Profiles = {"default", "all", "bad"}
    DirsOf <- MCDirsOf
    Broken = {"bad"}
    MaxTouch = 1
    Hashes = {"c1", "c2", "c3"}
    MaxMoves = 2
    Daemons = {d1, d2, d3}
    NoFile = NoFile
    OneAtATime = TRUE
    Leaves = TRUE
    i1 = i1
    here = here
    away = away
    x = x
    y = y
    Procs = {p1, p2}
    Ids = {i1}
    Paths = {here, away}
    Basename <- OneId
    Branches = {x, y}
    NoPath = NoPath
    NoRef = NoRef
    NoEntry = NoEntry
    NoBranch = NoBranch
    MaxClock = 3
    MaxEntries = 2
    MaxWorld = 3
    Wanted = {1, 2}
    Hostile = {2}
    MayDeclare <- MCMayDeclare
    MayHold <- MCMayHold
    MaxPushes = 1
    MaxIntruders = 1
    Remotes <- MCRemotes
    Alias <- MCAlias
    Known <- MCKnown
    WebOf <- MCWebOf
    Subfolder <- MCSubfolder
    Environments <- MCEnvironments
    Kept = {"b1", "b2"}
    Styled = {"b1"}
    Suffixes = {"k1", "k2"}
    Lines <- MCLines
    Present = {"tool"}
    MaxKeys = 0
    MaxWhen = 0
    MaxHands = 0
SPECIFICATION CommandSpec
INVARIANT GitHubIsPinned
CHECK_DEADLOCK FALSE
