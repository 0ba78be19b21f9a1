\* A worktree under a remote and a backend that move.
CONSTANTS
    main = main
    topic = topic
    acme = acme
    fork = fork
    github = github
    gitlab = gitlab
    Branches = {topic}
    Main = main
    Origins = {acme, fork}
    NoOrigin = NoOrigin
    Forges = {github, gitlab}
    GitHub = github
    Numbers = {1}
    BranchIssue <- MCBranchIssue
    Nothing = Nothing
    MaxMoves = 3
SPECIFICATION Spec
INVARIANTS LinkInv
PROPERTIES LinksAreKept
CHECK_DEADLOCK FALSE
