\* The countdown of one modal fires the other one's operation.
CONSTANTS
    Worktrees = {w1, w2}
    PullRequests = {p1, p2}
    NoPr = NoPr
    ListMutations = {"sync"}
    CountdownSet = TRUE
SPECIFICATION FairSpec
PROPERTY
    CountdownFiresTheModal
CHECK_DEADLOCK FALSE
