\* Two worktrees, so that a batch can fail in part, two pull requests, so that one can be
\* merged while another is asked for, and one of the three operations that only the list
\* asks for.  The program ends, so a behaviour may.
CONSTANTS
    Worktrees = {w1, w2}
    PullRequests = {p1, p2}
    NoPr = NoPr
    ListMutations = {"sync"}
    CountdownSet = TRUE
SPECIFICATION FairSpec
INVARIANTS
    ModalInv
PROPERTIES
    QuitIsClean
    QuitHappens
CHECK_DEADLOCK FALSE
