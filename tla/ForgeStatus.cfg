\* Two issues and a PR, asked for by the table and by the form.
CONSTANTS
    acme = acme
    fork = fork
    NoForge = NoForge
    r1 = r1
    NoNumber = NoNumber
    Kinds <- MCKinds
    Instances = {acme, fork}
    Rows = {r1}
    Numbers = {1, 2}
    MaxMoves = 1
    MaxClaims = 2
SPECIFICATION Spec
INVARIANTS
    CacheInv
    ShownIsCurrent
PROPERTIES
    AnswersArrive
CHECK_DEADLOCK FALSE
