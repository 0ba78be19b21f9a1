\* Two kinds of task, one of them invalidated by predicate as the forge fetches are, two
\* changes of the world and three generations per kind: enough for a run to be superseded
\* by a second one and the second by a third while the first is still on its way.
\* Workers, generations and the world are bounded, so a behaviour may end with nothing
\* left to do.
CONSTANTS
    Kinds = {list, issue}
    Groups = {{issue}}
    MaxWorld = 2
    MaxGeneration = 3
SPECIFICATION FairSpec
INVARIANT
    IInv
PROPERTIES
    ImplementsFreshView
    LoaderStops
CHECK_DEADLOCK FALSE
