CONSTANTS
    Windows = {}
    Trees = {1, 2, 3, 4}
    Mains = {1, 3}
    RepoOf <- MCRepoOf
    Letters <- MCLetters
    MaxQuery = 1
    MaxSteps = 1
    Projects = {1, 2}
    Workspace = TRUE
    Slots <- MCSlots
    VerbOf <- MCVerbOf
    Modal = {"next", "prev"}
    Reserved <- MCReserved
    Defaults <- MCDefaults
    Events <- MCEvents
    Unreadable = {"+"}
    Hands <- MCHands
    Values = {1}
    MaxStrokes = 2
    MaxSaves = 3
    MaxEdits = 1
    Sessions = {"s", "t"}
    Places = {"a", "b"}
    Elsewhere = "elsewhere"
    Slug <- MCSlug
    Twigs = {"x", "y"}
    Worlds <- MCWorlds
    Touched <- MCTouched
    MaxEvents = 1
    Alphabet = {"a", "b"}
    Digits = {"0", "1"}
    Types <- MCTypes
    Repo <- MCRepo
    Configs <- MCConfigs
    OtherConfigs <- MCOthers
    Probes <- MCProbes
    Specs <- MCSpecs
    FreeNames <- MCFree
    Titles <- MCTitles
    Typed = {"a", "1", "-", "/"}
    MaxText = 3
    MaxTyped = 2
    Given <- MCGiven
    Trials <- MCTrials
SPECIFICATION ScreenSpec
INVARIANTS
    ActsOnWhatIsSeen
    AgentsAreTheRows
    NamesAreKept
PROPERTIES
    SettingsHold
CHECK_DEADLOCK FALSE
