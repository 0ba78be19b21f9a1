-------------------------------- MODULE Screens --------------------------------
(***************************************************************************)
(* The parts of the TUI that keep state of their own beside the views of   *)
(* MutationFlow and RichView.  The App has one of them at work at a time,  *)
(* as a key goes to the view that is up (dispatch_key in                   *)
(* src/src/tui/app.rs, run_app in src/src/tui/mod.rs); here one of them is *)
(* chosen, and the others are at rest.                                     *)
(***************************************************************************)
EXTENDS Naturals, Sequences, FiniteSets, TLC

CONSTANTS
    Windows,        \* the gaps between a check and its use in which others act
    Trees, Mains, RepoOf, Letters, MaxQuery, MaxSteps,      \* WorktreeList
    Projects, Workspace, Slots, VerbOf, Modal, Reserved, Defaults, Events,  \* Settings
    Unreadable, Hands, Values, MaxStrokes, MaxSaves, MaxEdits,
    Sessions, Places, Elsewhere, Slug, Twigs, Worlds, Touched, MaxEvents,   \* AgentSessions
    Alphabet, Digits, Types, Repo, Configs, OtherConfigs, Probes, Specs, FreeNames,   \* CreateForm
    Titles, Typed, MaxText, MaxTyped,
    Given, Trials                                           \* Input

ASSUME WindowsAssumption == Windows \subseteq {"drift", "write", "switch", "base", "capture", "esc", "chords", "toggles"}
ASSUME TreesAssumption == Mains \subseteq Trees /\ Trees \subseteq Nat \ {0}
ASSUME AgentsAssumption ==
    /\ Places # {} /\ MaxEvents \in Nat
    /\ Twigs \cap {"detached", "absent"} = {} /\ "bare" \notin Sessions

VARIABLES
    there, asked, taken, ui, phase, drawn, acted, steps,
    files, gone, tui, cached, keymap, saving, saves, edits, last,
    home, stored, heads, app, run, mine, slot, served, events,
    conf, row, form, loading, touched, sent, strokes,
    bound, desk, trying,
    screen          \* the part that is at work

listVars == <<there, asked, taken, ui, phase, drawn, acted, steps>>
settingsVars == <<files, gone, tui, cached, keymap, saving, saves, edits, last>>
agentsVars == <<home, stored, heads, app, run, mine, slot, served, events>>
formVars == <<conf, row, form, loading, touched, sent, strokes>>
keysVars == <<bound, desk, trying>>

List == INSTANCE WorktreeList
Panel == INSTANCE Settings WITH Repos <- Projects
Agents == INSTANCE AgentSessions
Form == INSTANCE CreateForm
    WITH Letters <- Alphabet, Others <- OtherConfigs, Strokes <- Typed, MaxStrokes <- MaxTyped,
         Switches <- "switch" \in Windows
Keys == INSTANCE Input

\* What there may be at first, and later, is of the form of agents' files, pins and heads.
ASSUME WorldsAssumption ==
    LET Files == [Sessions -> Agents!Session \cup {Agents!Gone}] IN
    /\ \A h \in {w.home : w \in Worlds} \cup Touched : h.files \in Files /\ h.database \in BOOLEAN
    /\ \A w \in Worlds : /\ w.stored \in [Twigs -> SUBSET (Sessions \cup {Agents!Bare})]
                          /\ w.heads \in [Places -> Twigs \cup {Agents!Detached, Agents!Absent}]

Parts == {"list", "settings", "agents", "form", "keys"}

ScreenInit ==
    /\ screen \in Parts
    /\ IF screen = "list" THEN List!ListInit ELSE List!ListRest
    /\ IF screen = "settings" THEN Panel!SettingsInit ELSE Panel!SettingsRest
    /\ IF screen = "agents" THEN Agents!AgentsInit ELSE Agents!AgentsRest
    /\ IF screen = "form" THEN Form!FormInit ELSE Form!FormRest
    /\ IF screen = "keys" THEN Keys!InputInit ELSE Keys!InputRest

OnlyIn(this) ==
    /\ screen = this /\ UNCHANGED screen
    /\ IF this = "list" THEN TRUE ELSE UNCHANGED listVars
    /\ IF this = "settings" THEN TRUE ELSE UNCHANGED settingsVars
    /\ IF this = "agents" THEN TRUE ELSE UNCHANGED agentsVars
    /\ IF this = "form" THEN TRUE ELSE UNCHANGED formVars
    /\ IF this = "keys" THEN TRUE ELSE UNCHANGED keysVars

ScreenNext ==
    \/ OnlyIn("list") /\ List!ListNext
    \/ OnlyIn("settings") /\ Panel!SettingsNext
    \/ OnlyIn("agents") /\ Agents!AgentsNext
    \/ OnlyIn("form") /\ Form!FormNext
    \/ OnlyIn("keys") /\ Keys!InputNext

screenVars == <<screen, listVars, settingsVars, agentsVars, formVars, keysVars>>

ScreenSpec == ScreenInit /\ [][ScreenNext]_screenVars

-----------------------------------------------------------------------------
\* What is done from the list is done to the rows that were on the screen, in their
\* repository; a mark is on a row that is shown and may be deleted (WorktreeList).  A key
\* does what the screen says it does, whatever is rebound, a button what is written on it,
\* and neither changes a form that is being sent or anything from a picker (Input).
ActsOnWhatIsSeen ==
    /\ screen = "list" => List!ListInv
    /\ screen = "keys" => Keys!InputInv

\* The bindings in force are live, the settings are those of the files, and a rebinding
\* leaves a configuration that loads, or the file as it was (Settings).
SettingsHold ==
    /\ [](screen = "settings" => Panel!BindingsAreLive /\ Panel!SettingsAreInForce)
    /\ Panel!RebindingIsSafe

\* Sessions are shown on the worktree they ran in or were pinned to, a pin made stays, and
\* the daemon answers with the rows and pins it was asked about (AgentSessions).
AgentsAreTheRows == screen = "agents" => Agents!AgentsInv

\* What the patterns write is read back, and a form changes of a worktree what was edited
\* in it (CreateForm).
NamesAreKept == screen = "form" => Form!FormInv
=============================================================================
