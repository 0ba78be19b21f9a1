-------------------------------- MODULE Overlays --------------------------------
(***************************************************************************)
(* What the TUI draws over its list and gives its keys to: the views of a  *)
(* PR or an issue, a note and its editor, the programs that run in the PTY *)
(* overlay, in a pane or in a container, and the listing of the commits    *)
(* (open_*, enter_* and close_* in src/src/tui/app.rs, run_app in          *)
(* src/src/tui/mod.rs).  One of them is chosen, and the others are at rest.*)
(***************************************************************************)
EXTENDS Naturals, Sequences, FiniteSets, TLC

CONSTANTS
    Windows,        \* the gaps between a check and its use in which others act
    Issues, Prs, Nothing, MaxVersion,                           \* RichView
    Branches, Portable, Folded, FileOf, Noted, Texts, Outside,  \* NoteEditor
    Typed, Heights, MaxKeys,
    Rows, Settings, MaxStarts,                                  \* Panes
    Homes, Old, Parents, Diff, CommitsPage, CommitsMax, MaxMemo,   \* CommitLog
    MaxMoves, MaxOpens, MaxRows, MaxIds, MaxParents

ASSUME WindowsAssumption ==
    Windows \subseteq {"notes", "full", "bytes", "selection", "bootstrap", "typing", "names"}
ASSUME RichAssumption == Nothing \notin Issues \cup Prs /\ MaxVersion \in Nat
ASSUME NotesAssumption ==
    /\ Portable \subseteq Branches /\ Noted \in Portable /\ "none" \notin Branches
    /\ Heights \subseteq Nat \ {0}
ASSUME RowsAssumption == Rows \subseteq Nat \ {0}

VARIABLES
    link, cache, ui, merging, chosen,
    disk, marks, cursor, vim, editor, last, count, lost,
    env, mode, selected, view, picker, seq, started, pty, jobs, up, stuck, diffs, panes, worker, faults,
    walk, tips, rows, under, page, tasks, reads, memo, moves, seen,
    over            \* the part that is at work

richVars == <<link, cache, ui, merging, chosen>>
noteVars == <<disk, marks, cursor, vim, editor, last, count, lost>>
paneVars == <<env, mode, selected, view, picker, seq, started, pty, jobs, up, stuck, diffs, panes,
              worker, faults>>
logVars == <<walk, tips, rows, under, page, tasks, reads, memo, moves, seen>>

Rich == INSTANCE RichView
Note == INSTANCE NoteEditor
Pane == INSTANCE Panes
Log == INSTANCE CommitLog

\* A text is readable, unless files are that hold anything.
ASSUME TextsAssumption ==
    LET readable == Seq(Seq(Note!Character)) \ {Note!Unreadable.text} IN
    Texts \cup Outside \subseteq
        readable \cup IF "bytes" \in Windows THEN {Note!Unreadable.text} ELSE {}

ASSUME SettingsAssumption == Settings \subseteq (SUBSET Pane!Muxes) \X Pane!Modes

Parts == {"rich", "note", "pane", "log"}

OverlayInit ==
    /\ over \in Parts
    /\ IF over = "rich" THEN Rich!Init ELSE Rich!RichRest
    /\ IF over = "note" THEN Note!NoteInit ELSE Note!NoteRest
    /\ IF over = "pane" THEN Pane!PaneInit ELSE Pane!PaneRest
    /\ IF over = "log" THEN Log!LogInit ELSE Log!LogRest

OnlyIn(this) ==
    /\ over = this /\ UNCHANGED over
    /\ IF this = "rich" THEN TRUE ELSE UNCHANGED richVars
    /\ IF this = "note" THEN TRUE ELSE UNCHANGED noteVars
    /\ IF this = "pane" THEN TRUE ELSE UNCHANGED paneVars
    /\ IF this = "log" THEN TRUE ELSE UNCHANGED logVars

OverlayNext ==
    \/ OnlyIn("rich") /\ Rich!Next
    \/ OnlyIn("note") /\ Note!NoteNext
    \/ OnlyIn("pane") /\ Pane!PaneNext
    \/ OnlyIn("log") /\ Log!LogNext

overlayVars == <<over, richVars, noteVars, paneVars, logVars>>

OverlaySpec == OverlayInit /\ [][OverlayNext]_overlayVars

-----------------------------------------------------------------------------
\* Every view of the forge on screen is about the link, and never blank (RichView); the
\* listing shows the log, its graph and its columns (CommitLog).
OverlayInv ==
    /\ over = "rich" => Rich!OverlayInv
    /\ over = "log" => Log!LogInv

\* The reader has the freshest of what they chose (RichView).
ReaderIsServed == over = "rich" => Rich!ReaderIsServed

\* A relist that leaves the rich view up leaves its threads in place (RichView).
ThreadsOnScreenAreHeld == Rich!ThreadsOnScreenAreHeld

\* What was typed is in the note of its branch or was thrown away on request, and the
\* caret stays in the text (NoteEditor).
NoteHolds == Note!NoteHolds

\* What runs in the overlay goes with it, in the row it was asked for, and a pane that is
\* opened for a command runs it (Panes).
PanesHold == over = "pane" => Pane!PaneInv
=============================================================================
