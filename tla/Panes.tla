--------------------------------- MODULE Panes ---------------------------------
(***************************************************************************)
(* The programs that the TUI starts (run_action, open_url and run_macro in *)
(* src/src/tui/mod.rs): in its own PTY overlay (PtyOverlay), in a pane of  *)
(* the multiplexer it runs in (src/src/multiplexer.rs), beside it, or in   *)
(* its place (src/src/launcher.rs); and what becomes of their processes,   *)
(* of their containers and of their diff files.                            *)
(***************************************************************************)
EXTENDS Naturals, FiniteSets

CONSTANTS
    Rows,           \* the worktrees
    Windows,        \* of {"bootstrap", "typing"}
    Settings,       \* the multiplexers and the kinds of pane that are explored
    MaxStarts       \* bound: programs started, in the overlay and in panes

VARIABLES
    env,        \* the multiplexers whose variable is set
    mode,       \* [tui] mux_open_in and mux_pane_direction: what a pane is here
    selected,   \* the row under the cursor, or none
    view,
    picker,     \* ExecPicker: what it was opened on
    seq,        \* ExecPicker.container_seq
    pty,        \* App.pty_overlay
    jobs,       \* the process groups of the programs that run
    up, stuck,  \* the containers that are up, and those whose removal failed
    diffs,      \* the diff files there are, by the job they are for
    panes,      \* the multiplexer's
    worker,     \* of TaskKind::AgentPane
    started,    \* programs started in the overlay so far
    faults      \* history: what must not happen

None == 0
Muxes == {"tmux", "zellij", "herdr"}
Modes == {"right", "left", "tab", "workspace"}
NoPty == [kind |-> "none"]
NoWorker == [phase |-> "none"]
Closed == [row |-> None]
NoBox == <<None, 0>>

\* A program in the overlay, by the row it runs in and the one it was asked for.
Ptys(ids) ==
    [kind : {"terminal", "git", "review", "browser", "exec"}, row : Rows, asked : Rows, id : ids,
     finished : BOOLEAN, reaped : BOOLEAN, signalled : BOOLEAN, diff : BOOLEAN,
     box : (Rows \X Nat) \cup {NoBox}, back : {"list", "rich"}]

-----------------------------------------------------------------------------
\* detect_multiplexer
Detected ==
    IF "tmux" \in env THEN "tmux" ELSE IF "zellij" \in env THEN "zellij"
    ELSE IF "herdr" \in env THEN "herdr" ELSE "none"

\* build_command: what the multiplexer has no level or no direction for is refused.
Builds(mux, m) ==
    /\ mux \in {"tmux", "zellij"} => m # "workspace"
    /\ mux = "herdr" => m # "left"

\* Slip in MacroRefusal: a tab is taken for a pane.
MacroRefusalOfHerdr(mux, m) == mux = "herdr"

\* macro_refusal: a command that comes with the pane is for those that take one.
MacroRefusal(mux, m) == mux = "herdr" \/ (mux = "zellij" /\ m = "tab")

\* What the multiplexer does with a command that came with the pane.
Runs(mux, m) == mux = "tmux" \/ (mux = "zellij" /\ m # "tab")

\* macro_mux_command
MacroMux == IF Detected = "none" \/ MacroRefusal(Detected, mode) \/ ~ Builds(Detected, mode) THEN "none" ELSE Detected

NewPane(mux, row, for, runs) ==
    [id |-> Cardinality(panes) + 1, mux |-> mux, row |-> row, for |-> for, runs |-> runs,
     shell |-> "busy", excused |-> FALSE]
Room == started + Cardinality(panes) < MaxStarts

-----------------------------------------------------------------------------
\* Processes.
Group(p) == {j \in jobs : j.id = p.id}
LeaderRuns(p) == \E j \in Group(p) : j.leader

\* PtyOverlay::spawn and open_pty_overlay, over the view that is to come back; or the
\* program cannot be started.  An overlay that was there is dropped with its diff file.
Overlay(kind, row, asked, diff, box, back) ==
    /\ Room /\ started' = started + 1
    /\ pty' = [kind |-> kind, row |-> row, asked |-> asked, id |-> started', finished |-> FALSE,
               reaped |-> FALSE, signalled |-> FALSE, diff |-> diff, box |-> box, back |-> back]
    /\ view' = "pty"
    /\ \E rest \in BOOLEAN : jobs' = jobs \cup {[id |-> started', leader |-> TRUE, rest |-> rest]}
    /\ diffs' = (IF pty = NoPty THEN diffs ELSE diffs \ {pty.id}) \cup IF diff THEN {started'} ELSE {}

NoOverlay == UNCHANGED <<started, pty, view, jobs, diffs>>

\* run_teardown: whether it succeeds is not asked.
TornDown(box) ==
    \/ up' = up \ {box} /\ UNCHANGED stuck
    \/ box \in up /\ stuck' = stuck \cup {box} /\ UNCHANGED up

\* close_pty_overlay: the group is signalled, unless it was, and the container removed.
ClosePty(now) ==
    /\ jobs' = IF pty.signalled THEN jobs ELSE jobs \ Group(pty)
    /\ faults' = IF pty.reaped /\ ~ pty.signalled /\ ~ now THEN faults \cup {"late"} ELSE faults
    /\ TornDown(pty.box)
    /\ diffs' = diffs \ {pty.id}
    /\ pty' = NoPty
    /\ view' = IF view = "pty" THEN pty.back ELSE view
    /\ UNCHANGED started

-----------------------------------------------------------------------------
\* Keys of the list.  A shell, and the git TUI, in the overlay (TerminalPty, LazyGitPty).
StartTerminal(kind) ==
    /\ view = "list"
    /\ \/ selected # None /\ Overlay(kind, selected, selected, FALSE, NoBox, "list")
       \/ NoOverlay
    /\ UNCHANGED <<env, mode, selected, picker, seq, up, stuck, panes, worker, faults>>

\* What git and the configuration say of a branch's base: the branch itself, another ref,
\* or "none"; and whether the last resort, dev or main, is the branch itself.
Is == {"own", "other"}
Named == {"none"} \cup Is
\* Of the chain nothing is looked at past the first that is named.
Bases == [merge : Named, stored : Is, default : {"none"}, last : {"other"}]
    \cup [merge : Named, stored : {"none"}, default : Is, last : {"other"}]
    \cup [merge : Named, stored : {"none"}, default : {"none"}, last : Is]

\* What comes after the upstream: gwm-base, [review].default_base, dev or main.
NextBase(b) ==
    IF b.stored # "none" THEN b.stored ELSE IF b.default # "none" THEN b.default ELSE b.last

\* Slip in ReviewBase: the branch may be its own upstream.
ReviewBaseUpstream(b) ==
    IF b.merge # "none" THEN b.merge ELSE NextBase(b)

\* resolve_review_base: only the upstream is compared with the branch.
ReviewBase(b) == IF b.merge \notin {"none", "own"} THEN b.merge ELSE NextBase(b)

\* prepare_review, of a branch that has commits of its own or not, or that has some that
\* git fails to count: in the overlay, with a file for the diff if the command reads one.
\* Nothing to review is said, if asked for, of a branch that is its own base, and of any
\* whose commits are not counted.
Review(b, commits, skip) ==
    /\ view = "list"
    /\ LET some == commits = "some" /\ ReviewBase(b) # "own"
           why == IF ReviewBase(b) = "own" /\ NextBase(b) # "own" THEN "swallowed" ELSE "unreviewed"
       IN  /\ \/ /\ selected # None /\ (skip => some)
                 /\ \E diff \in BOOLEAN : Overlay("review", selected, selected, diff, NoBox, "list")
              \/ NoOverlay
           /\ faults' = IF selected # None /\ commits # "none" /\ skip /\ ~ some THEN faults \cup {why} ELSE faults
    /\ UNCHANGED <<env, mode, selected, picker, seq, up, stuck, panes, worker>>

\* run_macro: in a pane, or in the overlay if the backend cannot carry its command.
Macro(inPane) ==
    LET mux == IF inPane THEN MacroMux ELSE "none" IN
    /\ view = "list" /\ selected # None
    /\ \/ /\ mux # "none" /\ Room
          /\ panes' = panes \cup {NewPane(mux, selected, "macro", Runs(mux, mode))}
          /\ NoOverlay
       \/ mux = "none" /\ Overlay("terminal", selected, selected, FALSE, NoBox, "list") /\ UNCHANGED panes
    /\ UNCHANGED <<env, mode, selected, picker, seq, up, stuck, worker, faults>>

\* open_in_mux_pane_from: the worktree in a pane of its own, which runs a shell.
OpenInMux ==
    /\ view = "list" /\ Room
    /\ selected # None /\ Detected # "none" /\ Builds(Detected, mode)
    /\ panes' = panes \cup {NewPane(Detected, selected, "shell", TRUE)}
    /\ UNCHANGED <<env, mode, selected, picker, seq, up, stuck, worker, faults>>
    /\ NoOverlay

\* gwm tmux, gwm zellij and gwm herdr, of a row found by its name.
CliOpen(mux, row, asked) ==
    /\ mux \in env /\ asked # "workspace" /\ Builds(mux, asked) /\ Room
    /\ panes' = panes \cup {NewPane(mux, row, "shell", TRUE)}
    /\ UNCHANGED <<env, mode, selected, picker, seq, up, stuck, worker, faults>>
    /\ NoOverlay

-----------------------------------------------------------------------------
\* Links.  A browser: how it is set and whether its programs are installed.
Browsers ==
    [set : {TRUE}, url : BOOLEAN, assigns : BOOLEAN, wrapper : BOOLEAN, program : BOOLEAN, detached : BOOLEAN]
    \cup {[set |-> FALSE]}

\* Slip in BrowserPlan: a browser that places itself needs nothing.
BrowserPlanDetached(b) ==
    IF ~ b.set THEN "system"
    ELSE IF b.detached THEN "detached"
    ELSE IF Detected = "none" \/ ~ b.url \/ b.assigns \/ ~ b.wrapper \/ ~ b.program THEN "system"
    ELSE IF MacroRefusal(Detected, mode) \/ ~ Builds(Detected, mode) THEN "overlay" ELSE "pane"

\* plan_terminal_browser
BrowserPlan(b) ==
    IF ~ b.set THEN "system"
    ELSE IF Detected = "none" \/ ~ b.url \/ b.assigns \/ ~ b.wrapper \/ ~ b.program THEN "system"
    ELSE IF b.detached THEN "detached"
    ELSE IF MacroRefusal(Detected, mode) \/ ~ Builds(Detected, mode) THEN "overlay" ELSE "pane"

\* What is started is there, as it is spelled.
Starts(b) == b.url /\ ~ b.assigns /\ b.wrapper /\ b.program

\* open_url: whatever cannot be had ends in the system's browser.  One that places
\* itself takes the terminal it is started in when no multiplexer gives it another.
OpenUrl(b) ==
    LET plan == BrowserPlan(b) IN
    /\ view \in {"list", "rich"} /\ selected # None
    /\ \/ /\ plan = "pane" /\ Room
          /\ panes' = panes \cup {NewPane(Detected, selected, "browser", Runs(Detected, mode) /\ Starts(b))}
          /\ NoOverlay /\ UNCHANGED faults
       \/ /\ plan = "overlay" /\ Overlay("browser", selected, selected, FALSE, NoBox, view)
          /\ UNCHANGED <<panes, faults>>
       \/ /\ plan = "detached" /\ NoOverlay /\ UNCHANGED panes
          /\ faults' = IF Detected = "none" THEN faults \cup {"taken"} ELSE faults
       \/ /\ plan = "system" /\ NoOverlay /\ UNCHANGED <<panes, faults>>
    /\ UNCHANGED <<env, mode, selected, picker, seq, up, stuck, worker>>

-----------------------------------------------------------------------------
\* The exec picker holds the row and the configuration it was opened on, for a refresh
\* that is in flight moves the cursor under it (enter_exec_picker, close_exec_picker).
OpenPicker ==
    /\ view = "list" /\ selected # None
    /\ picker' = [row |-> selected] /\ view' = "picker"
    /\ UNCHANGED <<env, mode, selected, seq, started, pty, jobs, up, stuck, diffs, panes, worker, faults>>

CancelPicker ==
    /\ view = "picker" /\ view' = "list"
    /\ UNCHANGED <<env, mode, selected, picker, seq, started, pty, jobs, up, stuck, diffs, panes, worker, faults>>

\* Slip in Target: the row under the cursor, when Enter is pressed.
TargetIsSelected(p) == IF selected # None THEN selected ELSE p.row

\* The row that a profile runs in.
Target(p) == p.row

\* Slip in NextSeq: the count is the picker's.
NextSeqOfPicker(n) == 1

\* container_seq counts for as long as the App is there.
NextSeq(n) == n + 1

BoxOf(row, n) == <<row, n>>         \* container_run_name

\* exec_picker_resolve and Enter: the profile is resolved, in a container or not, and
\* started.  A spawn that fails after the container was started removes it.
SubmitPicker(contained) ==
    LET n == IF contained THEN NextSeq(seq) ELSE seq
        box == IF contained THEN BoxOf(Target(picker), n) ELSE NoBox
    IN  /\ view = "picker"
        /\ \/ /\ Overlay("exec", Target(picker), picker.row, FALSE, box, "list")
              /\ up' = IF contained THEN up \cup {box} ELSE up
              /\ faults' = IF box \in up THEN faults \cup {"clash"} ELSE faults
              /\ seq' = n /\ UNCHANGED stuck
           \/ /\ view' = "list" /\ UNCHANGED <<pty, jobs, diffs, faults>>
              /\ \/ UNCHANGED <<started, seq, up, stuck>>
                 \/ contained /\ Room /\ started' = started + 1 /\ seq' = n
                    /\ \/ UNCHANGED <<up, stuck>>
                       \/ up' = up \cup {box} /\ stuck' = stuck \cup {box}
    /\ UNCHANGED <<env, mode, selected, picker, panes, worker>>

-----------------------------------------------------------------------------
\* The overlay.  Slip in Finished: the group is left for the key that closes it.
FinishedLater(p) == [p EXCEPT !.finished = TRUE, !.reaped = TRUE]

\* mark_finished
Finished(p) == [p EXCEPT !.finished = TRUE, !.reaped = TRUE, !.signalled = TRUE]

\* A frame: what has run to its end stays on the screen, the rest goes with its program.
Tick ==
    /\ view = "pty" /\ ~ LeaderRuns(pty)
    /\ IF pty.kind # "exec" THEN ClosePty(TRUE)
       ELSE /\ ~ pty.finished
            /\ pty' = Finished(pty)
            /\ jobs' = IF pty'.signalled THEN jobs \ Group(pty) ELSE jobs
            /\ UNCHANGED <<view, started, up, stuck, diffs, faults>>
    /\ UNCHANGED <<env, mode, selected, picker, seq, panes, worker>>

\* Esc, or any key over what has run to its end.
CloseKey ==
    /\ view = "pty" /\ ClosePty(FALSE)
    /\ UNCHANGED <<env, mode, selected, picker, seq, panes, worker>>

\* A program ends, and its container with it; what it left in the background goes on.
LeaderExits(j) ==
    /\ j.leader
    /\ jobs' = (jobs \ {j}) \cup IF j.rest THEN {[j EXCEPT !.leader = FALSE]} ELSE {}
    /\ IF pty # NoPty /\ pty.id = j.id /\ pty.box # NoBox THEN up' \in {up, up \ {pty.box}} ELSE UNCHANGED up
    /\ UNCHANGED <<env, mode, selected, view, picker, seq, started, pty, stuck, diffs, panes, worker, faults>>

\* The bootstrap of a row lands, whatever is on the screen.
LandBootstrap ==
    /\ view \in {"list", "rich"} \/ "bootstrap" \in Windows
    /\ view # "report" /\ view' = "report"
    /\ UNCHANGED <<env, mode, selected, picker, seq, started, pty, jobs, up, stuck, diffs, panes, worker, faults>>

\* Another view is opened, left, or shown.
Leave ==
    /\ view \in {"list", "rich", "agents", "report"}
    /\ view' \in (IF view = "list" THEN {"rich", "agents"} ELSE {"list"})
    /\ UNCHANGED <<env, mode, selected, picker, seq, started, pty, jobs, up, stuck, diffs, panes, worker, faults>>

\* The cursor moves: by hand in the list, by a listing that lands under anything.
Drift(row) ==
    /\ selected # row /\ selected' = row
    /\ UNCHANGED <<env, mode, view, picker, seq, started, pty, jobs, up, stuck, diffs, panes, worker, faults>>

-----------------------------------------------------------------------------
\* `o` in the agents overlay: the session goes on in a pane, of the worktree that the
\* overlay is about.  Herdr opens a pane first, on a thread, and types into it.
Resume(row, safe) ==
    /\ view = "agents" /\ Room
    /\ \/ /\ Detected # "none" /\ Detected # "herdr" /\ safe
          /\ ~ MacroRefusal(Detected, mode) /\ Builds(Detected, mode)
          /\ panes' = panes \cup {NewPane(Detected, row, "resume", Runs(Detected, mode))}
          /\ UNCHANGED worker
       \/ /\ Detected = "herdr" /\ safe /\ Builds("herdr", mode) /\ worker = NoWorker
          /\ worker' = [phase |-> "open", row |-> row, pane |-> None]
          /\ UNCHANGED panes
    /\ UNCHANGED <<env, mode, selected, view, picker, seq, started, pty, jobs, up, stuck, diffs, faults>>

Answered(pane, ok) ==
    /\ worker' = [worker EXCEPT !.phase = IF ok THEN "resumed" ELSE "failed"]
    /\ panes' = {IF p.id = pane THEN [p EXCEPT !.excused = ~ ok, !.runs = ok /\ p.shell = "idle"] ELSE p : p \in panes}

\* run_herdr_agent_pane: open; a pane that is not named cannot be written to.
WorkerOpens ==
    /\ worker.phase = "open"
    /\ \/ /\ Room
          /\ LET p == NewPane("herdr", worker.row, "resume", FALSE) IN
             \/ panes' = panes \cup {p} /\ worker' = [worker EXCEPT !.phase = "wait", !.pane = p.id]
             \/ panes' = panes \cup {[p EXCEPT !.excused = TRUE]} /\ worker' = [worker EXCEPT !.phase = "failed"]
       \/ Answered(None, FALSE)
    /\ UNCHANGED <<env, mode, selected, view, picker, seq, started, pty, jobs, up, stuck, diffs, faults>>

\* Slip in Idle: the shell is taken to be up.
IdleAtOnce(pane) == TRUE

\* herdr_shell_is_idle, of what process-info says.
Idle(pane) == \E p \in panes : p.id = pane /\ p.shell = "idle"

\* Wait for its shell, as long as it takes or two minutes.
WorkerWaits ==
    /\ worker.phase = "wait"
    /\ \/ Idle(worker.pane) /\ worker' = [worker EXCEPT !.phase = "type"] /\ UNCHANGED panes
       \/ Answered(worker.pane, FALSE)
    /\ UNCHANGED <<env, mode, selected, view, picker, seq, started, pty, jobs, up, stuck, diffs, faults>>

\* Type; herdr refuses for a pane that is gone.
WorkerTypes ==
    /\ worker.phase = "type"
    /\ \E ok \in BOOLEAN :
        /\ ok => \E p \in panes : p.id = worker.pane /\ p.shell # "gone"
        /\ Answered(worker.pane, ok)
    /\ UNCHANGED <<env, mode, selected, view, picker, seq, started, pty, jobs, up, stuck, diffs, faults>>

\* apply_agent_pane_result
WorkerLands ==
    /\ worker.phase \in {"resumed", "failed"}
    /\ worker' = NoWorker
    /\ UNCHANGED <<env, mode, selected, view, picker, seq, started, pty, jobs, up, stuck, diffs, panes, faults>>

\* The shell of a pane comes to its prompt, or its user closes it or types in it.
Shell(p, s) ==
    /\ p.mux = "herdr" /\ p.for = "resume"
    /\ \/ p.shell = "busy" /\ s = "idle"
       \/ p.shell # "gone" /\ s = "gone" /\ worker.phase # "none"
       \/ p.shell = "idle" /\ s = "busy" /\ "typing" \in Windows /\ worker.phase = "type"
    /\ panes' = (panes \ {p}) \cup {[p EXCEPT !.shell = s]}
    /\ UNCHANGED <<env, mode, selected, view, picker, seq, started, pty, jobs, up, stuck, diffs, worker, faults>>

-----------------------------------------------------------------------------
PaneRest ==
    /\ env = {} /\ mode = "tab" /\ selected = None
    /\ view = "list" /\ picker = Closed /\ seq = 0 /\ started = 0 /\ pty = NoPty
    /\ jobs = {} /\ up = {} /\ stuck = {} /\ diffs = {} /\ panes = {} /\ worker = NoWorker
    /\ faults = {}

PaneInit ==
    /\ \E s \in Settings : env = s[1] /\ mode = s[2]
    /\ selected \in Rows \cup {None}
    /\ view = "list" /\ picker = Closed /\ seq = 0 /\ started = 0 /\ pty = NoPty
    /\ jobs = {} /\ up = {} /\ stuck = {} /\ diffs = {} /\ panes = {} /\ worker = NoWorker
    /\ faults = {}

PaneNext ==
    \/ \E kind \in {"terminal", "git"} : StartTerminal(kind)
    \/ \E b \in Bases, commits \in {"none", "some", "uncounted"}, skip \in BOOLEAN : Review(b, commits, skip)
    \/ \E inPane \in BOOLEAN : Macro(inPane)
    \/ OpenInMux \/ \E mux \in Muxes, row \in Rows, m \in Modes : CliOpen(mux, row, m)
    \/ \E b \in Browsers : OpenUrl(b)
    \/ OpenPicker \/ CancelPicker \/ \E contained \in BOOLEAN : SubmitPicker(contained)
    \/ Tick \/ CloseKey \/ \E j \in jobs : LeaderExits(j)
    \/ LandBootstrap \/ Leave \/ \E row \in Rows \cup {None} : Drift(row)
    \/ \E row \in Rows, safe \in BOOLEAN : Resume(row, safe)
    \/ WorkerOpens \/ WorkerWaits \/ WorkerTypes \/ WorkerLands
    \/ \E p \in panes, s \in {"busy", "idle", "gone"} : Shell(p, s)

PaneSpec == PaneInit /\ [][PaneNext]_<<env, mode, selected, view, picker, seq, started, pty, jobs, up,
                                        stuck, diffs, panes, worker, faults>>

-----------------------------------------------------------------------------
PaneTypeOK ==
    /\ env \subseteq Muxes /\ mode \in Modes
    /\ selected \in Rows \cup {None}
    /\ view \in {"list", "rich", "agents", "report", "picker", "pty"}
    /\ pty \in Ptys(1 .. started) \cup {NoPty}
    /\ \A p \in panes : p.mux \in env /\ p.row \in Rows

\* What runs in the overlay is on the screen, and goes with it: its process group, even
\* what the program left in the background, its container, unless its removal failed, and
\* its diff file (close_pty_overlay, mark_finished, run_teardown).
NothingOutlivesTheOverlay ==
    /\ pty # NoPty => view = "pty"
    /\ \A j \in jobs : pty # NoPty /\ j.id = pty.id /\ ~ pty.finished
    /\ up \subseteq stuck \cup IF pty = NoPty THEN {} ELSE {pty.box}
    /\ diffs = IF pty # NoPty /\ pty.diff THEN {pty.id} ELSE {}

\* No group is signalled after the frame in which its leader was reaped, when its number
\* may be another's; no container takes a name that is in use; no program takes the
\* terminal gwm draws on; and no branch that has commits is said to have none because it
\* is its own upstream, when what comes after the upstream names another (#117).
NothingIsSignalledLate == faults \subseteq {"unreviewed"}

\* As the comment of resolve_review_base and the changelog have it, R is not swallowed: a
\* branch that has commits is reviewed.  The code says there are none when a later name
\* of the chain is the branch itself, and when git rev-list fails (launcher.rs, 213-225,
\* 269-279).
ReviewIsNotSwallowed == "unreviewed" \notin faults

\* A profile runs in the row its picker was opened on, whose configuration it is of.
RunsWhereItWasAsked == pty # NoPty => pty.row = pty.asked

\* A pane that was opened for a command runs it, or will, or it is said that it does not.
PanesRunTheirCommand ==
    \A p \in panes : p.runs \/ p.excused \/ (worker # NoWorker /\ worker.pane = p.id)

PaneInv ==
    /\ PaneTypeOK /\ NothingOutlivesTheOverlay /\ NothingIsSignalledLate
    /\ RunsWhereItWasAsked /\ PanesRunTheirCommand
=============================================================================
