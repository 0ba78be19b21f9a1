------------------------------ MODULE WorktreeList ------------------------------
(***************************************************************************)
(* The list of the TUI: what it shows of the worktrees of a repository or  *)
(* a workspace (filter, folded groups), the row the cursor is on, the      *)
(* marked rows, the repository the app is at work in, and what the views   *)
(* opened from the list act on (src/src/tui/app.rs, src/src/tui/mod.rs,    *)
(* src/src/tui/state/filter.rs).                                           *)
(*                                                                         *)
(* A worktree is a number, in the order of the listing.  A turn of the     *)
(* loop drains a result, syncs the repository and draws; a countdown may   *)
(* elapse then, and one event is handled.  Worktrees come and go anywhere  *)
(* between.                                                                *)
(***************************************************************************)
EXTENDS Naturals, Sequences, FiniteSets

LOCAL INSTANCE SequencesExt

CONSTANTS
    Trees, Mains, RepoOf,   \* worktrees, the main ones, and whose they are
    Letters,        \* how many letters of the query each still matches
    MaxQuery,       \* bound: letters typed
    Windows,        \* of {"drift"}: the list changes under a prompt that captured nothing
    MaxSteps        \* bound: worktrees that come and go

VARIABLES
    there,      \* worktrees that exist; a repository opens if its main one does
    asked, taken,   \* a listing under way, and what its worker saw
    ui,         \* the App
    phase,      \* of the loop
    drawn,      \* history: what the last frame showed
    acted,      \* history: the last thing done to worktrees, and to which
    steps

lvars == <<there, asked, taken, ui, phase, drawn, acted, steps>>

Views == {"list", "confirm", "clean", "agents", "note", "rich", "link", "palette"}
None == <<0>>       \* no cached indices
Repos == {RepoOf[t] : t \in Trees}

Ui == [workspace : BOOLEAN, rows : Seq(Trees),
       cache : Seq(Nat), cachedLen : Nat,       \* FilterState
       query : 0 .. MaxQuery, typing : BOOLEAN,
       selected : Nat,                          \* a visible row, 0 none
       marked : SUBSET Trees, folded : SUBSET Repos,
       active : Repos, stale : BOOLEAN,
       view : Views,
       target : SUBSET Trees,                   \* captured as the view was opened
       busy : BOOLEAN]                          \* what was confirmed is under way

Drawn == [view : Views, selected : SUBSET Trees, marked : SUBSET Trees]

ListTypeOK ==
    /\ there \subseteq Trees
    /\ asked \in {"no", "asked", "taken"} /\ taken \subseteq Trees
    /\ ui \in Ui
    /\ phase \in {"turn", "event"}
    /\ drawn \in Drawn
    /\ acted \in [on : SUBSET Trees, meant : SUBSET Trees, repo : Repos \cup {0}]
    /\ steps \in 0 .. MaxSteps

\* What a listing finds: in a workspace, the repositories that open; else the first.
Listing(u, exist) ==
    LET first == CHOOSE r \in Repos : \A q \in Repos : r <= q
        found == {t \in exist : /\ \E m \in exist \cap Mains : RepoOf[m] = RepoOf[t]
                                /\ u.workspace \/ RepoOf[t] = first}
    IN  SetToSortSeq(found, <)

-----------------------------------------------------------------------------
\* What is shown: under a query what matches, without one what is not folded away.
Shows(u, t) ==
    IF u.query > 0 THEN Letters[t] >= u.query
    ELSE t \in Mains \/ RepoOf[t] \notin u.folded

Computed(u) == SelectSeq([i \in 1 .. Len(u.rows) |-> i], LAMBDA i : Shows(u, u.rows[i]))

Visible(u) == IF u.cache # None /\ u.cachedLen = Len(u.rows) THEN u.cache ELSE Computed(u)
Cached(u) == [u EXCEPT !.cache = Visible(u), !.cachedLen = Len(u.rows)]
Invalidated(u) == [u EXCEPT !.cache = None]

Selected(u) ==
    LET v == Visible(u) IN
    IF u.selected \notin 1 .. Len(v) \/ v[u.selected] > Len(u.rows) THEN {}
    ELSE {u.rows[v[u.selected]]}

Clamped(u) ==
    LET c == Cached(u)  n == Len(c.cache) IN
    [c EXCEPT !.selected = IF n = 0 THEN 0 ELSE IF @ > n THEN n ELSE IF @ = 0 THEN 1 ELSE @]

\* Slip in DropHidden: marks are left to the next refresh.
KeepHidden(u) == u

\* A fold takes its marks along, unless a query overrides it.
DropHidden(u) ==
    IF u.query > 0 \/ u.folded = {} THEN u
    ELSE [u EXCEPT !.marked = {t \in @ : \E i \in 1 .. Len(Visible(u)) : u.rows[Visible(u)[i]] = t}]

HasChildren(u, repo) ==
    u.workspace /\ Cardinality({i \in 1 .. Len(u.rows) : RepoOf[u.rows[i]] = repo}) > 1

Listed(u) == {u.rows[i] : i \in 1 .. Len(u.rows)}
PruneMarks(u) == [u EXCEPT !.marked = @ \cap Listed(u)]
PruneFolds(u) == [u EXCEPT !.folded = {r \in @ : HasChildren(u, r)}]

WithRows(u, rows) == Invalidated([u EXCEPT !.rows = rows])
Applied(u, rows) == Clamped(PruneFolds(PruneMarks(WithRows(u, rows))))

\* The repository of the row the cursor is on; the forge's overlays close when there
\* is none, or it does not open.
Stale(u) == [u EXCEPT !.stale = TRUE, !.view = IF @ = "rich" THEN "list" ELSE @]

Opens(repo) == \E m \in there \cap Mains : RepoOf[m] = repo

Synced(u) ==
    IF ~ u.workspace THEN u
    ELSE IF Selected(u) = {} THEN Stale(u)
    ELSE LET repo == RepoOf[CHOOSE t \in Selected(u) : TRUE] IN
         IF repo = u.active \/ Opens(repo)
         THEN [u EXCEPT !.active = repo, !.stale = FALSE]
         ELSE Stale(u)

Refreshed(u, exist) ==
    LET v == Applied(u, Listing(u, exist)) IN IF u.workspace THEN Synced(v) ELSE v

-----------------------------------------------------------------------------
Opened(workspace) ==
    LET bare == [workspace |-> workspace, rows |-> <<>>, cache |-> None, cachedLen |-> 0,
                 query |-> 0, typing |-> FALSE, selected |-> 1, marked |-> {}, folded |-> {},
                 active |-> CHOOSE r \in Repos : \A q \in Repos : r <= q, stale |-> FALSE,
                 view |-> "list", target |-> {}, busy |-> FALSE]
    IN  [bare EXCEPT !.rows = Listing(bare, there)]

Shown(u) == [view |-> u.view, selected |-> Selected(u), marked |-> u.marked]
\* Blank in between: `drawn` is what the frame before this event showed, and an act
\* is remembered until the next turn.
Blank == [view |-> "list", selected |-> {}, marked |-> {}]

Idle == [on |-> {}, meant |-> {}, repo |-> 0]

ListInit ==
    /\ there \in {Trees, Trees \ {CHOOSE t \in Trees : \A q \in Trees : t >= q}}
    /\ asked = "no" /\ taken = {}
    /\ ui \in {Opened(w) : w \in BOOLEAN}
    /\ phase = "turn"
    /\ drawn = Blank /\ acted = Idle
    /\ steps = 0

\* Nothing is going on here.
ListRest ==
    /\ there = {} /\ asked = "no" /\ taken = {}
    /\ ui = [Opened(FALSE) EXCEPT !.selected = 0]
    /\ phase = "turn" /\ drawn = Blank /\ acted = Idle /\ steps = 0

\* A listing that was asked for: its worker looks, and its result waits.
Look ==
    /\ asked = "asked"
    /\ asked' = "taken" /\ taken' = there
    /\ UNCHANGED <<there, ui, phase, drawn, acted, steps>>

\* A prompt that captured nothing holds the list still, unless drift is let in.
Still == ui.view \in {"link"} /\ "drift" \notin Windows

\* What the loop does before it draws; not under an overlay that destroys.
Frame(u) == IF u.view = "clean" THEN u ELSE Synced(u)

Turn(next, rest) ==
    /\ phase = "turn" /\ phase' = "event"
    /\ ui' = Cached(Frame(next))
    /\ asked' \in IF rest = "no" /\ next.view # "clean" THEN {"no", "asked"} ELSE {rest}
    /\ taken' = IF rest = "taken" THEN taken ELSE {}
    /\ drawn' = Shown(ui')
    /\ acted' = [Idle EXCEPT !.meant = IF next.view = "list" THEN {} ELSE acted.meant]
    /\ UNCHANGED <<there, steps>>

\* drain_task_results: nothing has come, a listing lands, or what was confirmed is done
\* and the list read anew, which drops the listing under way.
DrainNothing == Turn(ui, asked)
DrainListing == asked = "taken" /\ ~ Still /\ Turn(Refreshed(ui, taken), "no")
DrainDone ==
    ui.busy /\ Turn(Refreshed([ui EXCEPT !.busy = FALSE, !.view = "list", !.target = {}], there), "no")

Does(on, meant, repo) == acted' = [on |-> on, meant |-> meant, repo |-> repo]

\* A countdown elapses: the confirmed deletion starts, the clean overlay is done.
Elapse ==
    /\ phase = "event" /\ ui.view \in {"confirm", "clean"} /\ ~ ui.busy
    /\ Does(ui.target, acted.meant, 0)
    /\ ui' = IF ui.view = "confirm" THEN [ui EXCEPT !.busy = TRUE]
             ELSE [ui EXCEPT !.view = "list", !.target = {}]
    /\ UNCHANGED <<there, asked, taken, phase, drawn, steps>>

-----------------------------------------------------------------------------
\* Events.  Most change the App and nothing else.
Handled(next) ==
    /\ phase = "event" /\ phase' = "turn"
    /\ ui' = next
    /\ drawn' = Blank /\ UNCHANGED <<there, asked, taken, acted, steps>>

NoEvent == Handled(ui)

InList == ui.view = "list"
Browsing == InList /\ ~ ui.typing

\* j, k, g, G, the wheel, and a click on a row of the last frame.
SelectRow(i) ==
    /\ InList /\ i \in 1 .. Len(Visible(ui))
    /\ Handled([Cached(ui) EXCEPT !.selected = i])

\* A click or a wheel behind an overlay reaches nothing: the frame had no such zone.

\* Space.
ToggleSelect ==
    /\ Browsing
    /\ \E t \in Selected(ui) \ Mains :
        Handled([ui EXCEPT !.marked = IF t \in @ THEN @ \ {t} ELSE @ \cup {t}])

\* h and l on a group of a workspace.
HeaderOf(u, repo) ==
    {k \in 1 .. Len(Visible(u)) : u.rows[Visible(u)[k]] \in Mains /\ RepoOf[u.rows[Visible(u)[k]]] = repo}

CollapseGroup ==
    /\ Browsing /\ ui.query = 0
    /\ \E t \in Selected(ui) :
        LET repo == RepoOf[t]
            u == DropHidden(Invalidated([ui EXCEPT !.folded = @ \cup {repo}]))
        IN  /\ HasChildren(ui, repo) /\ repo \notin ui.folded
            /\ Handled(IF HeaderOf(u, repo) # {}
                       THEN [Cached(u) EXCEPT !.selected = CHOOSE k \in HeaderOf(u, repo) : TRUE]
                       ELSE Clamped(u))

ExpandGroup ==
    /\ Browsing /\ ui.query = 0
    /\ \E t \in Selected(ui) :
        /\ RepoOf[t] \in ui.folded
        /\ Handled(Clamped(Invalidated([ui EXCEPT !.folded = @ \ {RepoOf[t]}])))

\* / and what is typed there.
EnterFilter == Browsing /\ Handled([ui EXCEPT !.typing = TRUE, !.marked = {}])

FilterPush ==
    /\ InList /\ ui.typing /\ ui.query < MaxQuery
    /\ Handled(Clamped(Invalidated([ui EXCEPT !.query = @ + 1])))

FilterPop ==
    /\ InList /\ ui.typing /\ ui.query > 0
    /\ Handled(DropHidden(Clamped(Invalidated([ui EXCEPT !.query = @ - 1]))))

FilterKeep == InList /\ ui.typing /\ Handled([ui EXCEPT !.typing = FALSE])

\* Esc, in the filter or on a list that is still filtered.
FilterCancel ==
    /\ InList /\ (ui.typing \/ ui.query > 0)
    /\ Handled(DropHidden(Clamped(Invalidated([ui EXCEPT !.query = 0, !.typing = FALSE]))))

\* r: the marks go, and a listing is asked for unless one is under way.
RequestRefresh ==
    /\ Browsing /\ phase = "event" /\ phase' = "turn"
    /\ ui' = [ui EXCEPT !.marked = {}]
    /\ asked' = IF asked = "no" THEN "asked" ELSE asked
    /\ drawn' = Blank /\ UNCHANGED <<there, taken, acted, steps>>

-----------------------------------------------------------------------------
\* The marked rows, wherever they are, or the one the cursor is on.
DeleteTargets(u) == (IF u.marked = {} THEN Selected(u) ELSE u.marked \cap Listed(u)) \ Mains

Meant(what) ==
    (IF what = "confirm" /\ drawn.marked # {} THEN drawn.marked ELSE drawn.selected)
        \ (IF what = "confirm" THEN Mains ELSE {})

\* run_action refuses what changes a repository while the one at hand is stale.
Mutates(what) == what \in {"confirm", "link", "note", "clean", "run"}
Refused(u, what) == u.stale /\ Mutates(what)

\* A view is opened on what is selected or marked, and keeps it.  A prompt for a link
\* keeps nothing.
Captured(u, what) == IF what = "confirm" THEN DeleteTargets(u) ELSE Selected(u)

Open(what) ==
    /\ Browsing \/ (ui.view = "palette" /\ what # "palette")
    /\ phase = "event" /\ phase' = "turn"
    /\ ~ Refused(ui, what)
    /\ what # "palette" => Captured(ui, what) # {}
    /\ ui' = [ui EXCEPT !.view = what, !.target = IF what = "palette" THEN {} ELSE Captured(ui, what)]
    /\ acted' = [Idle EXCEPT !.meant = Meant(what)]
    /\ drawn' = Blank /\ UNCHANGED <<there, asked, taken, steps>>

Close ==
    /\ ~ InList /\ ~ ui.busy
    /\ Handled([ui EXCEPT !.view = "list", !.target = {}])

\* y, Enter, or what was typed is saved: on what was captured; a link goes to the row
\* the cursor is on.
Submitted(u) == IF u.view = "link" THEN Selected(u) ELSE u.target

Submit ==
    /\ ui.view \in {"confirm", "clean", "note", "link"} /\ ~ ui.busy
    /\ phase = "event" /\ phase' = "turn"
    /\ Submitted(ui) # {}
    /\ Does(Submitted(ui), acted.meant, IF ui.view = "link" THEN ui.active ELSE 0)
    /\ ui' = IF ui.view = "confirm" THEN [ui EXCEPT !.busy = TRUE]
             ELSE [ui EXCEPT !.view = "list", !.target = {}]
    /\ drawn' = Blank /\ UNCHANGED <<there, asked, taken, steps>>

\* A pin is written to the repository at hand: not in a workspace.
Pin ==
    /\ ui.view = "agents" /\ ~ ui.workspace
    /\ phase = "event" /\ phase' = "turn"
    /\ Does(ui.target, acted.meant, ui.active)
    /\ drawn' = Blank /\ UNCHANGED <<there, asked, taken, ui, steps>>

\* bootstrap, sync, pull, push, a shell, a macro, a review: on the row, at once.
Act ==
    /\ (Browsing \/ ui.view = "palette")
    /\ phase = "event" /\ phase' = "turn"
    /\ ~ Refused(ui, "run") /\ Selected(ui) # {}
    /\ Does(Selected(ui), Meant("run"), ui.active)
    /\ ui' = [ui EXCEPT !.view = "list"]
    /\ drawn' = Blank /\ UNCHANGED <<there, asked, taken, steps>>

-----------------------------------------------------------------------------
\* The others: git worktree add and remove, and a repository that moves away.
Comes(ts) ==
    /\ steps < MaxSteps /\ steps' = steps + 1
    /\ ts \cap there = {} /\ there' = there \cup ts
    /\ UNCHANGED <<asked, taken, ui, phase, drawn, acted>>

Goes(ts) ==
    /\ steps < MaxSteps /\ steps' = steps + 1
    /\ ts \subseteq there /\ there' = there \ ts
    /\ UNCHANGED <<asked, taken, ui, phase, drawn, acted>>

ListNext ==
    \/ Look \/ DrainNothing \/ DrainListing \/ DrainDone \/ Elapse \/ NoEvent
    \/ \E i \in 1 .. Cardinality(Trees) : SelectRow(i)
    \/ ToggleSelect \/ CollapseGroup \/ ExpandGroup
    \/ EnterFilter \/ FilterPush \/ FilterPop \/ FilterKeep \/ FilterCancel
    \/ RequestRefresh \/ Close \/ Submit \/ Pin \/ Act
    \/ \E what \in Views \ {"list"} : Open(what)
    \/ \E t \in Trees : Comes({t}) \/ Goes({t})

ListSpec == ListInit /\ [][ListNext]_lvars

-----------------------------------------------------------------------------
\* The rows on the screen are those the filter and the folds let through of the rows
\* there are, and the cursor is on one of them if there is any (filtered_indices,
\* clamp_selection_to_filter).
CursorIsOnARow ==
    /\ Visible(ui) = Computed(ui)
    /\ phase # "turn" => (ui.selected = 0 <=> Computed(ui) = <<>>)
    /\ ui.selected <= Len(Computed(ui))

\* Every mark is on a row that is shown and may be deleted: no row is deleted that the
\* list hides (prune_marks, drop_marks_hidden_by_a_fold, enter_filter).
MarksAreInReach ==
    ui.marked \subseteq {ui.rows[Computed(ui)[i]] : i \in 1 .. Len(Computed(ui))} \ Mains

\* Whatever is done is done to what the screen showed when it was asked for, in the
\* repository it belongs to (capture at the opening of a view, sync_active_repo).
ActsOnWhatWasDrawn ==
    acted.on # {} =>
        /\ acted.on = acted.meant
        /\ (acted.repo # 0 /\ ui.workspace) => \A t \in acted.on : RepoOf[t] = acted.repo

ListInv == ListTypeOK /\ CursorIsOnARow /\ MarksAreInReach /\ ActsOnWhatWasDrawn
=============================================================================
