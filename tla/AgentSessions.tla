----------------------------- MODULE AgentSessions -----------------------------
(***************************************************************************)
(* The agent sessions of the worktrees: how they are found in the files of *)
(* other programs (src/src/agent_sessions.rs), the pins kept in git's      *)
(* configuration (src/src/github.rs), the TUI that shows them and pins     *)
(* more (src/src/tui/app.rs, state/agents.rs), `gwm agents`                *)
(* (src/src/cli.rs) and the daemon's cache of them (src/src/json_api.rs).  *)
(*                                                                         *)
(* A run that is invalidated leaves `run`: what it sends is dropped (see   *)
(* AsyncTasks).                                                            *)
(***************************************************************************)
EXTENDS Naturals, FiniteSets

CONSTANTS
    Sessions, Places, Elsewhere,    \* ids, the paths of worktrees, and any other
    Slug,           \* the directory claude keeps for a path
    Twigs,          \* branches
    Worlds,         \* what there may be at first: files, pins and branches
    Touched,        \* what the agents' files may hold later
    MaxEvents       \* bound: what others do

VARIABLES
    home,       \* the agents' files
    stored,     \* the pins of each branch
    heads,      \* the branch of each worktree that exists
    app,        \* the TUI
    run,        \* its detection under way
    mine,       \* history: pins this TUI made or took, that stand
    slot,       \* the daemon's last detection
    served,     \* history: its last answer
    events

avars == <<home, stored, heads, app, run, mine, slot, served, events>>

Kinds == {"claude", "codex", "opencode", "vibe"}
Detached == "detached"
Absent == "absent"  \* no worktree
Bare == "bare"      \* an entry without a value, by hand

\* `born` and `last` are ages: 0 a few minutes, 1 a month, 2 two months, 3 more.
Session == [kind : Kinds, cwd : Places \cup {Elsewhere}, born : 0 .. 3, last : 0 .. 3,
            sound : BOOLEAN]
Gone == [kind |-> "none"]

NoRun == [rows |-> <<>>]
NoSlot == [rows |-> {}]

-----------------------------------------------------------------------------
\* A worktree of the same slug makes it say nothing.
Unique(rows, p) == \A q \in rows : Slug[q] = Slug[p] => q = p

Recent(s) == s.last <= 1                \* SCAN_WINDOW
RecentlyBorn(s) == s.born <= 2          \* and RESUME_SLACK on top

\* Where each program's session is found to be, if it is: the store's directory of the
\* slug, for claude, unless a worktree claims it alone,
ClaudeAt(rows, s) ==
    {p \in rows : Slug[p] = Slug[s.cwd] /\ Unique(rows, p)}

ClaudeScan(h, rows, sweep) ==
    {i \in Sessions : /\ h.files[i].kind = "claude" /\ Recent(h.files[i])
                      /\ sweep \/ ClaudeAt(rows, h.files[i]) # {}}

\* the directory in the first line, for codex,
CodexScan(h) ==
    {i \in Sessions : LET s == h.files[i] IN
        s.kind = "codex" /\ Recent(s) /\ RecentlyBorn(s) /\ s.sound}

\* a column of its database, or, without one, a file for a project,
OpencodeScan(h) ==
    {i \in Sessions : LET s == h.files[i] IN
        s.kind = "opencode" /\ Recent(s) /\ (s.sound \/ h.database)}

\* or its description.
VibeScan(h) ==
    {i \in Sessions : LET s == h.files[i] IN
        s.kind = "vibe" /\ Recent(s) /\ RecentlyBorn(s) /\ s.sound}

Collected(h, rows, sweep) ==
    ClaudeScan(h, rows, sweep) \cup CodexScan(h) \cup OpencodeScan(h) \cup VibeScan(h)

\* The other programs say where they ran.
RanAt(h, rows, i) ==
    IF h.files[i].kind = "claude" THEN ClaudeAt(rows, h.files[i])
    ELSE {h.files[i].cwd} \cap rows

Summarized(h, rows, found) == [p \in rows |-> {i \in found : p \in RanAt(h, rows, i)}]

\* A pinned session that was not collected is looked for among claude's.
ById(h) == {i \in Sessions : h.files[i].kind = "claude" /\ Recent(h.files[i])}

\* Slip in Overlaid: what is pinned is found among what was collected.
OverlaidFromPool(h, map, found, pins) ==
    [p \in DOMAIN map |-> map[p] \cup (pins[p] \cap found)]

Overlaid(h, map, found, pins) ==
    [p \in DOMAIN map |-> map[p] \cup (pins[p] \cap (found \cup ById(h)))]

DetectAll(h, rows, pins) ==
    LET found == Collected(h, rows, FALSE) IN Overlaid(h, Summarized(h, rows, found), found, pins)

DetectWithSessions(h, rows, pins) ==
    LET found == Collected(h, rows, TRUE)
    IN  [map |-> Overlaid(h, Summarized(h, rows, found), found, pins), all |-> found]

-----------------------------------------------------------------------------
\* The pins of the branch of each row; a worktree on none has none.
PinsOf(rows) ==
    [p \in DOMAIN rows |-> IF rows[p] = Detached THEN {} ELSE stored[rows[p]] \ {Bare}]

Existing == [p \in {q \in Places : heads[q] # Absent} |-> heads[p]]

\* The last item may not be written by a regular expression beside one without a value.
Writable(b) == Bare \notin stored[b]

Added(b, i) == [stored EXCEPT ![b] = @ \cup {i}]
Removed(b, i) == [stored EXCEPT ![b] = @ \ {i}]
Clearable(b) == Writable(b) \/ stored[b] = {Bare}
Cleared(b) == [stored EXCEPT ![b] = {}]

-----------------------------------------------------------------------------
Views == {"list", "rows", "input"}

App == [rows : UNION {[S -> Twigs \cup {Detached}] : S \in SUBSET Places},
        workspace : BOOLEAN,
        snapshot : UNION {[S -> SUBSET Sessions] : S \in SUBSET Places}, fresh : BOOLEAN,
        all : SUBSET Sessions,
        pins : UNION {[S -> SUBSET Sessions] : S \in SUBSET Places},
        poolWanted : BOOLEAN, redetectWanted : BOOLEAN,
        view : Views, target : Places, shown : SUBSET Sessions,
        up : BOOLEAN,           \* there is one
        waits : BOOLEAN]        \* history: the prompt has been promised a pool

AgentsTypeOK ==
    /\ home.files \in [Sessions -> Session \cup {Gone}] /\ home.database \in BOOLEAN
    /\ stored \in [Twigs -> SUBSET (Sessions \cup {Bare})]
    /\ heads \in [Places -> Twigs \cup {Detached, Absent}]
    /\ app \in App
    /\ run = NoRun \/ (run.rows = app.rows /\ run.at \in {"spawned", "read"})
    /\ mine \in [Twigs \X Sessions -> {"in", "out", "none"}]
    /\ events \in 0 .. MaxEvents

Nowhere == [rows |-> <<>>, workspace |-> FALSE, snapshot |-> <<>>, fresh |-> FALSE, all |-> {},
            pins |-> <<>>, poolWanted |-> FALSE, redetectWanted |-> FALSE, view |-> "list",
            target |-> CHOOSE p \in Places : TRUE, shown |-> {}, up |-> FALSE, waits |-> FALSE]

AgentsInit ==
    /\ \E w \in Worlds : home = w.home /\ stored = w.stored /\ heads = w.heads
    /\ \/ app = Nowhere
       \/ \E w \in BOOLEAN : app = [Nowhere EXCEPT !.rows = Existing, !.workspace = w, !.up = TRUE]
    /\ run = NoRun
    /\ mine = [b \in Twigs \X Sessions |-> "none"]
    /\ slot = NoSlot /\ served = NoSlot
    /\ events = 0

AgentsRest ==
    /\ home = [files |-> [i \in Sessions |-> Gone], database |-> FALSE]
    /\ stored = [b \in Twigs |-> {}] /\ heads = [p \in Places |-> Absent]
    /\ app = Nowhere /\ run = NoRun
    /\ mine = [b \in Twigs \X Sessions |-> "none"]
    /\ slot = NoSlot /\ served = NoSlot /\ events = 0

world == <<home, stored, heads, events>>
daemon == <<slot, served>>

-----------------------------------------------------------------------------
Spawned(pool) == [rows |-> app.rows, pool |-> pool, at |-> "spawned", pins |-> <<>>]

\* Each turn, unless the clean or the exec overlay is up.
Look ==
    /\ app.up /\ ~ app.fresh /\ run = NoRun
    /\ run' = Spawned(FALSE)
    /\ UNCHANGED <<world, app, mine, daemon>>

\* The worker: the pins of the rows it was given, and then the files.
ReadPins ==
    /\ run # NoRun /\ run.at = "spawned"
    /\ run' = [run EXCEPT !.at = "read", !.pins = PinsOf(run.rows)]
    /\ UNCHANGED <<world, app, mine, daemon>>

\* Half a minute goes by.
Elapse ==
    /\ app.fresh
    /\ app' = [app EXCEPT !.fresh = FALSE]
    /\ UNCHANGED <<world, run, mine, daemon>>

Rebuilt(a) ==
    IF a.view \in {"rows", "input"} /\ a.target \in DOMAIN a.rows
    THEN [a EXCEPT !.shown = IF a.target \in DOMAIN a.snapshot THEN a.snapshot[a.target] ELSE {}]
    ELSE a

\* What it found lands: a pool that was asked for meanwhile is walked next, if the
\* prompt still waits, and pins that changed meanwhile are not put back.
Land ==
    /\ run # NoRun /\ run.at = "read"
    /\ LET rows == DOMAIN run.rows
           with == DetectWithSessions(home, rows, run.pins)
           chains == app.poolWanted /\ ~ run.pool /\ app.view = "input"
       IN  /\ app' = Rebuilt([app EXCEPT
                        !.snapshot = IF run.pool THEN with.map ELSE DetectAll(home, rows, run.pins),
                        !.fresh = ~ app.redetectWanted,
                        !.all = IF run.pool THEN with.all ELSE @,
                        !.poolWanted = FALSE,
                        !.redetectWanted = FALSE,
                        !.pins = IF app.redetectWanted THEN @ ELSE run.pins,
                        !.waits = @ /\ ~ run.pool])
           /\ run' = IF chains THEN Spawned(TRUE) ELSE NoRun
    /\ UNCHANGED <<world, mine, daemon>>

\* A listing lands: a run over other rows, or other branches, is dropped.
Refresh ==
    /\ app.up /\ app.rows # Existing
    /\ app' = [app EXCEPT !.rows = Existing, !.fresh = FALSE, !.waits = FALSE]
    /\ run' = NoRun
    /\ LET moved == {p \in Places : p \notin DOMAIN app.rows \/ p \notin DOMAIN Existing
                                     \/ app.rows[p] # Existing[p]}
           of(rows) == {rows[p] : p \in moved \cap DOMAIN rows}
       IN  mine' = [c \in Twigs \X Sessions |->
                        IF c[1] \in of(app.rows) \cup of(Existing) THEN "none" ELSE mine[c]]
    /\ UNCHANGED <<world, daemon>>

-----------------------------------------------------------------------------
Open(p) ==
    /\ app.view = "list" /\ p \in DOMAIN app.rows
    /\ app' = Rebuilt([app EXCEPT !.view = "rows", !.target = p])
    /\ UNCHANGED <<world, run, mine, daemon>>

Close ==
    /\ app.view = "rows"
    /\ app' = [app EXCEPT !.view = "list", !.shown = {}]
    /\ UNCHANGED <<world, run, mine, daemon>>

\* The prompt asks for every session, behind a run that is under way.
OpenInput ==
    /\ app.view = "rows"
    /\ LET a == [app EXCEPT !.view = "input", !.waits = TRUE] IN
       IF run # NoRun THEN app' = [a EXCEPT !.poolWanted = TRUE] /\ UNCHANGED run
       ELSE app' = a /\ run' = Spawned(TRUE)
    /\ UNCHANGED <<world, mine, daemon>>

CancelInput ==
    /\ app.view = "input"
    /\ app' = [app EXCEPT !.view = "rows", !.waits = FALSE]
    /\ UNCHANGED <<world, run, mine, daemon>>

\* Slip in Repinned: a run under way may land as it is.
RepinnedAlone(a, pins) == [a EXCEPT !.pins = pins, !.fresh = FALSE]

\* After a pin of its own the TUI reads them all again, and detects again: behind the
\* run that is under way, whose pins are then of before.
Repinned(a, pins) ==
    LET b == [a EXCEPT !.pins = pins] IN
    IF run # NoRun THEN [b EXCEPT !.redetectWanted = TRUE] ELSE [b EXCEPT !.fresh = FALSE]

CurrentBranch(p) == IF p \in DOMAIN app.rows THEN app.rows[p] ELSE Detached

Pins(i, now, how) ==
    LET b == CurrentBranch(app.target) IN
    /\ ~ app.workspace /\ b # Detached
    /\ IF how = "in" THEN i \in stored[b] \/ Writable(b) ELSE i \in stored[b] /\ Writable(b)
    /\ stored' = IF how = "in" THEN Added(b, i) ELSE Removed(b, i)
    /\ mine' = [mine EXCEPT ![<<b, i>>] = how]
    /\ app' = LET read == [p \in DOMAIN app.rows |->
                              IF app.rows[p] = Detached THEN {} ELSE stored'[app.rows[p]] \ {Bare}]
              IN  Rebuilt(Repinned([app EXCEPT !.view = now, !.waits = @ /\ now = "input"], read))
    /\ UNCHANGED <<home, heads, events, run, daemon>>

\* Enter on a row, or on one of the sessions the prompt offers.
Attach(i) == app.view = "rows" /\ i \in app.shown /\ Pins(i, "rows", "in")
SubmitInput(i) == app.view = "input" /\ i \in app.all /\ Pins(i, "rows", "in")
Detach(i) == app.view = "rows" /\ i \in app.shown /\ Pins(i, "rows", "out")

-----------------------------------------------------------------------------
\* The others.
Others == events < MaxEvents /\ events' = events + 1
Nobodys(b) == mine' = [c \in Twigs \X Sessions |-> IF c[1] = b THEN "none" ELSE mine[c]]

\* gwm agents attach: the id has to be found, from here.
CliAttach(p, i) ==
    /\ Others /\ p \in DOMAIN Existing /\ heads[p] # Detached
    /\ LET rows == DOMAIN Existing
           probe == [q \in rows |-> IF q = p THEN {i} ELSE {}]
       IN  i \in DetectAll(home, rows, probe)[p]
    /\ i \notin stored[heads[p]] /\ Writable(heads[p])
    /\ stored' = Added(heads[p], i) /\ Nobodys(heads[p])
    /\ UNCHANGED <<home, heads, app, run, daemon>>

\* gwm agents detach, of one or of all.
CliDetach(p, i) ==
    /\ Others /\ p \in DOMAIN Existing /\ heads[p] # Detached
    /\ i \in stored[heads[p]] /\ Writable(heads[p])
    /\ stored' = Removed(heads[p], i) /\ Nobodys(heads[p])
    /\ UNCHANGED <<home, heads, app, run, daemon>>

CliDetachAll(p) ==
    /\ Others /\ p \in DOMAIN Existing /\ heads[p] # Detached
    /\ stored[heads[p]] # {} /\ Clearable(heads[p])
    /\ stored' = Cleared(heads[p]) /\ Nobodys(heads[p])
    /\ UNCHANGED <<home, heads, app, run, daemon>>

\* A checkout, a worktree that goes; agents that work, end, and start.
Checkout(p, b) ==
    /\ Others /\ p \in DOMAIN Existing /\ heads[p] # b
    /\ b \in Twigs => \A q \in Places : heads[q] # b
    /\ heads' = [heads EXCEPT ![p] = b]
    /\ UNCHANGED <<home, stored, app, run, mine, daemon>>

Touch(h) ==
    /\ Others /\ home # h /\ home' = h
    /\ UNCHANGED <<stored, heads, app, run, mine, daemon>>

-----------------------------------------------------------------------------
\* Slip in Answers: the pins are not part of the question.
AnswersAnyPins(rows, pins, pool) ==
    slot # NoSlot /\ slot.rows = rows /\ slot.fresh /\ (slot.pool \/ ~ pool)

\* The daemon's last detection answers the same question for half a minute.
Answers(rows, pins, pool) ==
    slot # NoSlot /\ slot.rows = rows /\ slot.pins = pins /\ slot.fresh /\ (slot.pool \/ ~ pool)

Serve(pool) ==
    LET rows == DOMAIN Existing
        pins == PinsOf(Existing)
        with == DetectWithSessions(home, rows, pins)
        anew == [rows |-> rows, pins |-> pins, pool |-> pool, fresh |-> TRUE, of |-> home,
                 map |-> IF pool THEN with.map ELSE DetectAll(home, rows, pins),
                 all |-> IF pool THEN with.all ELSE {}]
    IN  /\ rows # {} /\ ~ app.up
        /\ slot' = IF Answers(rows, pins, pool) THEN slot ELSE anew
        /\ served' = [rows |-> rows, pins |-> pins, pool |-> pool, of |-> slot'.of,
                      map |-> slot'.map, all |-> slot'.all]
        /\ UNCHANGED <<world, app, run, mine>>

SlotElapses ==
    /\ slot # NoSlot /\ slot.fresh
    /\ slot' = [slot EXCEPT !.fresh = FALSE] /\ served' = NoSlot
    /\ UNCHANGED <<world, app, run, mine>>

AgentsNext ==
    \/ Look \/ ReadPins \/ Elapse \/ Land \/ Refresh
    \/ Close \/ OpenInput \/ CancelInput
    \/ \E p \in Places : Open(p) \/ CliDetachAll(p)
    \/ \E i \in Sessions : Attach(i) \/ SubmitInput(i) \/ Detach(i)
    \/ \E p \in Places, i \in Sessions : CliAttach(p, i) \/ CliDetach(p, i)
    \/ \E p \in Places, b \in Twigs \cup {Detached, Absent} : Checkout(p, b)
    \/ \E h \in Touched : Touch(h)
    \/ \E pool \in BOOLEAN : Serve(pool)
    \/ SlotElapses

AgentsSpec == AgentsInit /\ [][AgentsNext]_avars

-----------------------------------------------------------------------------
\* The pins the TUI shows are those it made and took, until somebody else changes them
\* or the branch moves: no detection that read them before puts them back
\* (refresh_agent_overlay_rows, apply_agent_snapshot).
OwnPinsStand ==
    \A p \in DOMAIN app.pins \cap DOMAIN app.rows, i \in Sessions :
        app.rows[p] \in Twigs =>
            /\ mine[<<app.rows[p], i>>] = "in" => i \in app.pins[p]
            /\ mine[<<app.rows[p], i>>] = "out" => i \notin app.pins[p]

\* A prompt that waits for the pool has it on its way, unless the list changed under it
\* (refresh_agent_pool).
PoolIsOnItsWay == app.waits => run # NoRun /\ (run.pool \/ app.poolWanted)

\* A session that nobody pinned is shown where it ran; or it ran in no worktree at all
\* and claude's name for that place is this one's (scan_impl).
ShownWhereItRan ==
    LET rows == DOMAIN Existing IN
    \A p \in rows : \A i \in DetectAll(home, rows, [q \in rows |-> {}])[p] :
        LET s == home.files[i] IN
        s.cwd = p \/ (s.kind = "claude" /\ s.cwd \notin rows /\ Slug[s.cwd] = Slug[p])

\* With the pool or without, the same is found (attach_agents_inner).
SummaryIsTheSame ==
    LET rows == DOMAIN Existing IN
    DetectAll(home, rows, PinsOf(Existing)) = DetectWithSessions(home, rows, PinsOf(Existing)).map

\* What the daemon answers is what a detection of its own would have found, with the
\* rows and the pins of now, in the files of at most half a minute ago; and all the
\* sessions if they are asked for (detect_cached).
AnswersItsQuestion ==
    served # NoSlot =>
        /\ served.map = DetectAll(served.of, served.rows, served.pins)
        /\ served.pool => served.all = Collected(served.of, served.rows, TRUE)

AgentsInv ==
    AgentsTypeOK /\ OwnPinsStand /\ PoolIsOnItsWay /\ ShownWhereItRan /\ SummaryIsTheSame
        /\ AnswersItsQuestion
=============================================================================
