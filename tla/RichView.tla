-------------------------------- MODULE RichView --------------------------------
(***************************************************************************)
(* The forge overlays of the TUI (app.rs): the rich PR / issue view, the   *)
(* CI checks list, and what can cover them, the merge confirmation and the *)
(* browser in the PTY overlay.  Each renders from a snapshot of its own,   *)
(* pinned to the link it was opened for, over a cache and a link that move *)
(* underneath it; every landing and every way back has to bring the three  *)
(* together again.                                                         *)
(*                                                                         *)
(* The overlay state is one record, and the methods that change it are     *)
(* functions on it.  The cache is the one of FetchCache with the spine     *)
(* taken for granted: a key that is loading may land.  The forge instance  *)
(* does not move here (ForgeStatus moves it).                              *)
(***************************************************************************)
EXTENDS Naturals

CONSTANTS
    Issues, Prs,    \* numbers
    Nothing,
    MaxVersion      \* bound: landings explored per number

VARIABLES
    link,       \* App.github.link of the selected row
    cache,      \* the fetched statuses, by side and number
    ui,         \* view, detail overlay and rich-view state
    merging,    \* a confirmed merge is in flight
    chosen      \* history: the tab the reader chose in the open view

vars == <<link, cache, ui, merging, chosen>>

Kinds == ({"issue"} \X Issues) \cup ({"pr", "threads"} \X Prs)
Link == [issue : Issues \cup {Nothing}, pr : Prs \cup {Nothing}]
\* A status, by the version fetched; a PR's rollup of checks may be empty.
Entry == [phase : {"idle", "loading", "loaded", "error"},
          version : 0 .. MaxVersion, checks : BOOLEAN]
Source == [kind : {"issue", "pr"}, number : Issues \cup Prs, version : 1 .. MaxVersion]
NoSource == [kind |-> "none", number |-> Nothing, version |-> 0]
Ui == [view : {"list", "overlay", "confirm", "pty"},
       covered : {"list", "overlay"},               \* pty_return
       kind : {"issue", "pr", "ci"},                \* detail_overlay.kind
       pin : Issues \cup Prs \cup {Nothing},        \* detail_overlay.link
       source : Source \cup {NoSource},             \* rich.source
       pinned : BOOLEAN,                            \* rich.tab_pinned
       checks : 0 .. MaxVersion,                    \* ci_overlay_checks
       back : Source \cup {NoSource},               \* rich.return_to
       backPinned : BOOLEAN,
       restored : BOOLEAN]                          \* history: the view came back from a child

TypeOK ==
    /\ link \in Link
    /\ cache \in [Kinds -> Entry]
    /\ ui \in Ui
    /\ merging \in BOOLEAN
    /\ chosen \in {"none", "issue", "pr"}

-----------------------------------------------------------------------------
Loaded(c, k) == k \in Kinds /\ c[k].phase = "loaded"
LinkedPr(l) == <<"pr", l.pr>>
LinkedIssue(l) == <<"issue", l.issue>>
SourceOf(c, k) == [kind |-> k[1], number |-> k[2], version |-> c[k].version]

\* The spawn helpers: only a key with no outcome and nothing in flight is asked.
Asked(c, keys) ==
    [k \in Kinds |-> IF k \in keys /\ c[k].phase = "idle"
                       THEN [c[k] EXCEPT !.phase = "loading"] ELSE c[k]]
Flushed(c) == [k \in Kinds |-> [c[k] EXCEPT !.phase = "idle"]]
Expired(c, kept) ==
    [k \in Kinds |-> IF c[k].phase = "loading" \/ k \in kept THEN c[k]
                     ELSE [c[k] EXCEPT !.phase = "idle"]]

\* open_rich_overlay.
Opened(u, s) ==
    [u EXCEPT !.view = "overlay", !.kind = s.kind, !.pin = s.number, !.source = s,
              !.restored = FALSE]

\* remember_rich_view: only a rich view is worth coming back to.
Remembered(u) ==
    IF u.view = "overlay" /\ u.kind # "ci"
    THEN [u EXCEPT !.back = u.source, !.backPinned = u.pinned]
    ELSE [u EXCEPT !.back = NoSource]

\* restore_rich_view, or else the table.
Restored(u) ==
    IF u.back = NoSource THEN [u EXCEPT !.view = "list", !.restored = FALSE]
    ELSE [Opened(u, u.back) EXCEPT !.back = NoSource, !.pinned = u.backPinned,
                                !.restored = TRUE]

\* close_detail_overlay.
Closed(u) ==
    Restored([u EXCEPT !.pin = Nothing, !.pinned = FALSE, !.checks = 0,
                       !.source = NoSource])

\* Slip: only the PR side is compared.
GuardedPr(u, l) ==
    IF u.view = "overlay" /\ u.kind # "issue" /\ u.pin # l.pr THEN Closed(u) ELSE u

\* close_forge_overlay_if_link_disagrees.
Guarded(u, l) ==
    IF u.view = "overlay" /\ u.pin # (IF u.kind = "issue" THEN l.issue ELSE l.pr)
    THEN Closed(u) ELSE u

\* Slip: any landing PR takes the view.
SyncedAlways(u, l, s) ==
    IF u.view = "overlay" /\ u.kind # "ci" /\ (s.kind = "pr" \/ u.kind = "issue")
       /\ s.number \in {l.pr, l.issue}
    THEN [u EXCEPT !.kind = s.kind, !.pin = s.number, !.source = s, !.restored = FALSE] ELSE u

\* sync_rich_overlay: the linked PR takes the view unless the reader chose the
\* issue tab; the linked issue refreshes an issue view.
Synced(u, l, s) ==
    IF /\ u.view = "overlay" /\ u.kind # "ci"
       /\ IF s.kind = "pr" THEN s.number = l.pr /\ ~ (u.pinned /\ u.kind = "issue")
          ELSE s.number = l.issue /\ u.kind = "issue"
    THEN [u EXCEPT !.kind = s.kind, !.pin = s.number, !.source = s, !.restored = FALSE] ELSE u

\* refresh_ci_overlay_on_pr_landing: an empty rollup closes the list.
SyncedCi(u, l, number, version, checks) ==
    IF ~ (u.view = "overlay" /\ u.kind = "ci" /\ number = l.pr) THEN u
    ELSE IF checks THEN [u EXCEPT !.checks = version] ELSE Closed(u)

\* Slip: nothing is held.
HeldNothing(u) == {}

\* rich_view_pr_number: the threads on screen, which a relist holds.
HeldThreads(u) ==
    IF u.view = "overlay" /\ u.source.kind = "pr" THEN {<<"threads", u.source.number>>} ELSE {}

-----------------------------------------------------------------------------
Closing == IF ui'.view = "list" THEN chosen' = "none" ELSE UNCHANGED chosen

\* A navigation in the table, or any re-read of a link that others moved.
Navigate ==
    /\ ui.view = "list"
    /\ link' \in Link
    /\ UNCHANGED <<cache, ui, merging, chosen>>

\* A listing lands: the selection or its link may have moved, the overlay is
\* checked against it, outcomes expire and the linked numbers are asked for.
Relist ==
    /\ link' \in Link
    /\ ui' = Guarded(ui, link')
    /\ cache' = Asked(Expired(cache, HeldThreads(ui')), {LinkedPr(link'), LinkedIssue(link')})
    /\ Closing
    /\ UNCHANGED merging

\* refresh_github_status, with what the probe for the branch's PR found: the
\* same link when the PR is pinned, nothing was found to differ, or it failed.
Refreshed(c, l) ==
    IF l = [issue |-> Nothing, pr |-> Nothing] THEN c
    ELSE Asked(Flushed(c), {LinkedPr(l), LinkedIssue(l)})

\* F in the table; f in the CI list; f in the rich view, which asks for the
\* threads again when the view is still a PR's.
Refresh ==
    /\ ui.view \in {"list", "overlay"}
    /\ \E found \in Prs \cup {Nothing} : link' = [link EXCEPT !.pr = found]
    /\ ui' = Guarded(ui, link')
    /\ cache' = IF ui.view = "overlay" /\ ui.kind # "ci" /\ ui'.view = "overlay" /\ ui'.kind = "pr"
                THEN Asked(Refreshed(cache, link'), {<<"threads", link'.pr>>})
                ELSE Refreshed(cache, link')
    /\ Closing
    /\ UNCHANGED merging

\* I in the table: the PR when it is loaded, else the issue; failing both, the
\* sides that nobody asked for are asked for.
OpenRich ==
    /\ ui.view = "list"
    /\ \/ /\ Loaded(cache, LinkedPr(link))
          /\ ui' = Opened(ui, SourceOf(cache, LinkedPr(link)))
          /\ cache' = Asked(cache, {<<"threads", link.pr>>})
       \/ /\ ~ Loaded(cache, LinkedPr(link)) /\ Loaded(cache, LinkedIssue(link))
          /\ ui' = Opened(ui, SourceOf(cache, LinkedIssue(link)))
          /\ UNCHANGED cache
       \/ /\ ~ Loaded(cache, LinkedPr(link)) /\ ~ Loaded(cache, LinkedIssue(link))
          /\ cache' = Asked(cache, {LinkedPr(link), LinkedIssue(link)})
          /\ UNCHANGED ui
    /\ UNCHANGED <<link, merging, chosen>>

\* C, in the table or in the rich view.
OpenCi ==
    /\ ui.view = "list" \/ (ui.view = "overlay" /\ ui.kind # "ci")
    /\ IF Loaded(cache, LinkedPr(link)) /\ cache[LinkedPr(link)].checks
       THEN /\ ui' = [Remembered(ui) EXCEPT !.view = "overlay", !.kind = "ci", !.pin = link.pr,
                                            !.checks = cache[LinkedPr(link)].version, !.restored = FALSE]
            /\ UNCHANGED cache
       ELSE cache' = Asked(cache, {LinkedPr(link)}) /\ UNCHANGED ui
    /\ UNCHANGED <<link, merging, chosen>>

\* tab: the other side, when it is loaded.
NextTab ==
    /\ ui.view = "overlay" /\ ui.kind # "ci"
    /\ LET k == IF ui.kind = "pr" THEN LinkedIssue(link) ELSE LinkedPr(link) IN
         /\ Loaded(cache, k)
         /\ ui' = [Opened(ui, SourceOf(cache, k)) EXCEPT !.pinned = TRUE]
         /\ cache' = IF k[1] = "pr" THEN Asked(cache, {<<"threads", link.pr>>}) ELSE cache
         /\ chosen' = k[1]
    /\ UNCHANGED <<link, merging>>

CloseOverlay ==
    /\ ui.view = "overlay"
    /\ ui' = Closed(ui)
    /\ Closing
    /\ UNCHANGED <<link, cache, merging>>

\* Enter on a row: the browser covers the overlay; closing it checks the pin and
\* syncs the overlay's own side from the cache.
OpenBrowser ==
    /\ ui.view = "overlay"
    /\ ui' = [ui EXCEPT !.view = "pty", !.covered = "overlay"]
    /\ UNCHANGED <<link, cache, merging, chosen>>

\* Slip: the overlay comes back as it was left.
ResyncedNever(u, l, c) == u

\* resync_forge_overlay_from_cache: the overlay's own side, as a landing would.
Resynced(u, l, c) ==
    LET k == IF u.kind = "issue" THEN LinkedIssue(l) ELSE LinkedPr(l) IN
    IF u.view # "overlay" \/ ~ Loaded(c, k) THEN u
    ELSE IF u.kind = "ci" THEN SyncedCi(u, l, k[2], c[k].version, c[k].checks)
    ELSE Synced(u, l, SourceOf(c, k))

CloseBrowser ==
    /\ ui.view = "pty"
    /\ ui' = Resynced(Guarded([ui EXCEPT !.view = ui.covered, !.covered = "list"], link), link, cache)
    /\ Closing
    /\ UNCHANGED <<link, cache, merging>>

\* The merge confirmation, for a PR that is loaded.
OpenMerge ==
    /\ ui.view = "list" \/ (ui.view = "overlay" /\ ui.kind # "ci")
    /\ Loaded(cache, LinkedPr(link))
    /\ ui' = [Remembered(ui) EXCEPT !.view = "confirm"]
    /\ UNCHANGED <<link, cache, merging, chosen>>

ConfirmMerge ==
    /\ ui.view = "confirm" /\ ~ merging
    /\ merging' = TRUE
    /\ UNCHANGED <<link, cache, ui, chosen>>

DismissMerge ==
    /\ ui.view = "confirm" /\ ~ merging
    /\ ui' = Restored(ui)
    /\ Closing
    /\ UNCHANGED <<link, cache, merging>>

\* apply_merge_result: a failure leaves the modal up; a success comes back to
\* the rich view, then refreshes like F.
MergeLands ==
    /\ merging
    /\ merging' = FALSE
    /\ \/ UNCHANGED <<link, cache, ui, chosen>>
       \/ /\ \E found \in Prs \cup {Nothing} : link' = [link EXCEPT !.pr = found]
          /\ ui' = Guarded(Restored(ui), link')
          /\ cache' = Refreshed(cache, link')
          /\ Closing

\* What a fetch of k brings.  Of the threads, only whether they are there counts.
Version(k) == IF k[1] = "threads" THEN 1 ELSE cache[k].version + 1

\* A status lands.  A PR lands on the CI list first, then on the rich view; the
\* cache is written last.  Threads land on the view of their PR.
Lands(k) ==
    /\ cache[k].phase = "loading"
    /\ \/ /\ cache' = [cache EXCEPT ![k].phase = "error"]
          /\ UNCHANGED <<ui, chosen>>
       \/ /\ Version(k) <= MaxVersion
          /\ \E checks \in (IF k[1] = "pr" THEN BOOLEAN ELSE {TRUE}) :
               /\ cache' = [cache EXCEPT ![k] = [phase |-> "loaded", version |-> Version(k),
                                                 checks |-> checks]]
               /\ ui' = CASE k[1] = "issue" -> Synced(ui, link, SourceOf(cache', k))
                          [] k[1] = "pr" ->
                               Synced(SyncedCi(ui, link, k[2], cache'[k].version, checks),
                                      link, SourceOf(cache', k))
                          [] OTHER ->
                               IF k[2] = link.pr /\ Loaded(cache, LinkedPr(link))
                               THEN Synced(ui, link, SourceOf(cache, LinkedPr(link))) ELSE ui
          /\ Closing
    /\ UNCHANGED <<link, merging>>

Init ==
    /\ link \in Link
    /\ cache = Asked([k \in Kinds |-> [phase |-> "idle", version |-> 0, checks |-> TRUE]],
                     {LinkedPr(link), LinkedIssue(link)})
    /\ ui = [view |-> "list", covered |-> "list", kind |-> "ci", pin |-> Nothing,
             source |-> NoSource, pinned |-> FALSE, checks |-> 0,
             back |-> NoSource, backPinned |-> FALSE, restored |-> FALSE]
    /\ merging = FALSE
    /\ chosen = "none"

RichRest ==
    /\ link = [issue |-> Nothing, pr |-> Nothing]
    /\ cache = [k \in Kinds |-> [phase |-> "idle", version |-> 0, checks |-> TRUE]]
    /\ ui = [view |-> "list", covered |-> "list", kind |-> "ci", pin |-> Nothing,
             source |-> NoSource, pinned |-> FALSE, checks |-> 0,
             back |-> NoSource, backPinned |-> FALSE, restored |-> FALSE]
    /\ merging = FALSE
    /\ chosen = "none"

Next ==
    \/ Navigate \/ Relist \/ Refresh
    \/ OpenRich \/ OpenCi \/ NextTab \/ CloseOverlay
    \/ OpenBrowser \/ CloseBrowser
    \/ OpenMerge \/ ConfirmMerge \/ DismissMerge \/ MergeLands
    \/ \E k \in Kinds : Lands(k)

Spec == Init /\ [][Next]_vars

-----------------------------------------------------------------------------
\* The overlay describes what the row is linked to: its rows, and the URL that
\* Enter opens, do not outlive the link (close_forge_overlay_if_link_disagrees).
\* A view that comes back from the CI list or the merge is not compared again
\* before the next relist or landing (restore_rich_view).
OverlayAgreesWithLink ==
    (ui.view = "overlay" /\ ~ ui.restored)
       => ui.pin = (IF ui.kind = "issue" THEN link.issue ELSE link.pr)

\* The rich view shows the freshest version of what it shows: a landing is never
\* left in the cache behind an older snapshot (sync_rich_overlay).  A view that
\* comes back is the snapshot that was remembered.
RichIsFreshest ==
    (ui.view = "overlay" /\ ui.kind # "ci" /\ ~ ui.restored) =>
       LET k == <<ui.source.kind, ui.source.number>> IN
       Loaded(cache, k) => ui.source.version = cache[k].version

\* The same of every view, those that come back included.
EveryViewAgrees ==
    ui.view = "overlay" => ui.pin = (IF ui.kind = "issue" THEN link.issue ELSE link.pr)
EveryViewIsFreshest ==
    (ui.view = "overlay" /\ ui.kind # "ci") =>
       LET k == <<ui.source.kind, ui.source.number>> IN
       Loaded(cache, k) => ui.source.version = cache[k].version

\* An issue that only stands in for the linked PR gives way to it (8404-8416).
LinkPrefersPr ==
    (ui.view = "overlay" /\ ui.kind = "issue" /\ ~ ui.pinned)
       => ~ Loaded(cache, LinkedPr(link))

\* The threads of the PR on screen have been asked for (8205-8209).
ThreadsAreAsked ==
    (ui.view = "overlay" /\ ui.kind = "pr") => cache[<<"threads", ui.pin>>].phase # "idle"

\* The CI list is never an empty box.
CiNeverEmpty == (ui.view = "overlay" /\ ui.kind = "ci") => ui.checks # 0

\* What every overlay on screen keeps: it is about the link, and never blank
\* (close_forge_overlay_if_link_disagrees, refresh_ci_overlay_on_pr_landing).
OverlayInv == TypeOK /\ OverlayAgreesWithLink /\ CiNeverEmpty

\* A tab the reader chose stays under them, through the landings, the children
\* and the browser, until they choose the other or leave (#551).
ReaderKeepsTheirTab ==
    (ui.view = "overlay" /\ ui.kind # "ci" /\ chosen # "none") => ui.kind = chosen

\* The reader has the freshest of what they chose (sync_rich_overlay).
ReaderIsServed == RichIsFreshest /\ ReaderKeepsTheirTab

\* A relist that leaves the rich view up leaves its threads in place (#619).
ThreadsOnScreenAreHeld ==
    [][(ui.view = "overlay" /\ ui.kind = "pr" /\ ui'.view = "overlay"
        /\ ui'.source = ui.source /\ Loaded(cache, <<"threads", ui.pin>>) /\ Relist)
          => Loaded(cache', <<"threads", ui.pin>>)]_vars

=============================================================================
