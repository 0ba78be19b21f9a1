----------------------------- MODULE MutationFlow -----------------------------
(***************************************************************************)
(* The TUI's mutating operations: which view asks for each, what the       *)
(* confirmation modal holds while it waits, the worker that runs, what its *)
(* result does to the screen, and how a quit waits for all of it           *)
(* (src/src/tui/app.rs, src/src/tui/mod.rs, src/src/tui/state/confirm.rs). *)
(*                                                                         *)
(* No code path invalidates a mutating kind of task, so a mutating run's   *)
(* result is always accepted (AsyncTasks, ClaimsAreExclusive) and a run is *)
(* here simply a member of jobs from its request to its result.  Views     *)
(* that neither ask for a mutation nor lose data when a result replaces    *)
(* them behave as the list does and are folded into it.                    *)
(***************************************************************************)
EXTENDS Naturals, FiniteSets

CONSTANTS
    Worktrees,      \* linked worktrees of the table
    PullRequests,   \* PRs a row may link
    NoPr,           \* no merge is held
    ListMutations,  \* of "sync", "pull", "push": asked for from the list alone
    CountdownSet    \* confirm_countdown_secs is not zero

ASSUME PrAssumption == NoPr \notin PullRequests
ASSUME ListMutationsAssumption == ListMutations \subseteq {"sync", "pull", "push"}
ASSUME CountdownAssumption == CountdownSet \in BOOLEAN

VARIABLES
    view,           \* App::view
    kind,           \* confirm_ctx.kind
    pendingDelete,  \* the batch the delete modal snapshotted
    pendingMerge,   \* the PR the merge modal snapshotted
    armed,          \* the safety countdown is running
    deleteBranch,   \* delete_branch_on_remove
    returnTo,       \* rich.return_to holds a view to come back to
    noteDirty,      \* the note editor holds text not on disk
    listed,         \* rows of the table
    jobs,           \* mutating runs in flight
    quitting,       \* should_quit
    exit            \* "no", "quit" or "error": how run_app returned

modal == <<kind, pendingDelete, pendingMerge, armed, returnTo>>
loop == <<quitting, exit>>
vars == <<view, modal, deleteBranch, noteDirty, listed, jobs, loop>>

Views == {"list", "rich", "note", "create", "edit", "confirm", "report"}
Kinds == {"create", "delete", "merge", "bootstrap", "edit"} \cup ListMutations
Job == [kind : Kinds, targets : SUBSET Worktrees, pr : PullRequests \cup {NoPr}]
InFlight == {j.kind : j \in jobs}

TypeOK ==
    /\ view \in Views
    /\ kind \in {"delete", "merge"}
    /\ pendingDelete \subseteq Worktrees
    /\ pendingMerge \in PullRequests \cup {NoPr}
    /\ armed \in BOOLEAN /\ deleteBranch \in BOOLEAN
    /\ returnTo \in BOOLEAN /\ noteDirty \in BOOLEAN
    /\ listed \subseteq Worktrees
    /\ jobs \subseteq Job
    /\ quitting \in BOOLEAN /\ exit \in {"no", "quit", "error"}

Init ==
    /\ view = "list"
    /\ kind = "delete" /\ pendingDelete = {} /\ pendingMerge = NoPr
    /\ armed = FALSE /\ returnTo = FALSE
    /\ deleteBranch \in BOOLEAN
    /\ noteDirty = FALSE
    /\ listed = Worktrees
    /\ jobs = {}
    /\ quitting = FALSE /\ exit = "no"

-----------------------------------------------------------------------------
\* The loop checks for a quit after it drained the channel and before it ticks
\* the countdown or reads a key.

\* Slip: the loop breaks as soon as it is asked to.
CanAlwaysQuit == quitting

\* Slip: a modal left open holds the quit back.
CanQuitOutsideTheModal == quitting /\ InFlight = {} /\ view # "confirm"

CanQuitNow == quitting /\ InFlight = {}
Looping == exit = "no" /\ ~ CanQuitNow
Key == Looping /\ ~ quitting        \* keys are dropped while a quit is pending

Worker(k, T, p) == [kind |-> k, targets |-> T, pr |-> p]

\* Slip: the forms and the list shortcuts do not look for another mutation.
IdleUnlessSame(k) == k \notin InFlight

\* has_mutating_task_in_flight, then request: a mutation starts alone.
MayStart(k) == InFlight = {}

-----------------------------------------------------------------------------
\* Opening and leaving the views.
OpenDelete ==
    /\ Key /\ view = "list"
    /\ \E T \in SUBSET listed \ {{}} : pendingDelete' = T
    /\ view' = "confirm" /\ armed' = FALSE
    /\ UNCHANGED <<kind, pendingMerge, returnTo, deleteBranch, noteDirty, listed, jobs, loop>>

OpenMerge ==
    /\ Key /\ view \in {"list", "rich"}
    /\ pendingMerge' \in PullRequests
    /\ returnTo' = (view = "rich")
    /\ kind' = "merge"
    /\ view' = "confirm" /\ armed' = FALSE
    /\ UNCHANGED <<pendingDelete, deleteBranch, noteDirty, listed, jobs, loop>>

\* Views of the list that only change what is on screen.
OpenView(v) ==
    /\ Key /\ view = "list" /\ v \in {"rich", "create", "edit"}
    /\ view' = v
    /\ UNCHANGED <<modal, deleteBranch, noteDirty, listed, jobs, loop>>

\* A fresh editor over what is on disk.
OpenNote ==
    /\ Key /\ view = "list"
    /\ view' = "note" /\ noteDirty' = FALSE
    /\ UNCHANGED <<modal, deleteBranch, listed, jobs, loop>>

TypeNote ==
    /\ Key /\ view = "note"
    /\ noteDirty' = TRUE
    /\ UNCHANGED <<view, modal, deleteBranch, listed, jobs, loop>>

\* Closing the editor flushes it.
CloseNote ==
    /\ Key /\ view = "note"
    /\ view' = "list" /\ noteDirty' = FALSE
    /\ UNCHANGED <<modal, deleteBranch, listed, jobs, loop>>

\* close_detail_overlay goes through restore_rich_view.
CloseRich ==
    /\ Key /\ view = "rich"
    /\ view' = IF returnTo THEN "rich" ELSE "list"
    /\ returnTo' = FALSE
    /\ UNCHANGED <<kind, pendingDelete, pendingMerge, armed, deleteBranch, noteDirty, listed, jobs, loop>>

\* Slip: Esc closes a form whose worker is still running.
AlwaysMayCancelForm(k) == TRUE

\* The forms swallow every key while their own worker runs.
MayCancelForm(k) == k \notin InFlight
CancelForm(k) ==
    /\ Key /\ k \in {"create", "edit"} /\ view = k
    /\ MayCancelForm(k)
    /\ view' = "list"
    /\ UNCHANGED <<modal, deleteBranch, noteDirty, listed, jobs, loop>>

\* The report closes on a synchronous re-list, whose error leaves run_app.
CloseReport ==
    /\ Key /\ view = "report"
    /\ view' = "list"
    /\ exit' \in {"no", "error"}
    /\ UNCHANGED <<modal, deleteBranch, noteDirty, listed, jobs, quitting>>

-----------------------------------------------------------------------------
\* Requests from the forms and from the list.
SubmitForm(k) ==
    /\ Key /\ k \in {"create", "edit"} /\ view = k
    /\ MayStart(k)
    /\ jobs' = jobs \cup {Worker(k, {}, NoPr)}
    /\ UNCHANGED <<view, modal, deleteBranch, noteDirty, listed, loop>>

RequestFromList(k) ==
    /\ Key /\ k \in {"bootstrap"} \cup ListMutations /\ view = "list"
    /\ MayStart(k)
    /\ jobs' = jobs \cup {Worker(k, {}, NoPr)}
    /\ UNCHANGED <<view, modal, deleteBranch, noteDirty, listed, loop>>

-----------------------------------------------------------------------------
\* The confirmation modal.
CountdownTotal == deleteBranch /\ CountdownSet      \* not zero

\* Slip: the batch is deleted next to whatever else is running.
ConfirmDeleteAnyway ==
    IF pendingDelete = {} \/ "delete" \in InFlight THEN jobs
    ELSE jobs \cup {Worker("delete", pendingDelete, NoPr)}

\* confirm_delete: what it makes of the set of runs.
ConfirmDelete ==
    IF pendingDelete = {} \/ ~ MayStart("delete") THEN jobs
    ELSE jobs \cup {Worker("delete", pendingDelete, NoPr)}

\* confirm_merge: it asks for its own slot only.
ConfirmMerge ==
    IF pendingMerge = NoPr \/ "merge" \in InFlight THEN jobs
    ELSE jobs \cup {Worker("merge", {}, pendingMerge)}

\* The modal is inert while a delete or a merge runs.
Answers == {"delete", "merge"} \cap InFlight = {}

\* confirm_fire with no countdown: routed on what the modal is about.
FireNow ==
    /\ Key /\ view = "confirm" /\ Answers /\ ~ CountdownTotal
    /\ jobs' = IF kind = "delete" THEN ConfirmDelete ELSE ConfirmMerge
    /\ armed' = FALSE
    /\ UNCHANGED <<view, kind, pendingDelete, pendingMerge, returnTo, deleteBranch, noteDirty, listed, loop>>

\* confirm_fire with a countdown arms it, and a second press disarms it.
Arm ==
    /\ Key /\ view = "confirm" /\ Answers /\ CountdownTotal
    /\ armed' = ~ armed
    /\ UNCHANGED <<view, kind, pendingDelete, pendingMerge, returnTo, deleteBranch, noteDirty, listed, jobs, loop>>

\* The tick of the loop.  The countdown is gone once its total is zero.
CountdownLapses ==
    /\ Looping /\ view = "confirm" /\ armed /\ ~ CountdownTotal
    /\ armed' = FALSE
    /\ UNCHANGED <<view, kind, pendingDelete, pendingMerge, returnTo, deleteBranch, noteDirty, listed, jobs, loop>>

CountdownElapses ==
    /\ Looping /\ view = "confirm" /\ armed /\ CountdownTotal
    /\ jobs' = ConfirmDelete
    /\ armed' = FALSE
    /\ UNCHANGED <<view, kind, pendingDelete, pendingMerge, returnTo, deleteBranch, noteDirty, listed, loop>>

\* cycle_merge_method: another method owes another moment of friction.
CycleMethod ==
    /\ Key /\ view = "confirm" /\ Answers
    /\ kind = "merge" /\ pendingMerge # NoPr
    /\ armed' = FALSE
    /\ UNCHANGED <<view, kind, pendingDelete, pendingMerge, returnTo, deleteBranch, noteDirty, listed, jobs, loop>>

ToggleDeleteBranch ==
    /\ Key
    /\ view = "list" \/ (view = "confirm" /\ Answers)
    /\ deleteBranch' = ~ deleteBranch
    /\ UNCHANGED <<view, modal, noteDirty, listed, jobs, loop>>

Dismiss ==
    /\ Key /\ view = "confirm" /\ Answers
    /\ armed' = FALSE /\ pendingDelete' = {} /\ pendingMerge' = NoPr
    /\ kind' = "delete"
    /\ view' = IF returnTo THEN "rich" ELSE "list"
    /\ returnTo' = FALSE
    /\ UNCHANGED <<deleteBranch, noteDirty, listed, jobs, loop>>

-----------------------------------------------------------------------------
\* Results, as drain_task_results applies them.
LandCreate(ok) ==
    /\ view' = IF ok THEN "report" ELSE "create"
    /\ UNCHANGED <<modal, listed>>

LandBootstrap(ok) ==
    /\ view' = IF ok THEN "report" ELSE view
    /\ UNCHANGED <<modal, listed>>

LandEdit(ok) ==
    /\ view' = IF ok THEN "list" ELSE view
    /\ UNCHANGED <<modal, listed>>

\* What could not be removed stays in the modal for a retry, its row gone from
\* the table when the admin entry was pruned before the directory refused.  A
\* re-list that fails leaves the table as it was.
LandDelete(targets, failed) ==
    /\ \/ \E pruned \in SUBSET failed : listed' = listed \ ((targets \ failed) \cup pruned)
       \/ UNCHANGED listed
    /\ IF failed = {}
         THEN /\ view' = "list" /\ armed' = FALSE /\ pendingDelete' = {}
         ELSE /\ view' = "confirm" /\ pendingDelete' = pendingDelete \cap failed
              /\ armed' = armed
    /\ UNCHANGED <<kind, pendingMerge, returnTo>>

LandMerge(ok) ==
    /\ IF ok
         THEN /\ pendingMerge' = NoPr /\ kind' = "delete"
              /\ view' = IF returnTo THEN "rich" ELSE "list"
              /\ returnTo' = FALSE
         ELSE UNCHANGED <<pendingMerge, kind, view, returnTo>>
    /\ UNCHANGED <<pendingDelete, armed, listed>>

Land(j) ==
    /\ Looping
    /\ jobs' = jobs \ {j}
    /\ \/ j.kind = "create" /\ \E ok \in BOOLEAN : LandCreate(ok)
       \/ j.kind = "bootstrap" /\ \E ok \in BOOLEAN : LandBootstrap(ok)
       \/ j.kind = "edit" /\ \E ok \in BOOLEAN : LandEdit(ok)
       \/ j.kind = "delete" /\ \E failed \in SUBSET j.targets : LandDelete(j.targets, failed)
       \/ j.kind = "merge" /\ \E ok \in BOOLEAN : LandMerge(ok)
       \/ j.kind \in ListMutations /\ UNCHANGED <<view, modal, listed>>
    /\ UNCHANGED <<deleteBranch, noteDirty, loop>>

-----------------------------------------------------------------------------
\* Quitting.
AskQuit ==
    /\ Key
    /\ quitting' = TRUE
    /\ UNCHANGED <<view, modal, deleteBranch, noteDirty, listed, jobs, exit>>

Leave ==
    /\ exit = "no" /\ CanQuitNow
    /\ exit' = "quit"
    /\ UNCHANGED <<view, modal, deleteBranch, noteDirty, listed, jobs, quitting>>

Next ==
    \/ OpenDelete \/ OpenMerge \/ OpenNote \/ TypeNote \/ CloseNote
    \/ CloseRich \/ CloseReport
    \/ \E v \in Views : OpenView(v)
    \/ \E k \in Kinds : CancelForm(k) \/ SubmitForm(k) \/ RequestFromList(k)
    \/ FireNow \/ Arm \/ CountdownLapses \/ CountdownElapses
    \/ CycleMethod \/ ToggleDeleteBranch \/ Dismiss
    \/ \E j \in jobs : Land(j)
    \/ AskQuit \/ Leave

Spec == Init /\ [][Next]_vars

\* Workers end and the loop drains and checks on every tick.
FairSpec == Spec /\ WF_vars(\E j \in jobs : Land(j)) /\ WF_vars(Leave)

-----------------------------------------------------------------------------
\* A delete, a creation and a rename hold the view that asked for them until
\* their result lands, so no result ever takes the screen from another view.
ModalHoldsItsMutation ==
    /\ "delete" \in InFlight => view = "confirm"
    /\ "create" \in InFlight => view = "create"
    /\ "edit" \in InFlight => view = "edit"

\* While a batch is being removed the modal still lists exactly that batch:
\* the result narrows it to what failed, which is what a retry then removes.
DeleteBatchIsHeld ==
    \A j \in jobs : j.kind = "delete" => pendingDelete = j.targets /\ j.targets # {}

\* Apart from a merge, mutations of the repository never overlap.
OneMutationBesidesMerge ==
    \A i, j \in jobs : (i.kind # "merge" /\ j.kind # "merge") => i = j

\* The modal, its batch and the runs it started belong together until they land,
\* and one mutation runs at a time beside a merge (confirm_fire, drain_task_results,
\* has_mutating_task_in_flight).
ModalInv ==
    TypeOK /\ ModalHoldsItsMutation /\ DeleteBatchIsHeld /\ OneMutationBesidesMerge

\* Once a quit is pending the set of runs only shrinks: neither a countdown
\* nor a result starts one more.
NothingStartsWhileQuitting == [][quitting => jobs' \subseteq jobs]_vars

\* A quit never abandons a mutating worker (can_quit_now, app.rs 2236-2241).
QuitAbandonsNothing == exit = "quit" => jobs = {}

\* A quit waits for what runs, all of it and nothing more (can_quit_now).
QuitIsClean == NothingStartsWhileQuitting /\ []QuitAbandonsNothing

\* A quit that waits for a worker happens.
QuitHappens == quitting ~> exit # "no"

-----------------------------------------------------------------------------
\* What comments and tests of the repository say of the modal, and the code
\* does not do; each has a run of its own.

\* "Routed on what the modal is actually about" (mod.rs 304): the countdown
\* fires the operation the modal shows.
CountdownFiresTheModal ==
    [][CountdownElapses => \A j \in jobs' \ jobs : j.kind = kind]_vars

\* A merge "must not run while another mutation does" (async_task.rs 96-99).
MergeRunsAlone == "merge" \in InFlight => InFlight = {"merge"}

\* "the next confirmation is a delete until something says otherwise" (the
\* test of a dismissed merge, tui_app_tests.rs): the delete key opens a delete.
DeleteKeyOpensADelete == [][OpenDelete => kind' = "delete"]_vars

\* pending_delete is "Empty outside the overlay" (app.rs 6970).
BatchOnlyInOverlay == pendingDelete # {} => view = "confirm"

\* An unsaved note is never out of reach (ui.rs 192-199).
NoteStaysInReach == noteDirty => view = "note"

=============================================================================
