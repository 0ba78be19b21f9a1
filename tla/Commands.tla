-------------------------------- MODULE Commands --------------------------------
(***************************************************************************)
(* The commands of gwm that work on their own: `run` in src/src/cli.rs     *)
(* hands each to one handler, and a process runs one of them.  The modules *)
(* below model the handlers with the processes and the people that work at *)
(* the same time; here one of them is chosen, and the others are at rest.  *)
(* They share no state: what two of them could both touch (branches,       *)
(* directories, .gwm.toml) is moved by "others" in each of them.           *)
(***************************************************************************)
EXTENDS DaemonSocket, Sequences

CONSTANTS
    Windows,            \* the gaps between a check and its use in which others act
    Callers, Configs, Surface, Hooked, NoConfig, MaxEdits,      \* TrustGate
    Creators, NewNames, NoTip, MaxCommit, MaxOthers,               \* Create
    Targets, Copies, MaxCopies, MaxWrites,                      \* Bootstrap
    Repos, Worktrees, Patterns, Within, MaxSlugs, MaxJobs,      \* Fleet
    Dirs, Profiles, DirsOf, Broken, MaxTouch,                   \* Clean
    Hashes, MaxMoves,                                           \* Sync
    Procs, Ids, Paths, Basename, Branches,                      \* Removal
    NoPath, NoRef, NoEntry, NoBranch, MaxClock, MaxEntries,
    MaxWorld,                                                   \* RenameSaga
    Wanted, Hostile, MayDeclare, MayHold, MaxPushes, MaxIntruders,  \* ForgePush
    Remotes, Alias, Known, WebOf, Subfolder, Environments,      \* ForgeRoute
    Kept, Styled, Suffixes, Lines, Present, MaxKeys, MaxWhen, MaxHands  \* Housekeeping

ASSUME GateAssumption ==
    Hooked \subseteq Surface /\ Surface \subseteq Configs /\ NoConfig \notin Configs
ASSUME CopiesAssumption ==
    \A c \in Copies : /\ c.from \in Targets /\ c.to \in Targets
                      /\ DOMAIN c.guards = 1 .. Len(c.guards) /\ Len(c.guards) \in Nat
ASSUME ProfilesAssumption ==
    "default" \in Profiles /\ DirsOf \in [Profiles -> SUBSET Dirs]
ASSUME FleetAssumption ==
    /\ Repos \subseteq Nat \ {0} /\ IsFiniteSet(Repos) /\ IsFiniteSet(Worktrees)
    /\ {MaxSlugs, MaxJobs} \subseteq Nat
ASSUME RemovalAssumption ==
    /\ Basename \in [Paths -> Ids] /\ Paths # {} /\ Ids # {} /\ MaxEntries \in Nat \ {0}
    /\ NoPath \notin Paths /\ NoRef \notin Nat /\ NoBranch \notin Branches \cup {"HEAD", "unreadable"}
    /\ {"HEAD", "unreadable"} \cap Branches = {}
ASSUME CreateAssumption ==
    NoTip \notin Nat /\ NewNames \cap {"main", "base", "none"} = {} /\ NewNames # {}
ASSUME RenameAssumption == \A reached \in SUBSET (0 .. MaxCommit) : NoTip # reached
ASSUME BoundsAssumption ==
    {MaxEdits, MaxCommit, MaxOthers, MaxWrites, MaxTouch, MaxMoves, MaxWorld, MaxClock} \subseteq Nat
ASSUME WindowsAssumption ==
    Windows \subseteq {"edit", "ledger", "checkout", "move", "source", "parent", "removal",
                      "worktree", "answer", "reset", "note", "remote", "purge", "prune", "doctor"}

VARIABLES
    file, ledger, approved, call, edits,
    tip, base, head, disk, stamped, job, commits, others,
    source, there, outside, parent, copies, at, phase, read, writes,
    listed, slugs, planned, wraps, jobs, step, targets, now, next, pool, slots,
    started, results,
    dir, cli, overlay, removing, armedOn, touched,
    mine, upstream, origin, tree, sync, before, moves,
    admin, heads, dirs, tips, journal, proc, clock, oids, worldSteps, fell,
    place, taken, named, local, remote, tracks, note, saga, pushed, made, meanwhile,
    forge, what, declared, held, push, pushes, intruders, ended,
    cloned, key, hosts, trusted, env, backend, called, asks,
    live, keys, entry, merged, noted, setup, duty, report, gone, hands,
    command         \* the command that is run

trustVars == <<file, ledger, approved, call, edits>>
createVars == <<tip, base, head, disk, stamped, job, commits, others>>
bootVars == <<source, there, outside, parent, copies, at, phase, read, writes>>
execVars == <<listed, slugs, planned, wraps, jobs, step, targets, now, next, pool, slots,
              started, results>>
cleanVars == <<dir, cli, overlay, removing, armedOn, touched>>
syncVars == <<mine, upstream, origin, tree, sync, before, moves>>
removeVars == <<admin, heads, dirs, tips, journal, proc, clock, oids, worldSteps, fell>>
renameVars == <<place, taken, named, local, remote, tracks, note, saga, pushed, made, meanwhile>>
pushVars == <<forge, what, declared, held, push, pushes, intruders, ended>>
routeVars == <<cloned, key, hosts, trusted, env, backend, called, asks>>
houseVars == <<live, keys, entry, merged, noted, setup, duty, report, gone, hands>>

Gate == INSTANCE TrustGate
Create == INSTANCE Create WITH Names <- NewNames
Boot == INSTANCE Bootstrap
Exec == INSTANCE Fleet
Clean == INSTANCE Clean
Sync == INSTANCE Sync
Remove == INSTANCE Removal
    WITH head <- heads, disk <- dirs, tip <- tips,
         Drifts <- TRUE, Interleaved <- FALSE, Failures <- TRUE, MaxWorld <- 0, MaxOid <- 0
Rename == INSTANCE RenameSaga
    WITH at <- place, job <- saga, commits <- made, worldSteps <- meanwhile,
         Failures <- TRUE, Lookalikes <- TRUE, LostAnswers <- "answer" \in Windows,
         Rewrites <- "reset" \in Windows, EarlyWriters <- "note" \in Windows
Pushing == INSTANCE ForgePush
    WITH remote <- held, others <- intruders, Names <- Wanted, MaxOthers <- MaxIntruders
Route == INSTANCE ForgeRoute WITH origin <- cloned
ASSUME RouteAssumption ==
    /\ \A h \in DOMAIN Known : Known[h] \in Route!Kinds
    /\ \A r \in Remotes :      \* a web URL is that of its instance, with the folder that it is served from
        /\ r # Route!NoRemote
        /\ Route!IsWeb(r) => r.port \in Nat /\ r.sub = Subfolder[Route!Host(r)]
    /\ \A e \in Environments : e.ci.web # Route!Nowhere =>     \* GitLab publishes both of its hosts
        /\ e.ci.ssh # Route!Unset
        /\ \A r \in Remotes : ~ Route!FromUrl(r) /\ e.ci.ssh = Route!Host(r) => e.ci.web = WebOf[r.host]
ASSUME HouseAssumption ==
    IsFiniteSet(Kept) /\ IsFiniteSet(Suffixes) /\ {MaxHands, MaxWhen} \subseteq Nat
House == INSTANCE Housekeeping
ASSUME LinesAssumption ==       \* what is named is what a shell would run, and no builtin or path
    \A l \in Lines : /\ l.line \in Seq(STRING) /\ House!ShellRuns(l.line, l.runs)
                     /\ l.runs \notin {"cd", "{path}", "./run"}

Handlers == {"trust", "create", "bootstrap", "exec", "clean", "sync", "remove", "rename",
             "push", "forge", "house", "daemon"}

\* The one that is chosen starts, the others have nothing to do,
CommandInit ==
    /\ command \in Handlers
    /\ IF command = "trust" THEN Gate!Init ELSE Gate!Rest
    /\ IF command = "create" THEN Create!Init ELSE Create!Rest
    /\ IF command = "bootstrap" THEN Boot!BootInit ELSE Boot!BootRest
    /\ IF command = "exec" THEN Exec!FleetInit ELSE Exec!FleetRest
    /\ IF command = "clean" THEN Clean!CleanInit ELSE Clean!CleanRest
    /\ IF command = "sync" THEN Sync!SyncInit ELSE Sync!SyncRest
    /\ IF command = "remove" THEN Remove!Init ELSE Remove!Rest
    /\ IF command = "rename" THEN Rename!Init ELSE Rename!Rest
    /\ IF command = "push" THEN Pushing!ForgePushInit ELSE Pushing!ForgePushRest
    /\ IF command = "forge" THEN Route!RouteInit ELSE Route!RouteRest
    /\ IF command = "house" THEN House!HouseInit ELSE House!HouseRest
    /\ Init

\* and nothing to do later.
OnlyIn(this) ==
    /\ command = this /\ UNCHANGED command
    /\ IF this = "trust" THEN TRUE ELSE UNCHANGED trustVars
    /\ IF this = "create" THEN TRUE ELSE UNCHANGED createVars
    /\ IF this = "bootstrap" THEN TRUE ELSE UNCHANGED bootVars
    /\ IF this = "exec" THEN TRUE ELSE UNCHANGED execVars
    /\ IF this = "clean" THEN TRUE ELSE UNCHANGED cleanVars
    /\ IF this = "sync" THEN TRUE ELSE UNCHANGED syncVars
    /\ IF this = "remove" THEN TRUE ELSE UNCHANGED removeVars
    /\ IF this = "rename" THEN TRUE ELSE UNCHANGED renameVars
    /\ IF this = "push" THEN TRUE ELSE UNCHANGED pushVars
    /\ IF this = "forge" THEN TRUE ELSE UNCHANGED routeVars
    /\ IF this = "house" THEN TRUE ELSE UNCHANGED houseVars
    /\ IF this = "daemon" THEN TRUE ELSE UNCHANGED vars

CommandNext ==
    \/ OnlyIn("trust") /\ Gate!Next
    \/ OnlyIn("create") /\ Create!Next
    \/ OnlyIn("bootstrap") /\ Boot!BootNext
    \/ OnlyIn("exec") /\ Exec!FleetNext
    \/ OnlyIn("clean") /\ Clean!CleanNext
    \/ OnlyIn("sync") /\ Sync!SyncNext
    \/ OnlyIn("remove") /\ Remove!Next
    \/ OnlyIn("rename") /\ Rename!Next
    \/ OnlyIn("push") /\ Pushing!ForgePushNext
    \/ OnlyIn("forge") /\ Route!RouteNext
    \/ OnlyIn("house") /\ House!HouseNext
    \/ OnlyIn("daemon") /\ Next

allvars == <<command, trustVars, createVars, bootVars, execVars, cleanVars,
             syncVars, removeVars, renameVars, pushVars, routeVars, houseVars, vars>>

CommandSpec == CommandInit /\ [][CommandNext]_allvars

-----------------------------------------------------------------------------
\* What a configuration asks for runs only when the gate ruled on it and the user
\* waived the gate or approved it, and the ledger holds nothing else (cmd_create,
\* cmd_review, cmd_bootstrap, trust_or_prompt).
GateHolds == command = "trust" => Gate!TypeOK /\ Gate!GateHolds

\* What others made or changed stays: a branch that a failed create or review did
\* not make, or not as it is now; a file, or a link, at the destination of a copy; a
\* directory with something in it that git tracks or would; a key of a branch that is
\* there, a worktree that is in its place or that somebody locked (Unwind,
\* write_no_follow, scan_worktree_safe, purge_orphan_branch_config, prune).
NothingOfOthersIsTaken ==
    /\ Create!RollbackTakesOnlyItsOwn
    /\ Boot!TheirsStays
    /\ Clean!OnlyJunkGoes
    /\ House!HousekeepingSparesTheLiving

\* A guard keeps a file out of the worktree, and a copy stays in it.
GuardedStaysOut == command = "bootstrap" => Boot!BootTypeOK /\ Boot!GuardedStaysOut

\* What is acted on is what was named and confirmed: each target of gwm exec once, all
\* planned before the first, and a slug means one worktree (exec_run, find_fuzzy); the
\* directories of the profile a countdown was armed on (clean_overlay_delete); a
\* worktree by one process (remove_inner).
RightTargets ==
    /\ command = "exec" => Exec!FleetTypeOK /\ Exec!EveryTargetOnce /\ Exec!SlugsMeanOne
    /\ command = "clean" => Clean!CleanTypeOK /\ Clean!RemovesTheArmedProfile
    /\ command = "remove" => Remove!TypeOK /\ Remove!OneRemoverPerWorktree

\* A call reaches the instance of the origin and the project in it, whatever is exported,
\* and an instance that may be called (authorised_kind, repo_selector, gh_env, glab_env).
AsksTheRightForge == command = "forge" => Route!RouteInv

\* github.com is pinned like any other host, as gh_env says it is.
GitHubIsPinned == Route!GitHubIsPinned

\* A push of labels or milestones that went through leaves the forge as declared, and one
\* that is refused has sent nothing (cmd_labels_push, cmd_milestones_push).
PushIsAsDeclared == command = "push" => Pushing!PushInv

\* Doctor's --fix tells what it did and its clean bill of health is one; a `when` means
\* what it says (purge_orphan_branch_config, DoctorReport, evaluate_when).
HousekeepingHolds == command = "house" => House!HousekeepingHolds

\* Nor is anything lost on the way: commits on origin, the prose of a note
\* (rename_worktree, notes::rename).
NothingIsLost == Rename!OriginLosesNothing /\ Rename!ProseIsKept

\* What failed is undone: no checkout is left on a branch that a rollback deleted
\* (worktree::add), a sync that failed leaves the worktree as it was (sync), and a rename
\* is done or undone whole (rename_worktree).
FailureIsUndone ==
    /\ command = "create" => Create!TypeOK /\ Create!NoCheckoutIsStranded
    /\ command = "sync" => Sync!SyncTypeOK /\ Sync!SyncIsWhole
    /\ command = "rename" => Rename!WholeOrNothing
=============================================================================
