# gwm, verified

`gwm` is a Rust program (`src/src/`) that manages git worktrees: a command line, a
terminal interface (TUI) on top of the same functions, and a small daemon that answers
editors and status lines. This directory holds TLA+ models of the parts of it where the
order of events matters, the TLC runs that check them on small instances, and TLAPS
proofs of what holds for every instance.

Conventions. Every definition that stands for code is listed with its lines in
`PROJECT.json` under `map`. Names are the code's where TLA+ allows it. A definition whose comment begins
with *Slip:* is not part of any specification: it is a plausible mistake in
the definition that follows it, and each checked property is known to fail when one of
these mistakes takes the definition's place. Variables
called history (in the comment that declares them) are never read by a guard of the program; they exist so that a property can
speak of the past. A Boolean constant (`Drifts`, `OneAtATime`, `Leaves`) and the set `Windows`, of gaps
between a check and its use, say how hostile
an environment a run includes; where the code's promise fails in the more hostile
one, the run excludes it, and section 3 says which setting shows the failure.

## 1. The system

### 1.1 Inventory

Each part with the state it keeps, what changes that state, whom it talks to, what is
hard about it, and what makes it correct. Parts marked (-) are not modelled; section 7 says why.

**Background task spine** (`tui/state/async_task.rs`, the request and drain functions of
`tui/app.rs`). *State*: a generation per kind of task, the set of kinds in flight, one mpsc channel.
*Operations*: `request`, `complete`, `invalidate`, `invalidate_matching`; a detached thread per
claimed run; `drain_task_results` once per tick. *Talks to*: everything slow in the TUI goes
through it. *Hard*: results arrive in any order and after the event that made them obsolete;
a worker is never cancelled. *Correct when*: one run per claim, a loader that spins has a run that
will stop it, and no view is ever replaced by an older one.

**TUI mutations, confirmation modal and quit** (`tui/app.rs`, `tui/mod.rs`, `tui/state/confirm.rs`).
*State*: the view, the confirmation context (what it is about, the countdown), the batch of worktrees
marked for deletion, the mutating jobs in flight, the pending quit. *Operations*: create, delete,
merge, rename, sync, pull, push, bootstrap; arm, confirm, dismiss; `q`. *Talks to*: the spine,
removal, the forge. *Hard*: a result of one operation lands on top of another one's modal; the
countdown fires without a key; quitting has to wait for a job that can open a report. *Correct when*:
what is confirmed is what was shown, one mutation runs at a time, no job is abandoned by a quit.

**Removal and undo** (`removal.rs`, `worktree.rs`, `history.rs`, `cmd_remove` and `cmd_undo` in `cli.rs`).
*State*: git's worktree admin entries, directories, branches, and the journal file of the
repository. *Operations*: look up, verify, `pre_remove` hook, verify the handle, prune, delete the directory, record, delete the branch,
`post_remove`; undo: load, rebuild the branch at the recorded tip, add the worktree, drop the entry. *Talks to*: git (through libgit2),
hooks, several gwm processes through one file without a lock. *Hard*: everything may move between two
calls, the hook included; the record precedes the deletion of the branch. *Correct when*: only the
confirmed directory falls, a deleted branch can be recovered, an entry stands for something that fell.

**Branch links and their guards** (`github.rs`, `forge.rs`, `cli.rs`). *State*: issue, PR and title
keys of each branch in git's configuration, the origin stamp that says for which remote
they were written, the marker of the backend (GitHub or GitLab). *Operations*: link, unlink, open a
PR, review, persist what a fetch found, reconcile. *Hard*: the remote and the backend change between
a write and a read; a command is several configuration writes, any of which can be the last; fetches
land late. *Correct when*: a number is served only for the instance it was made for, and a valid link is never lost.

**TUI forge status cache** (`tui/state/github_fetch.rs`, `tui/app.rs`). *State*: a status per issue, PR
and thread list, the epoch of the last flush, the claims of the spine. *Operations*: prefetch on each relist, refresh,
open a verb, ask for the create form, land. *Hard*: an answer of the remote that was; a key that is
asked for while it is in flight; a form that waits for an answer somebody else asked for. *Correct
when*: cache and spine agree on what is in flight, no answer of another instance is shown, and a loader ends.

**TUI forge overlays** (`tui/app.rs`, `tui/state/rich_view.rs`). *State*: which number and version the rich
view, the CI list, the merge modal and the browser show; the chosen tab; the threads; what to
return to. *Operations*: open, close, land, relist, tab, refresh. *Hard*: each overlay has its own
snapshot of a cache and a link that move under it, and several ways back. *Correct when*: what is shown is
what the row is linked to, in the freshest version, on the tab the reader chose.

**Worktree rename** (`rename_worktree` in `worktree.rs`, `rename` in `notes.rs`, `tui/app.rs`). *State*: a
directory, a local branch, a branch on origin, a note. *Operations*: eight git commands and a file move,
with an undo for each. *Hard*: the commands are not one transaction; others push, commit and write in
between; the answer of a push can be lost. *Correct when*: it is done or undone whole, and nothing on origin or in a note is lost.

**Daemon** (`daemon.rs`). *State*: a counter of slots, a thread per connection, a shutdown flag, what a
subscriber was last told. *Operations*: accept or refuse, read a line in parts, answer, subscribe, scan and push,
time out, shut down. *Talks to*: clients over a Unix socket. *Hard*: clients that stall,
dribble or leave; scans that fail; a cap that must neither leak nor be exceeded. *Correct when*: slots are counted exactly,
requests are answered in order, a subscriber that reads catches up.

**Daemon socket file** (`daemon.rs`, `cli.rs`). *State*: the file at the socket path. *Operations*: probe, unlink a stale
one, bind, clean up, be killed. *Hard*: probe, unlink and bind are three calls of processes that do not
know of each other. *Correct when*: whoever serves is whoever is reached.

**Trust gate and lifecycle hooks** (`trust.rs`, `lifecycle.rs`, `cli.rs`, `tui/app.rs`). *State*: a ledger file of trusted
configurations, shared by all processes. *Operations*: rule on a configuration, prompt, record, revoke; run the phases, fail-fast. *Hard*: the configuration
that is ruled on is read a second time, and people edit it. *Correct when*: nothing runs that was not trusted.

**Creation and review** (`worktree.rs`, `review.rs`, `cmd_create` in `cli.rs`). *State*: branches, worktrees, HEADs. *Operations*: check, make the branch,
add the worktree, take the branch back. *Hard*: others commit on, check out, move and delete the branch between two calls. *Correct when*: a rollback takes back only what the call made.

**Bootstrap** (`bootstrap.rs`). *State*: files of the main checkout and of the worktree. *Operations*: remove links, copy behind guards, fall back to an example or
an inline text. *Hard*: links that lead out of the worktree, secrets. *Correct when*: nothing is replaced, and what a guard keeps out stays out.

**Exec and workspace** (`exec.rs`, `workspace.rs`). *Operations*: match slugs over repositories, plan everything, run from a pool of threads. *Correct
when*: each target runs once, and none runs if one cannot be planned.

**Clean** (`clean.rs`, `tui/state/clean_overlay.rs`). *Operations*: scan, look again, delete; the TUI's profiles and countdown. *Hard*: what was junk when scanned need not be when deleted.
*Correct when*: only what git ignores and does not track goes.

**Sync** (`sync.rs`). Fetch, count, rebase or merge, abort. *Hard*: an editor at work in the worktree. *Correct when*: one that fails leaves the branch as it was.

**Forge back-ends, labels, milestones** (`forge.rs`, `github.rs`, `gitlab.rs`, `labels.rs`, `milestones.rs`). *State*: the environment, the origin, the hosts the
user approved; what the forge has. *Operations*: pin the instance of a call and name its project; resolve declarations, compare, push call by call. *Hard*: remotes of every shape, variables that
redirect `gh` and `glab`; calls that fail half way. *Correct when*: a call goes where the origin is, and a push leaves what is declared.

**Housekeeping** (`doctor.rs`, prune in `worktree.rs`, purge in `github.rs`, `when` in `bootstrap.rs`). *Operations*: check, fix, prune, purge, evaluate an expression. *Hard*: planned on one
look and done on another. *Correct when*: what lives is spared, what is told is what went, and the exit code is of what remains.

**Worktree list of the TUI** (`tui/app.rs`, `tui/state/filter.rs`). *State*: rows, filter, folds, marks, the selected row, the active repository. *Hard*: a refresh replaces the rows under
marks and views that were made on the old ones. *Correct when*: an action is on the rows that were drawn, in their repository.

**Configuration and Settings** (`config.rs`, `config_cli.rs`, `tui/app.rs`, the two keymaps). *State*: two files of every repository, and the merged configuration of the TUI. *Operations*: load, set, unset, cycle, capture, roll back; edits by hand.
*Hard*: a write that makes a file that does not load; repositories with different files. *Correct when*: what is in force is what the files say, and a rebinding is live or undone.

**Agent sessions** (`agent_sessions.rs`, `tui/state/agents.rs`, `json_api.rs`). *State*: session files of other programs, pins, the TUI's rows and its runs, the daemon's cache. *Hard*: worktrees are removed and
made again at the same path; slugs of paths are ambiguous. *Correct when*: a session is shown where it ran or was pinned.

**Naming and the create form** (`naming.rs`, `tui/state/create_form.rs`). Patterns write names and read them back; a form edits them. *Hard*: what one pattern writes another reads
otherwise. *Correct when*: what was written is read back, and a rename changes what was edited only.

**Notes and note editor** (`notes.rs`, `tui/state/note_editor.rs`). *State*: a file per branch, a buffer, a mode, marks. *Hard*: `$EDITOR` and others write the file; names that differ in case share it. *Correct
when*: what was typed is in the note of its branch, or was thrown away on request.

**Multiplexers, launcher, PTY** (`multiplexer.rs`, `launcher.rs`, `tui/state/pty_overlay.rs`). *State*: child processes, containers, temporary files. *Hard*: a child that ends by itself, leaves
others behind, or fails to start. *Correct when*: what runs in the overlay goes with it, in the row it was asked for.

**Commit listing** (`tui/views/commits.rs`, `tui/commit_graph.rs`, `worktree.rs`). *State*: rows, columns, the tip they were read at, a memo, lanes of the graph. *Hard*: two reads land while the overlay is closed, opened
elsewhere, paged and refreshed. *Correct when*: the rows are the log of the tip, with their own columns, and the graph joins each commit to its parents.

**Keys, clicks and hints** (`tui/mod.rs`, `tui/keymap.rs`, `tui/modal_keymap.rs`, `tui/mouse.rs`, `tui/palette.rs`, the hints of `tui/ui.rs`). *State*: the view and its mode, a pending chord, both keymaps. *Hard*: every view
looks a key up in an order of its own, users rebind all of it, and the screen names what it believes a key does. *Correct when*: a key does what the screen says it does.

Not modelled (-): **aliases**, **JSON contract**, **rendering**, **command log and clipboard**.

### 1.2 How the parts interact

```
   keys, ticks                                     gwm remove / undo / link / rename ...
       |                                                        |
     Screens --opens--> MutationFlow --confirm--> (worker) ---> Removal, Commands
       |                        |                               |
   Overlays <--snapshot-- FetchCache/ForgeStatus           git, journal file, notes,
       |                        |                          ledger, configuration files
       +----- AsyncTasks (requests, workers, channel, drain) ---+--> LinkStore (git config)
                                                                 \
   editors, status lines <--- Daemon, DaemonSocket <--- list ----+

   Commands = TrustGate | Create | Bootstrap | Fleet | Clean | Sync | ForgePush | ForgeRoute
              | RenameSaga | Housekeeping | DaemonSocket | Removal (two processes)
   Screens  = WorktreeList | Settings | AgentSessions | CreateForm | Input
   Overlays = RichView | NoteEditor | Panes | CommitLog
```

The TUI's event loop is one thread: a key or a tick is one step. What makes it concurrent are the worker threads,
which see the world at a moment of their own and answer through one channel, and the other
processes: other gwm commands, the user's shell, hooks, the forge, the daemon's clients. Composition in the
modules follows this:

* `TaskRunner` (the table of generations as a pure value) is used by `AsyncTasks` (the loop, workers and channel) and by
  `FetchCache` (the cache that has to move together with it), which `ForgeStatus` turns into a system.
* `FreshView` is the abstract specification of `AsyncTasks`: `View == INSTANCE FreshView WITH ...` in `AsyncTasks`, with
  `ImplementsFreshView` as a property of the run and theorem `Refinement` for every instance.
* `MutationFlow` takes from `AsyncTasks` that a mutating run, which nobody invalidates, lands exactly once
  (theorem `ClaimsAreExclusive`), and so keeps only the set of jobs. `RichView`, `CommitLog` and `AgentSessions` likewise take the cache and the spine for granted.
* `Commands`, `Screens` and `Overlays` instance one module per command, screen or overlay. One of them is at work in a behaviour and the others rest: in the program one handler runs in a process, and
  one view has the keys. They share no variable. What a second command, process or person does to the same branches, directories and files while one is at work is an action of that
  module itself, called others', the world's or by hand, so that the interleavings that matter are inside each part.

## 2. Modules

### 2.1 TaskRunner, AsyncTasks, FreshView

`TaskRunner` gives `TaskRunner`'s methods as functions from a runner to a runner. `AsyncTasks` has as state the
`runner`, the detached `workers` with the version each has read (or not yet), the `channel`, what is `shown` of each kind, and
two more variables: `world`, the version of what workers read, and `floor`, its version when the kind
was last invalidated. Its actions are a request (claim and spawn, or coalesce), the read and the send
of a worker, the drain of one message (dropped when its generation is not the current claim), the invalidation of one kind or of a family, and the world
moving. `FreshView` says the same with no machinery: each kind has a version shown and a floor, and may only
move to something at least as new as both. The mapping takes the floor and the shown version as they are.

### 2.2 MutationFlow

One record-free state: `view`, the confirmation context, `pending_delete`, `jobs`, `quitting` and so on; an action per key in each view that can ask for a
mutation, one per `handle_*_result`, the tick of the countdown, and leaving. A result that opens a report
replaces whatever view is up, exactly as `handle_bootstrap_result` does: most of the findings come from there. Views that neither ask for a mutation nor
lose anything when replaced are folded into the list.

### 2.3 Removal

Per process a program counter and its locals (what it resolved, what it committed to, the entry it
will write), over the shared `admin` entries and `head`s of git, the `disk`, the branches' `tip`s and the `journal`. A step is one libgit2 or filesystem call;
between any two, every other process and, where the run includes it, the world may act. The journal's functions (append under the cap, the entry an undo takes) are operators on its value; `record` is load,
append, save as separate steps, since nothing locks the file. An undo follows `cmd_undo` through its early returns. `Drifts` says whether what the TUI's delete worker
finds when it looks its target up again may be elsewhere by then. Failures of each call are alternatives of the step.

### 2.4 LinkStore

Each command of the code is translated to the *stages of configuration writes* it performs from
the present state: reconcile (`Upto` of a purge), adoption, stamp (`Stamped`), its own writes. A stage that fails stops there. What follows depends on the code: a stage whose error
is dropped, as that of `stamp_link_origin` is, lets the command go on, and the number is then written under the stamp of before; the others end it. A command that is killed is one whose every later write fails.
Stored items carry the instance they came from as a history. `reconcile_link_forge` is part of every command that resolves a forge, for the branch
at HEAD of the handle the code gives it, which is not always the branch written: an item is `marked` (history) when the branch it is
stored on carried the marker of the backend in force, and `stamped` (history) when its stamp was that of the remote in force. The two run properties speak of items that are marked and stamped; `ServesNoStranger` drops the
first's condition on the stamp, `EveryLinkIsKept` the second's on the marker, and both fail (section 3).

### 2.5 FetchCache, ForgeStatus; RichView (in Overlays)

`FetchCache` is one record of cache, runner and flights, with the methods of `GitHubFetch` and the spawn helpers as functions on it. `ForgeStatus`
composes those functions into the handlers that call them: relist with its prefetch, navigation, `r`, the verbs, the form, landings that succeed or fail, the remote that
moves. `RichView` has the overlay state as a record and the functions that change it; its actions are keys, landings, relists and returns. A view that came back from a child is `restored` (history) until the next landing or relist compares it
with the link again; `OverlayAgreesWithLink` and `RichIsFreshest` speak of the others, `EveryViewAgrees` and `EveryViewIsFreshest` of all, and these fail.

### 2.6 RenameSaga (in Commands)

The saga as a program counter (`job`) over where the directory is (`at`), what the branch is called (`named`), the branches on origin (`remote`) and the notes (`note`), a step per git command, with the rollback of each. A command of the rollback may fail for any reason, as its result is dropped; what git was `unable` to put back (history) stays. A tip is the
*set of commits it reaches*, so "contains" is set inclusion and losing a commit is visible. Others act between steps.

### 2.7 Daemon; DaemonSocket (in Commands)

`Daemon` has per client the two ends of its socket (bounded by `OutCap`, so that a client which does not read blocks its thread), the thread's position and
what it last pushed, the counter, the flag, and the repository as rows and notes. `DaemonSocket` has the file, its owner, and each
process's position between probe, unlink, bind, serve and exit. It takes from the code that `remove_file` of an existing file succeeds, which the permission on the directory gives.

### 2.8 Commands: TrustGate, Create, Bootstrap, Fleet, Clean, Sync, ForgePush, ForgeRoute, Housekeeping

Each part has a program counter per process and the locals that the code carries from one call to the next, so that what was looked at and what
is acted on are two pieces of state; a step is one call of git, of the file system or of the forge.

* `TrustGate`: the configuration loaded, the one read again by the gate, the ledger as loaded and as on disk, and what has run. Callers differ in whether they prompt.
* `Create`: the reference, HEADs and worktrees that `worktree::add`, `materialize` and the TUI's create see, and the two rollbacks, which differ: the one of `add` compares the tip, the one of a review goes by name.
* `Bootstrap`: the destination, its parent and the source of a copy as the guards, the fallbacks and `write_no_follow` find them. A source is text that a guard allows or denies, or `opaque`: not UTF-8, which no guard can read and the copy can. A name that no guard is defined for ends the list, as in the code. `GuardedStaysOut` speaks of text and of the guards before such a name; `EveryFileIsVetted` and `TypedGuardsCount` of the rest, and these fail.
* `Fleet`: `find_fuzzy` and the selection as functions; the pool as threads that take the next index from one counter.
* `Clean`: a scan, a second look before each deletion, and the overlay with what its countdown was armed on.
* `Sync`: branch, upstream and worktree as sets of commits and a flag of edits; the abort's own result is ignored, so that one that fails (`AbortFails`) leaves the worktree midway (`stuck`, which `FailureIsUndone` exempts and `LeftUsable` does not), and a merge begun over edits may not give them back.
* `ForgePush`: what is declared, resolved and held by the forge; the plan is a set of calls, each a step, creations before updates before prunings and in any order within these, and each forge takes a call in its own terms (a due date with a time of day is refused for GitLab, before any call).
* `ForgeRoute`: a remote as the parts that `parse_remote_url` makes of it; which instance `gh` and `glab` would reach from the environment and arguments gwm gives them is external.
* `Housekeeping`: doctor's checks as functions of the repository and of the configuration, which is a user's layer and the repository's (`Merges`, `Loads`): `check_config_parses` looks at the second alone, and where the two do not load together the doctor goes on with the defaults, whose guards are none. `HealthIsReal` speaks of what the doctor looks at, `GuardReferencesResolve` of what is configured, and fails. Then `--fix`, prune and purge as plans and their deletions, `evaluate_when` on expressions of up to `MaxWhen` tokens against a reference meaning. A command line of `Lines` comes with the program it `runs`; `LinesAssumption` says that it is the one a shell would run (`ShellRuns`: assignments, a wrapper with its flags, and then the program), so that the doctor's `executable_in` is held to that reading and not to a label.

### 2.9 Screens: WorktreeList, Settings, AgentSessions, CreateForm, Input

* `WorktreeList`: a turn of the loop is drain, sync of the repository, draw, tick, event, as in `run_app`; `drawn` (history) is what the user saw when the event came. The sync is the step that a relist between draw and event would get between.
* `Settings`: `Merged` is the two files, `Resolved` the bindings they give or an error, with the order in which the slots of the table are taken; a write is the file rewritten, loaded, and put back when it does not load. `last.sure` (history) is what of the configuration the caches still have as the files say, by which of the saves were done and whether every repository loaded after each; a setting of the user's that is done (`Reloaded`) makes up for earlier ones. `NoConfigIsBroken` and `UserSettingsReachAll` speak of every repository without that history, and fail. Former names of a verb have the slot of the new one.
* `AgentSessions`: `DetectAll` and `DetectWithSessions` are functions of the session files, the worktrees and the pins; the app's run (with the pool the prompt needs, or without) and the daemon's cache each keep what they were computed from.
* `CreateForm`: `Compiles`, `Expand` and `Parse` of a pattern of tokens, with the readings a name has, of which the parser's regular expression takes the greedy one; `Frozen` is `literal_constants`, what a segment that is not written may be taken to be. The form edits segments, of no worktree, an issue or an existing worktree, whose branch (`FreeNames`) may have a spelling that `kebab` changes. `NamesAreKept` lets such a description be rewritten; `UntouchedIsNoRename` does not, and fails.
* `Input`: `Meaning` is the whole of `run_app`'s key handling as a function of the keymaps, the view and the key: text first or verb first, chord or stroke, as each handler has it. `Does` is what it leaves; `Zones` and `Clicked` are the same for the mouse. `Says` is what the
  footer or the hint line names, computed as `hint_specs` and `resolve_with_fields` do, from the keymaps only. `HintsWork` compares the two for every chord the screen names, typed in every way a terminal may send it. What a handler does besides changing the view is in the other modules and left to choice here
  (an action that may be refused leaves the view or does not).

### 2.10 Overlays: RichView, NoteEditor, Panes, CommitLog

* `NoteEditor`: a buffer of lines under the keys of both modes, the file it is of, what the list marks; others write the file between the read and the write, which `Windows` lets in.
* `Panes`: which program is started by what (overlay, pane, window, container), which of its processes are left, and what each way of ending does to them. A review's base is the next of the chain (`Bases`, `NextBase`: upstream, `gwm-base`, `default_base`, `dev`, `main`), of which only the upstream is compared with the branch; commits that git fails to count are none. `PanesHold` speaks of the upstream, `ReviewIsNotSwallowed` of the rest, and fails.
* `CommitLog`: `ParseCommitStats` as a fold over the tokens of git's `-z` output; `NextPipes` with the lanes of the graph, checked row by row on every history of up to `MaxRows` commits; the overlay's `page`, `reads` in flight
  and the memo. The graph and the parser are in the same state machine: each row is a step of `walk`.

## 3. What the runs check

A run that *passes* explores every reachable state of its instance. A run that is a *violation* checks one sentence that a comment, a test
or a document states about the program and shows a behaviour of the code against it.

| run | instance | outcome | properties | what it shows |
|---|---|---|---|---|
| async_tasks | `AsyncTasks` with `MCAsyncTasks.cfg` | pass | `IInv`, `ImplementsFreshView`, `LoaderStops` | The request / worker / channel / drain protocol over two kinds of task, with single and family invalidations: no loader without a run, one run per claim, no view that goes back in time (it implements FreshView), and every loader stops under fair workers and a fair loop. |
| mutation_flow | `MutationFlow` with `MCMutationFlow.cfg` | pass | `ModalInv`, `QuitIsClean`, `QuitHappens` | The TUI's views, its confirmation modal with the safety countdown, the seven mutating operations and the deferred quit, in every interleaving of keys, ticks and results. |
| countdown_target | `MutationFlow` with `CountdownTarget.cfg` | violation | `CountdownFiresTheModal` | With the countdown set and branch deletion on, the tick confirms a delete whatever the modal is about: a merge modal is counted down and then not merged. |
| removal_world | `MCRemoval` with `RemovalWorld.cfg` | pass | `Inv`, `NoPhantomEntry`, `OnlyConfirmedPathsFall`, `DeletedBranchIsTheRecordedOne`, `UndoCanBringBack` | One process, and a world that may move, recreate, discard, check out or commit at every step of a removal or an undo, either of which may fail or be killed: what falls is what was confirmed, what is recorded is what fell, and a deleted branch has its recovery anchor. |
| journal_lost | `MCRemoval` with `JournalLost.cfg` | violation | `AnchorKept` | Two processes record at once, each from its own load of the journal: the entry saved first is gone. |
| link_store | `MCLinkStore` with `LinkStore.cfg` | pass | `LinkInv`, `LinksAreKept` | Every command that reads or writes a branch's links, from the branch's worktree, from the main checkout and from the TUI, while the remote and the backend move, a stage of writes may stop anywhere and the command goes on after it: no number under its marker and stamp is served for an instance it was not made for, and no purge takes a link of here. |
| forge_status | `MCForgeStatus` with `ForgeStatus.cfg` | pass | `CacheInv`, `ShownIsCurrent`, `AnswersArrive` | Relists, navigations, refreshes, verbs and the create form over a remote and links that move: cache and spine stay one, what is shown is of this instance and of this flush, and the form takes its own answer. |
| daemon | `Daemon` with `Daemon.cfg` | pass | `SlotsInv`, `StreamInv`, `RefusedOnlyWhenFull`, `EveryClientGetsOn` | A client that sends every kind of line, stalls, subscribes and leaves, beside one that takes up room, at a daemon with one slot whose scans fail while the repository changes: slots are exact, each request has its one answer in order, each push is news, idle clients lose their slot and a subscriber that reads catches up. |
| commands | `MCCommands` with `Commands.cfg` | pass | `PathInv`, `GateHolds`, `GuardedStaysOut`, `RightTargets`, `FailureIsUndone`, `HousekeepingHolds`, `AsksTheRightForge`, `PushIsAsDeclared`, `NothingOfOthersIsTaken`, `NothingIsLost`, `StartsOrIsRefusedForALiveOne` | Each command in turn, among the processes and the people at work beside it: the gate rules on what runs, a rollback takes its own branch only, a copy neither replaces nor leaks, exec runs once per target, clean takes ignored directories only, a failed sync is undone, a rename is whole, two removals do not share a worktree, a push leaves the forge as declared, a call reaches the instance of the origin, doctor and prune spare what lives, and a daemon is behind its path. |
| screens | `MCScreens` with `Screens.cfg` | pass | `ActsOnWhatIsSeen`, `SettingsHold`, `AgentsAreTheRows`, `NamesAreKept` | Of the TUI's screens the list under filter, folds, marks and refreshes, the Settings panel over two layers and several repositories, the agent sessions with their pins and caches, the form that makes and renames worktrees through the patterns of names, and the keys and clicks of every view under many rebindings: what is done is done to what the screen showed, by the key that it named. |
| github_unpinned | `MCCommands` with `GitHubUnpinned.cfg` | violation | `GitHubIsPinned` | A call for an origin on github.com that an exported GH_HOST takes to another host. |
| overlays | `MCOverlays` with `Overlays.cfg` | pass | `OverlayInv`, `ReaderIsServed`, `PanesHold`, `ThreadsOnScreenAreHeld`, `NoteHolds` | What the TUI draws over its list: the views of a PR and an issue under relists and landings, a note under its editor's keys, $EDITOR and names that differ in case, the programs in the PTY overlay, in panes of three multiplexers and in containers, that end, are closed, or leave others behind, and the commits with their columns and their graph over every small history. |

The properties of `Commands`, `Screens` and `Overlays` are conjunctions over their parts, and so are `IInv`, `Inv`, `ModalInv`, `LinkInv`, `CacheInv`, `SlotsInv`, `StreamInv`, `QuitIsClean`, `LinksAreKept`, `ShownIsCurrent` and `PathInv`: the type invariant
of a module and the named properties that belong together, each stated with its own comment where it is defined.

### Bounds, and why they are enough

Bounds are constants that begin with `Max` or sets given in the `.cfg`; guards name them.

* `AsyncTasks`: two kinds, one invalidated alone and one by predicate as forge fetches are; three generations, so that a run is superseded
  and its successor too while the first still travels; two versions of the world after the first, so that a stale and a
  fresh answer differ. The protocol treats kinds alike and compares generations only for equality.
* `MutationFlow`: two worktrees (a batch can fail in part), two PRs (one merged, one asked for), one
  of the three operations that only the list starts (they share every guard). Nothing is counted; the state space is finite by itself.
* `Removal`, with the world: one process, one id that two directories can claim, two branches, three moves of the world, which is one per window between the two checks
  and the deletion; three readings of the clock, a journal of two entries, so that the third record reaches the cap. In `Commands`, two processes over the same id and no other move (`MaxWorld` is 0 for it).
* `LinkStore`: one branch (links of different branches share nothing but remote and backend) with the main checkout detached or on no branch of interest,
  two origins, two backends; three moves of remote or backend lead away, back, and away again. Of a command each stage may fail at any of its writes.
* `ForgeStatus`: one row, two issues and one PR, two instances, one move of the remote or of a link, and two claims per key (an old flight and a new one).
* `Daemon`: two clients at one slot, one that sends two lines of every kind and one that only takes up room; connections share nothing but the counter, the flag and
  the repository, so what a second talking client could do it does as the change of the repository. Sockets hold one message, so that a full socket is reached at once; the repository changes twice,
  so that a subscriber can miss a state and catch up, or see one come back.
* `Commands`: two edits of a configuration between the reads of the gate (`MaxEdits`), two creators and two moves of others (`MaxOthers`), two commits besides the first, two copies, each of a text or of bytes that are none, under five lists of at most two names of guards (a fallback goes with one way of answering a match, for no copy can meet both), and two writes beside them, two repositories with a worktree that
  is called the same, two slugs, two threads, two directories and three profiles of which one does not exist, three commits to sync; two names on the forge of which one is written to by others; remotes of every shape that `parse_remote_url` tells apart, under every environment that `gh_env` and `glab_env` look at; two acts of others during a rename
  (between check and push, and before or after); two configuration keys of an orphan branch, expressions of up to five tokens, one act by hand during housekeeping; three daemons: the one that left the file, and two that race for it.
* `Screens`: four worktrees of two repositories, two of them main, queries of one letter; captures of up to two strokes; three writes, of which a rebinding counts for two and one of two strokes for three, so that a setting comes before or after a rebinding and two settings before a third, and an edit by hand takes the place of one; files that load in one repository and not in another over the same user's; two sessions of two branches at two places; every pattern of up to four tokens of eight and the default one of five, written with eight specifications; texts of up to three characters, two typed keys. `Given` has the usual keymaps and one in which a chord of two strokes is bound, for
  the walk through every view; `Trials` has some 540 rebindings of one verb or action each, on every kind of key, in every view where the screen names it: what the screen says depends on the view and the keymaps alone, so these need no walk.
* `Overlays`: one PR and one issue in two versions (what was remembered and what landed since); names of notes that differ in case, in what a file system allows, or in neither, and two keys; two rows, two starts, eight settings of multiplexer, container and pager; pages of one commit up to two, one remembered log, one move of a branch, three openings, and
  graphs of five rows over six ids with up to two parents, which has every shape of `PipeKind` crossing every other.

### Fairness, and why the code justifies it

* `AsyncTasks!FairSpec`: weak fairness of each worker's read and send (a detached thread the operating system schedules; every
  worker's command ends or times out) and of the drain (the loop drains the channel on every tick, whatever the view).
* `MutationFlow!FairSpec`: weak fairness of *some* job landing, and of the loop leaving once it may. Keys are never fair.
* `ForgeStatus!FairSpec`: weak fairness of the landing of each key in flight.
* `Daemon!FairSpec`: weak fairness of the accept loop and of each thread's own steps (reading what has arrived, its deadline, its scan); strong fairness of a scan's
  success, since scans that fail for ever deliver nothing; weak fairness of taking from the socket for the clients in
  `Readers` only. Clients are never obliged to send, and those outside `Readers` never to read.

### Findings

Three disagreements between the code and what its comments or documents say of it have a run of their own:

* **countdown_target** (`CountdownFiresTheModal`, `src/src/tui/mod.rs:440`). When the safety countdown elapses the loop calls app.confirm_delete() whatever the modal is about; with branch deletion on and a countdown set, an armed merge confirmation elapses into a delete: the pull request is not merged, and a batch that a replaced delete modal left behind is removed. src/src/tui/mod.rs:302 says of the same modal: "Routed on what the modal is actually about (#551)." Only the immediate path is.
* **journal_lost** (`AnchorKept`, `src/src/history.rs:243`). record loads the journal, appends and saves it back without a lock, so two removals at once each write their own snapshot and one entry is lost without a warning. src/docs/3.cli/1.reference.md:523 says: "Every `gwm remove` that actually removes something (with or without `--delete-branch`) appends an entry".
* **github_unpinned** (`GitHubIsPinned`, `src/src/github.rs:2484`). gh_env pins nothing for an SSH origin, and repo_selector (src/src/github.rs:2549) still sends the slug when the host is github.com: with GH_HOST exported, a call for git@github.com:o/r asks that host for a project of the same name. src/src/github.rs:2368 says: "github.com is pinned like any other host, deliberately", and src/src/github.rs:2374: "The host is pinned whenever a slug is known — including github.com, and including a **guessed** (SSH) origin."

The others are properties stated at the end of their modules, or hold only in the less hostile setting that the passing run has. Each is seen to fail by running the named instance
with the change given and that one property in place of those in its `.cfg`:

| property | instance (`.cfg`) and change | the disagreement |
|---|---|---|
| `MergeRunsAlone` | `MutationFlow` | `src/src/tui/app.rs:7176`: confirm_merge requests its own slot and never looks at has_mutating_task_in_flight, so a merge starts while a sync, a pull, a push or a bootstrap runs. src/src/tui/state/async_task.rs:96 says: "A mutating global op like [`Self::DeleteWorktree`]: one merge in flight at a time, and it must not run while another mutation does." |
| `DeleteKeyOpensADelete` | `MutationFlow` | `src/src/tui/app.rs:6977`: enter_confirm_delete never sets confirm_ctx.kind; it relies on the last confirmation having been dismissed or merged. A bootstrap result that lands while a merge modal is up replaces the view and leaves kind = MergePr, and the next delete key opens a modal that is about the merge left behind. src/tests/tui_app_tests.rs:14780 says: "the next confirmation is a delete until something says otherwise". |
| `BatchOnlyInOverlay` | `MutationFlow` | `src/src/tui/app.rs:1983`: A bootstrap result that lands over a delete modal sets view = Report and leaves pending_delete as it was. src/src/tui/app.rs:6970 says of it: "The batch the open confirm overlay is about. Empty outside the overlay." |
| `NoteStaysInReach` | `MutationFlow` | `src/src/tui/app.rs:1983`: A bootstrap result that lands over the note editor sets view = Report without the editor's teardown; the buffer is no longer shown and opening the editor again replaces it by what is on disk. src/src/tui/ui.rs:192 excludes just that ("without going through the editor's teardown, putting an unsaved note out of reach"), and src/src/tui/app.rs:5467 says there is no "quit without saving". |
| `HookRunsWhereConfirmed` | `RemovalWorld`, `Drifts = TRUE` | `src/src/removal.rs:95`: verify_path compares the live path with the confirmed one, while the hook context takes its cwd from found.path, a listing the TUI worker took on its own: a worktree that is elsewhere when it is listed and back when it is verified has its pre_remove hook run at the other path. src/src/removal.rs:90 says of the check that without it "a destructive hook had already executed against a directory the user never confirmed". |
| `PruneIsOfTheConfirmed` | `RemovalWorld` | `src/src/worktree.rs:753`: remove_inner checks the path on the handle, reads HEAD, then prunes; the prune deletes .git/worktrees/<name> by name, so an id recreated elsewhere after the check loses its admin entry. src/src/worktree.rs:699 says of the two checks: "this one narrows the window, and the one on the prune handle closes it". |
| `EveryLinkIsKept` | `LinkStore` | `src/src/cli.rs:3345`: reconcile_link_forge touches only the branch at HEAD of the handle it is given, and cmd_pr, cmd_review and the TUI's link prompt resolve with the main checkout's handle while they write the link of another branch; that branch keeps an absent marker (read as github), so on a GitLab repository the next command run in its worktree drops the link just written. src/src/github.rs:464 says "every link read or write happens *after* a reconcile, never before", and the table at src/src/github.rs:477-480 lists `cli::cmd_pr`, `cli::cmd_review` and the TUI link prompt as "already correct". |
| `TitlesAreLocal` | `LinkStore` | `src/src/tui/app.rs:7856`: A fetch that was started before the remote moved is applied as long as no navigation re-read the link, and persist_issue_title stamps the branch with the origin of now before it writes the title of then. src/src/github.rs:588 says: "They persist metadata fetched from the origin the repo has *now*". |
| `AwaitedIsInFlight` | `ForgeStatus` | `src/src/tui/app.rs:6672`: spawn_github_issue returns false for a number cached as Error as well as for one in flight, so derive_from_issue on a number whose fetch failed spawns nothing and the form shows "looking up" for a result that never comes. src/src/tui/app.rs:6673 says: "Not a cache hit (that branch returned above), so the spine coalesced onto a worker already in flight for this number", and src/src/tui/app.rs:6708 says of the failed fetch: "retrying is one keystroke". |
| `ServesNoStranger` | `LinkStore` | `src/src/github.rs:391`: stamp_link_origin drops the error of its write, and link_issue, link_pr and the persist functions (src/src/github.rs:527-624) go on to write the number, which then lies under the stamp of another origin and is served when the remote points there again. src/src/github.rs:58 says of the stamp: "Stamping the origin lets [`read_link`] recognise a number that came from somewhere else and ignore it." |
| `TypedGuardsCount` | `Commands`, of `Bootstrap` | `src/src/bootstrap.rs:284`: A name in a copy's guards that no guard is defined for returns Ok(None) for the whole list, so that the guards after it never run and the file is copied. src/docs/4.configuration/3.guards.md:29 says of a guard's patterns: "Matches anywhere in the file are flagged.", and src/src/bootstrap.rs:274-276: "A refusal mechanism whose pattern set is partially broken must never silently pass". |
| `EveryFileIsVetted` | `Commands`, of `Bootstrap` | `src/src/bootstrap.rs:281`: A source that read_to_string refuses, such as one that is not UTF-8, has no match and is then copied byte by byte. src/docs/4.configuration/3.guards.md:8 says: "`[[bootstrap.guard]]` rules vet each file produced by stage 1". |
| `LeftUsable` | `Commands`, of `Sync` | `src/src/sync.rs:173`: The result of git rebase --abort or git merge --abort is dropped; when it fails the worktree stays in the middle of a rebase or merge, and the error still says that it was aborted. src/src/sync.rs:78 says: "On a conflicting rebase/merge the operation is aborted so the worktree is left usable", as src/docs/3.cli/1.reference.md:445 does. |
| `AlwaysPutBack` | `Commands`, of `RenameSaga` | `src/src/worktree.rs:911`: The commands that undo a rename (also src/src/worktree.rs:967, 1011, 1036 and 1075) have their results dropped: when one fails, for a name that is taken, a lock or a full disk, the error is that of the step before, and the worktree stays moved or under its new name. src/src/worktree.rs:803-805 says: "a branch-rename failure rolls the move back so the worktree is never left in a half-renamed state", and src/src/worktree.rs:818-820: "A rejected push rolls back both the local rename and the move so the repo is never left half-renamed." |
| `GuardReferencesResolve` | `Commands`, of `Housekeeping` | `src/src/cli.rs:2828`: cmd_doctor takes the default configuration for one that does not load, whose guards are none; check_config_parses (src/src/doctor.rs:244) finds nothing wrong with a file that parses, or with a user's file at all, so that the doctor reports dangling guards as resolved and exits with 0. src/docs/5.integrations/2.doctor.md:78 says of that check: "**`✓`**: every reference points at a real guard". |
| `ReviewIsNotSwallowed` | `Overlays`, of `Panes` | `src/src/launcher.rs:213`: resolve_review_base compares the upstream with the branch and neither gwm-base, nor default_base, nor dev or main: on the branch they name, R compares it with itself. count_commits_ahead (src/src/launcher.rs:269) moreover counts 0 where git rev-list fails, and prepare_review (src/src/tui/app.rs:5352) takes 0 for nothing to review. src/src/launcher.rs:190-194 says of a base that is the branch itself that it "would make `git diff <branch>..<branch>` empty and silently swallow the `R: review` keystroke". |
| `NoConfigIsBroken` | `Screens`, of `Settings` | `src/src/tui/app.rs:3636`: commit_key_capture reloads the active repository alone after it has written, also when it wrote the user's file: a chord that collides with the keys of another repository is kept, and that repository no longer loads. src/src/tui/app.rs:3639-3641 says: "roll the file back to its prior state so the config is never left broken on disk". |
| `UserSettingsReachAll` | `Screens`, of `Settings` | `src/src/tui/app.rs:5157`: apply_setting returns when the active repository does not load, before it reloads the others: a setting of the user's is on disk and in no repository's cache. src/src/tui/app.rs:5162-5164 says: "A Global-layer edit changes config for *every* repo, not just the active one — refresh each cached `RepoMeta.config` so navigating to another repo doesn't restore the pre-edit global value". |
| `UntouchedIsNoRename` | `Screens`, of `CreateForm` | `src/src/naming.rs:224`: submit_edit_worktree makes a BranchSpec of the form's fields, whose constructor rewrites the description by kebab; a branch with another spelling of it, such as a dash at its end, is renamed by a form in which nothing was changed. src/src/tui/app.rs:6223-6224 says: "A no-op rename (nothing changed) just closes the modal." |
| `EveryViewAgrees` | `Overlays`, of `RichView` | `src/src/tui/app.rs:4304`: restore_rich_view reopens the number remembered when the child opened without comparing it to the link, so closing the CI list or dismissing the merge after a relist moved the link shows the old number under the new row. src/src/tui/app.rs:3769 says of the other way back, over the browser: "A restored forge modal is revalidated before the reader can act on it", and src/src/tui/app.rs:7730 states the rule as closing an open forge-linked overlay when the link no longer matches. |
| `EveryViewIsFreshest` | `Overlays`, of `RichView` | `src/src/tui/app.rs:4304`: restore_rich_view reopens the RichSource saved by remember_rich_view; a status that landed while the child was up is in the cache and not in the view. src/src/tui/app.rs:8398 says: "while it is open, the rich view renders the side the **link** prefers, in its freshest version, **title included**". |
| `LinkPrefersPr` | `Overlays`, of `RichView` | `src/src/tui/app.rs:7781`: resync_forge_overlay_from_cache picks the side from the overlay's own kind, so an issue view that stood in for a PR still loading stays an issue view when the PR landed under the browser. src/src/tui/app.rs:8398 says: "while it is open, the rich view renders the side the **link** prefers". |
| `ThreadsAreAsked` | `Overlays`, of `RichView` | `src/src/tui/app.rs:8424`: sync_rich_overlay promotes a landing PR into an open issue view, and drain_task_results only writes the cache after it: no path spawns the PR's review threads until the view is reopened or refreshed. src/src/tui/app.rs:8210 says the request "is spawned when that view opens", and src/src/tui/app.rs:4366 gives as the reason for asking again on refresh that "the section would otherwise stay empty until the view was reopened". |
| `RefusalLeavesOrigin` | `Commands`, `Windows = {"answer"}` | `src/src/worktree.rs:1072`: git push exits non-zero as well when origin applied the push and the connection died before the report; the local rename is then undone while origin has only the new name. src/src/worktree.rs:1045 says: "With `--atomic`, a rejected push leaves `origin/<old>` intact, so the local rollback fully restores state." |
| `OriginLosesNothing` | `Commands`, `Windows = {"reset"}`, `MaxWorld = 3` | `src/src/worktree.rs:1064`: The containment of the fetched tip is checked on the branch by name and the branch is then pushed by name: a reset or a rebase in the worktree between the two sends a branch that does not contain what is deleted. src/src/worktree.rs:999 says: "The remote tip must be an ancestor of (already contained in) the local branch", and src/src/worktree.rs:979 what happens otherwise: "that would silently drop them". |
| `ProseIsKept` | `Commands`, `Windows = {"note"}` | `src/src/notes.rs:393`: notes::rename runs after the remote rename, seconds after git branch -m made the new name a live branch whose note any gwm can open; a note written there between move_conflict and fs::rename is replaced. src/src/notes.rs:380 says: "Nothing legitimate writes a note for `new_branch` during the call, because `git branch -m old new` has just proved `new` did not exist." |
| `RefusedForWhatIsThere` | `Commands`, of `RenameSaga` | `src/src/worktree.rs:954`: git ls-remote --heads origin <old> matches the end of a ref name, so origin/team/<old> makes it exit 0 for a branch that was never pushed; the fetch of <old> then fails and the rename is refused with "has commits not in your local branch". src/src/worktree.rs:943 says it "exits 0 when the branch is found and 2 when it is genuinely absent". |
| `NotesCatchUp` | `Daemon`, `Notes = {n1, n2}` | `src/src/daemon.rs:208`: worktrees_differ leaves out the note field (added with #515), so a subscriber is never told of a note that was written, changed or removed. src/src/daemon.rs:207 says of everything but age_seconds: "Every other field is compared." |
| `ShutdownEndsThreads` | `Daemon`, `Readers = {}` | `src/src/daemon.rs:924`: A thread writing to a client that does not read blocks without a timeout and never reaches the shutdown check; nor does handle_connection, which gets the flag, look at it between requests. src/src/daemon.rs:738 says "Each connection thread observes the shared `shutdown` flag and exits on its own". |
| `ServesAtPath` | `Commands`, `OneAtATime = FALSE` | `src/src/daemon.rs:654`: Between the connect that finds a stale socket and the remove_file another daemon can have removed it and bound its own, which is then unlinked: both daemons serve and only the later is reached. docs say (src/docs/5.integrations/4.daemon-consumers.md:12) "the second `gwm daemon` is refused by the live-socket guard". |
| `FailureIsUndone` | `Commands`, `Windows = {"checkout"}` | `src/src/worktree.rs:490`: src/src/worktree.rs:477 says "Once some checkout has the branch as its HEAD, the branch stays": one that comes between that look and the deletion of the reference is left on a branch that is gone. |
| `NothingOfOthersIsTaken` | `Commands`, `Windows = {"move"}` | `src/src/review.rs:143`: The rollback of a review deletes the branch by its name alone, with what was committed on it meanwhile; src/src/worktree.rs:485 gives the rule the other rollback follows: "a branch that no longer points where this call put it is somebody else's now". |
| `GateHolds` | `Commands`, `Windows = {"ledger"}` | `src/src/cli.rs:5161`: The ledger is loaded before the prompt and the same copy saved after it: what another gwm recorded or revoked meanwhile is undone. |
| `GateHolds` | `Commands`, `Windows = {"edit"}` | `src/src/cli.rs:5122`: The file is loaded before the gate reads it again: edited in between, what runs is not what was ruled on. |
| `PushInv` | `Commands`, `UnsaidIsLeftAlone` of `ForgePush` in its place | `src/src/gitlab.rs:1099`: GitLab's label and milestone calls always send description=, empty when none is declared. src/docs/4.configuration/1.gwm-toml.md:1032 says: "Empty / absent means "don't change the description on the remote"". |
| `ActsOnWhatIsSeen` | `Screens`, `Windows = {"drift"}` | `src/src/tui/app.rs:8723`: The link prompt stores its number on the row that is selected when it is submitted, and a refresh may have moved the selection since it opened. src/src/tui/app.rs:3816 says of the overlay that does capture its row: "an auto-refresh can drift the live selection while the overlay is open". |
| `NamesAreKept` | `Screens`, `Windows = {"base"}` | `src/src/tui/app.rs:5936`: A literal that stands for a segment in branch_pattern counts as read, so that under `base = "{repo}/{type}"` the form opens on the type the literal froze and a submit of the untouched form moves the worktree. src/src/tui/app.rs:5916 says: "The form must not open on a segment whose current value it cannot show." |
| `NamesAreKept` | `Screens`, `Windows = {"switch"}` | `src/src/tui/mod.rs:401`: A refresh that moves the cursor to another repository of the workspace changes the patterns under an open form, which writes the worktree's name by them; the comment there suspends it "while a destructive overlay is open so the active repo (and its config) can't swap under the captured exec/clean target", and of the overlays holds it off for those two alone. |
| `PanesHold` | `Overlays`, `Windows = {"bootstrap"}` | `src/src/tui/app.rs:1982`: A bootstrap that lands puts its report over whatever is on the screen. Over a program in the PTY overlay it leaves the overlay in place and hidden: no frame looks at it, no key reaches it, and the next program that is opened drops it (src/src/tui/app.rs:3729) with no kill and no removal of its container. src/src/tui/state/pty_overlay.rs:41 says "Dropping kills the child", and PtyOverlay has no Drop. |
| `PanesHold` | `Overlays`, `Windows = {"typing"}` | `src/src/tui/app.rs:9412`: The shell of a herdr pane is idle when the worker asks and busy when it types: the resume goes to whatever runs there, and is reported as done. |
| `NoteHolds` | `Overlays`, `Windows = {"notes"}` | `src/src/tui/app.rs:5473`: Another program writes the note while the editor is open; Esc writes the buffer over it, for nothing compares the file with what was read. |
| `NoteHolds` | `Overlays`, `Windows = {"full"}` | `src/src/tui/app.rs:5473`: The write fails and Esc closes the editor all the same; src/src/tui/state/note_editor.rs:11 says of it that "the reflex on leaving a note is to keep it". |
| `NoteHolds` | `Overlays`, `Windows = {"bytes"}` | `src/src/tui/app.rs:5440`: A note that cannot be read, say because it is not UTF-8, opens as an empty one, and what is typed is written over it. |
| `NoteHolds` | `Overlays`, `Windows = {"selection"}` | `src/src/tui/app.rs:5685`: A listing that lands under the editor moves the cursor; Esc then marks the row under the cursor and not the note's. |
| `NothingOfOthersIsTaken` | `Commands`, `Windows = {"prune"}` | `src/src/worktree.rs:1160`: A worktree that is mounted again, or made anew, under a name of the plan between the plan and its turn is pruned with its directory, locked or not: the flags override what the plan had checked. src/src/worktree.rs:1154 says "what `--dry-run` shows is exactly what this destructive pass acts on". |
| `NothingOfOthersIsTaken` | `Commands`, `Windows = {"purge"}` | `src/src/github.rs:1103`: The keys of a branch that another gwm creates again after the orphans were listed are dropped with the orphans. |
| `NothingOfOthersIsTaken` | `Commands`, `Windows = {"doctor"}` | `src/src/doctor.rs:1007`: The worktrees are listed before the branches: a branch that another gwm makes in between has no worktree for the doctor, which proposes `git branch -d`. |
| `FixHelps` | `Commands`, of `Housekeeping` | `src/src/github.rs:1106`: A key of several entries of which one has no value counts as purgeable and goes to `remove`, which refuses it: `--fix` never drops it and doctor keeps pointing at `--fix`. src/src/github.rs:1023 says: "Keys living in `.git/config` itself. `--fix` drops these." |
| `UnknownRuns` | `Commands`, of `Housekeeping` | `src/src/bootstrap.rs:548`: `!` before nothing, or before a predicate that no version knows, is false, and the step is skipped without a word. src/src/bootstrap.rs:563 says: "a config we can't understand should not silently skip every command". |
| `ColumnsComeWithRows` | `Overlays`, of `CommitLog` | `src/src/tui/app.rs:2158`: The overlay closed and opened again on the same worktree while what its commits changed is still being read: the columns land beside the loader, before the rows they are of. src/src/tui/views/commits.rs:95 says the rows, their count and the columns "are read together and installed together, and a caller that could install three of the four would be a bug waiting to happen". |
| `HeadIsTheTipRead` | `Overlays`, of `CommitLog` | `src/src/tui/views/commits.rs:758`: A deeper page is read at the tip the list shows by then, and `head` keeps the tip the overlay was opened on. src/src/tui/views/commits.rs:154 says `head` is "The branch tip the in-flight (or loaded) read was taken at". |
| `OverlayInv` | `Overlays`, `Windows = {"names"}` | `src/src/worktree.rs:1319`: A file at the top of the repository whose name is forty hexadecimal digits starts a commit of its own: what follows in git's output is counted for it. src/src/worktree.rs:1308 says that a path that is like a numstat entry is "the one thing it cannot survive" and that it "cannot desynchronise the commit boundaries". |
| `ActsOnWhatIsSeen` | `Screens`, `Windows = {"chords"}` | `src/src/tui/ui.rs:3981`: With `fetch_github = ["g f"]` the menu of links and the link prompt name `g f`, and `key_matches_action` (src/src/tui/app.rs:2904) looks up one stroke: the chord does nothing there. The comment of `key_swallowed_by_typing` speaks of "the pending-chord machinery", which those views have not. |
| `ActsOnWhatIsSeen` | `Screens`, `Windows = {"toggles"}` | `src/src/tui/app.rs:2863`: The key that opened a view is looked at before the verbs of the view: with `command_logs = ["y"]` the footer of the logs still names `y` for copying, which closes them; with `working_tree = ["Esc x"]`, Esc and the button that closes begin a chord. |
| `ActsOnWhatIsSeen` | `Screens`, `Windows = {"esc"}` | `src/src/tui/mod.rs:570`: An action bound to Enter or Esc is named in the footer of the list, which takes both keys before it looks a binding up. |
| `ActsOnWhatIsSeen` | `Screens`, `Windows = {"capture"}` | `src/src/tui/app.rs:3544`: With `config.edit.submit = ["Esc"]` or `cancel = ["Enter"]` the footer of a capture names the key bound, and the handler tests Esc and Enter first. |
| `ActsOnWhatIsSeen` | `Screens`, `HintsWork` with `Busy` in the place of `Held` | `src/src/tui/mod.rs:700`: The confirmation of a delete opened while a merge is in flight (a bootstrap's report took the merge's view) takes no key, and its buttons are drawn and its keys named until the merge lands. |
| `ActsOnWhatIsSeen` | `Screens`, `ClicksWork` without `Strayed` | `src/src/tui/app.rs:4290`: A bootstrap's report that takes the place of a view opened from the rich view leaves `return_to` set: a rich view opened later is first closed into the earlier one. |

Four more variations hold: `SettingsAreInForce` and `BindingsAreLive` of `Settings` in `Screens` with `MaxSaves = 4, MaxEdits = 0, MaxStrokes = 1` and the other screens left out (two rebindings, or four settings, in a row); `LoadingEnds` (every section stops loading) in `ForgeStatus` under `FairSpec` with `MaxMoves = 0`; `NeverStale` in `AsyncTasks`, which is also proved and follows from
`ImplementsFreshView`; and `PathInv` of `DaemonSocket` in `Commands` with `OneAtATime = FALSE, Leaves = FALSE`, the other half of the theorem `ServesSafe`.

## 4. What is proved

TLAPS proves the following for every value of the constants that meets the named assumptions.

| theorem | module | property | what it establishes |
|---|---|---|---|
| `IInvAlways` | `OverlaysProofs` | `IInv` | The inductive invariant holds for every set of kinds and groups and every bound: types, claims before flights, one run per claim, a run for every loader, and only fresh results may land. |
| `LoadersHaveRuns` | `OverlaysProofs` |  | A kind that is loading always has a run whose result will be accepted, for any set of kinds and any bound. |
| `ClaimsAreExclusive` | `OverlaysProofs` |  | A claimed generation is held by exactly one run, so no result is applied twice or over another run's. |
| `ViewsNeverStale` | `OverlaysProofs` |  | No step shows a version older than what is shown or than the last invalidation. |
| `Refinement` | `OverlaysProofs` | `ImplementsFreshView` | The generation-and-channel protocol implements FreshView, for every set of kinds. |
| `Inductive` | `RemovalProofs` | `Inv` | For any number of removing and undoing processes and whatever the world does: the state is well typed, a handle past its check is at the confirmed path, and an entry names the branch that was observed. |
| `OnlyConfirmedFall` | `RemovalProofs` | `OnlyConfirmedPathsFall` | A directory falls only to a process that committed to that very path, whatever the world did since. |
| `DeletedIsRecorded` | `RemovalProofs` | `DeletedBranchIsTheRecordedOne` | A branch is deleted only by a process asked to, whose journal entry names that branch. |
| `NoPhantoms` | `RemovalProofs` | `NoPhantomEntry` | For callers that do not look their target up again, every journal entry is about a directory that fell. |
| `SlotsSafe` | `DaemonProofs` | `SlotsInv` | The slot counter is the number of threads alive (plus the connection being refused) and never more threads than max_connections run, for every cap and any finite set of clients. |
| `RefusalJustified` | `DaemonProofs` | `RefusedOnlyWhenFull` | A connection is refused only when every slot is held by a thread. |
| `ServesSafe` | `CommandsProofs` | `PathInv` | For any number of processes: if daemons start one at a time, or none leaves its file behind, the daemon that serves is the one behind the path. |
| `UndoBringsBack` | `RemovalProofs` | `UndoCanBringBack` | For one process after another and a world that moves at every step: an entry is in the journal, or the user was told it is not, before its branch goes; it leaves the journal replayed, or as the oldest past the cap; and its branch comes back where it stood. |
| `OneRemover` | `RemovalProofs` |  | For any number of processes that remove and undo, and nobody else about: no two are at the removal of the same directory, for the one that prunes the admin entry leaves none to the others, and an undo brings a worktree back only where none is. |
| `ModalSafe` | `TuiProofs` | `ModalInv` | For every table of worktrees, set of PRs and choice of what the list starts: a modal or form holds its mutation until it lands, the confirmed batch is the one in flight, and one mutation runs beside a merge. |
| `QuitIsSafe` | `TuiProofs` | `QuitIsClean` | No quit leaves with a worker in flight, and while a quit waits no step starts a run. |
| `StreamsSafe` | `DaemonProofs` | `StreamInv` | For any finite set of clients and any order of their lines: answers are to the lines read and in their order, and a subscriber's pushes are lists that the repository had, each unlike the one before. |
| `LinksAreServedRight` | `LinkStoreProofs` | `LinkInv` | For any branches, origins and numbers, and wherever a purge, a reconcile or a stamp before was cut short: no item stored under its own marker and stamp is served for another repository or backend than it was stored for. |
| `CurrentLinksStay` | `LinkStoreProofs` | `LinksAreKept` | Only an unlink takes a link of the repository and backend in force that is under the marker and the stamp that belong to it, however many commands were cut short or went on past a failed stamp. |
| `CacheIsSound` | `ForgeStatusProofs` | `CacheInv` | For any instances, rows and numbers: a status is loading exactly while the spine has a run for it, and each claim is held by exactly one flight. |
| `ShowsCurrent` | `ForgeStatusProofs` | `ShownIsCurrent` | What is shown was fetched from the instance that is resolved, after the last flush. |
| `AnswersAreTaken` | `ForgeStatusProofs` | `AnswersArrive` | A relist spares the flights that are current, and the form derives from the issue it asked for. |
| `AgentsStayTheRows` | `TuiProofs` | `AgentsAreTheRows` | For any sessions, worktrees, branches and files of the agents: a pin made stays on the screen until somebody else moves it, a prompt that waits for the pool has it on its way, a session that nobody pinned is on the worktree it ran in, and the daemon answers what a detection of its own would. |
| `GateIsSafe` | `CommandsProofs` | `GateHolds` | For any number of callers: nothing runs or is copied but from the configuration that was ruled on, and the ledger holds only what was approved and not revoked, while nobody edits the configuration or the ledger between a read and its use. |
| `BootstrapIsSafe` | `CommandsProofs` | `GuardedStaysOut` | For any list of copies: no text that a guard in front of any undefined name denies reaches the worktree and no write leaves it, while source and parent stay what they were looked at as. |
| `UndoneWhole` | `CommandsProofs` | `FailureIsUndone` | No checkout is left on a branch a rollback deleted; a sync that failed leaves the worktree as it was unless git could not abort; a rename is done whole, or undone whole but for what git could not put back, as long as nobody else acts in the five windows named. |
| `OthersKeepTheirs` | `CommandsProofs` | `NothingOfOthersIsTaken` | No rollback, copy, clean, prune or purge takes what others made: an action property over four handlers with any number of creators, directories and branches, as long as nobody else acts in the six windows named. |
| `RenameLosesNothing` | `CommandsProofs` | `NothingIsLost` | A rename drops no commit from origin and no prose from a note, for any number of commits, while origin is not written between its check and the push and nobody writes the note. |
| `RightTargetsHold` | `CommandsProofs` | `RightTargets` | For any worktrees, slugs, repositories and number of threads: gwm exec starts its command once in every target and nowhere before everything is planned, and a slug means one worktree; a countdown removes what it was armed on; and one of the processes that took a worktree removes it. |
| `HousekeepingIsSound` | `CommandsProofs` | `HousekeepingHolds` | For any branches, suffixes, keys, command lines and expressions of any length, unless somebody gets in between the reads and the deletions of a --fix: --fix tells what it did; a doctor that exits with 0 while nobody else was at work had nothing to find in what it looks at, which is the defaults where the configuration does not load; and a `when` expression that is one evaluates to what it means. |
| `RefusedRightly` | `CommandsProofs` | `StartsOrIsRefusedForALiveOne` | A daemon starts, or a live one refused it: under the hypothesis of ServesSafe. |
| `AsksRightly` | `CommandsProofs` | `AsksTheRightForge` | For any origins, hosts, pins and exported variables: a call of gh or glab reaches the origin's instance and project, and none is made to a host that nobody authorised, unless github.com is left to gh or a guessed instance to the user's variable, while the origin is not moved after it was resolved. |
| `PushesAsDeclared` | `CommandsProofs` | `PushIsAsDeclared` | For any names, declarations, bounds and order of the calls: a push that went through leaves the forge as declared, a refused one and a plan change nothing, and nothing is refused once a call is made, whatever others write meanwhile (the first two while nobody else writes). |
| `ReaderServed` | `OverlaysProofs` | `ReaderIsServed` | For any issues, PRs and versions: a view shows the freshest status that landed for what it is of, and a landing takes the reader to no other tab. |
| `ViewsAgree` | `OverlaysProofs` |  | The views of the forge are well typed and about the link, and a list of checks is never empty: the part of OverlayInv that is about them. |
| `ThreadsHeld` | `OverlaysProofs` | `ThreadsOnScreenAreHeld` | A relist keeps the review threads of the PR on screen. |
| `ProgramsAreKept` | `OverlaysProofs` | `PanesHold` | For any rows, starts and names: processes, container and diff file of the overlay go with it, no late signal is sent, a profile runs in the row it was asked for, a pane opened for a command runs it, and a branch that is its own upstream is compared with the next base of the chain, while nothing changes between bootstrap and start or between look and typing. |
| `NoteIsKept` | `OverlaysProofs` | `NoteHolds` | For any branches, texts of any length, keys and heights: the caret stays in the text and on the screen, a file of notes has one owner, the rows say who has a note, no prose is lost, and none goes in normal mode without being asked for, as long as nobody else writes a note that is open, a write does not fail, a note can be read, and the selection stays while the editor is open. |

*OverlaysProofs*, of the task spine. Assumptions: the kinds are any set, the bounds any naturals, an invalidation by predicate hits any of the given groups. `LoadingHasRun` and `OneRunPerClaim` are not inductive: nothing in them prevents
a worker of a generation that was never claimed. `IInv` adds that generations of workers and messages are never from the future, that a run whose generation is current was claimed and
has read nothing older than the floor, and that a claimed kind has one run. Each action is shown to preserve each conjunct; `NeverStale` and the refinement follow from it: what is accepted is current, and what is current is at least as fresh as the floor.

*RemovalProofs.* Any set of processes, ids, paths, branches; the world moves at will. The inductive invariant is type correctness together with, for each process, that what its locals say agrees with where it is
(`ProcInv`: past the check on the handle, the handle is at the confirmed path; past the record, its entry names the branch observed). `NoPhantomEntry` needs in addition that every entry of the file, and of every process's loaded snapshot of it, is
about a directory that fell, the entry a process is about to record included; it is proved when a target that is looked up again is found where it was (`~Drifts`).
`UndoCanBringBack` is proved for one process at work (`OneProcess`: two lose entries of each other, as `journal_lost` shows) and a world that moves between any two of its steps. `AnchorInv` says that the journal is `Sorted` by time, so that what the cap
drops is the oldest, and what the process knows of it at each place: that the entry it made is newer than all of it, that what it loaded is what is there, and that what it writes back is that, less the entry replayed.
`OneRemover` is for any number of processes in a world that stands still (`MaxWorld = 0`; whoever recreates a worktree under the same id between two of their steps gives the second one something to prune). `OneRemoverPerWorktree` is not inductive: nothing in it keeps a second process from pruning what the first has
pruned. `AloneInv` adds that a directory whose entry is pruned and which is not yet removed is there alone (`Stranded`), and that a worktree is, was and comes back at one place only, wherever it is named: in its admin entry (`Claimed`), in the journal and in what processes hold (`Homed`). An undo cannot
claim the entry of a directory that is being removed, since that directory still exists.

*TuiProofs, agent sessions.* Any sessions, worktrees, branches and acts of others; what the files of the agents hold is any function to sessions (`WorldsAssumption`), and branches are none of the markers beside them (`AgentsAssumption`). `ShownWhereItRan` and `SummaryIsTheSame` hold of every state
(`FoundWhereItRan`, `SameSummary`). The rest is not inductive: nothing in `OwnPinsStand` says what a detection under way will land. `AgentsIInv` adds that a run is of the rows that are shown (`RunIsOfTheRows`), that what this TUI pinned is in the configuration (`PinsAreStored`), that a run past its reading has read
those pins or will not bring its own (`RunReadThePins`), that only the prompt waits for a pool (`WaitsAtThePrompt`) and that what the daemon keeps is a detection (`SlotIsADetection`).

*TuiProofs, mutations.* Any worktrees, PRs and subset of the operations that only the list starts. `ModalInv` is not inductive: a merge that lands dismisses the modal, and nothing in it says that the modal is not by then the one of a delete in flight.
`IInv` adds that a merge never flies beside a delete, a create or an edit (`MergeTakesNoView`) and that who has left has left nothing. One lemma per way a step touches the runs: none moves, one starts alone, one ends.

*DaemonProofs.* `SlotsCounted` by itself is not inductive because the counter changes in a different step from the thread: `IInv` says in which places a thread can be, that the counter is the number of threads alive plus the connection in the
accept loop's hands, and that the cap bounds the threads. The set of clients is finite (`ClientsAssumption`), which cardinalities need; the cap is any positive number. `StreamInv` speaks of what is written, and a step keeps it only with
what a thread holds: that the line being answered is read and owed (`AnsweredSoFar`), that the last list is the newest line (`LastIsWritten`) and that a list about to be pushed was scanned from the repository and differs from the last (`ScanIsNews`).

*LinkStoreProofs.* Any branches, origins, backends and numbers. What is stored is `Sound` when the stamp and the marker beside an item tell the truth about it. Every stage of every command keeps that from whatever the one before it left, wherever that
stopped, which is what a command leaves that was cut short or went on past a failure; a sound configuration is served rightly because the reader compares just these two.

*ForgeStatusProofs.* Any instances, rows and numbers. The lemmas are about the functions of `FetchCache`: each takes a `Good` record to a good one, where good is cache and spine agreeing, one flight per generation, a flight for every claim (`Flying`), and
whatever is accepted or loaded being of the instance in force and the present epoch (`Recent`). Each handler is a composition of these functions.

*CommandsProofs.* One part per command, any number of processes, commits, copies, directories and branches. Each theorem assumes that nobody else acts in the windows it names (`Windows`, between a check and its use), which is what the code
cannot prevent and the variations of section 3 show; a daemon's needs `OneAtATime \/ ~Leaves`. What else others do, whenever they do it, is in the behaviours. The inductive invariants say what a process knows at each place of its program:

* `GateIInv`: past the gate, what runs is the configuration that was ruled on; while the question is up it is the one loaded.
* `BootIInv`: a source of text that a guard before any undefined name would bar is not the one being copied, nor what was read the one being written.
* `CreateIInv`: a new name is checked out in its own worktree or nowhere, and a branch about to be deleted nowhere. `RollIInv` adds where each call's own branch is; a branch a review has fetched stays where it was put or in the worktree of its name.
* `SyncIInv`: from the look on, the worktree is clean unless the step that failed is being taken back or git could not abort it, and what the branch had it still has.
* `JunkIInv`, `HouseIInv`: what is about to be removed is, still, what the scan found it to be.
* `RenameIInv`: at each place of the saga, which of directory and branch have the new name, what of origin is known, and that nothing is pushed before `tracking`; what git was `unable` to put back is exempt.
* `RouteIInv`: what the child sees is what `Child` makes of the origin; where it then goes is by cases on the origin (a pin, the default host, a subfolder). `RouteAssumption` says what the constants must: the known hosts are of a forge,
  a web URL is of its instance and the folder that is served from, and a CI runner publishes both of its hosts.
* `PushIInv`: the calls still to make say, name by name, how the forge differs from what is declared (`Underway`), each is due (`CallIsDue`) and acceptable to the back-end, and each name has at most one. It holds while nobody else writes (`intruders = push.seen`).
* `FleetIInv`: a repository's results are all in before the next one opens (`RepositoriesInTurn`), and the shared counter says which of its targets were started, each once, and which thread has which (`CounterSaysWhat`). That targets are worktrees needs what the folds of the library give:
  `FlattenIs` says that flattening sequences that are all in `Seq(S)` gives one in `Seq(S)`, from the existence of the recursive function behind it, shown with an induction over a set (`Counted`).
* `KeptInv`, of *HousekeepingProofs*: the keys that were found and are not gone are there (`Accounted`), and what the first half of the doctor found is still so while nobody was at work (`AsSetUp`). What the code computes then matters, and is proved for every input. `ThereIsOne` shows that a function
  whose values depend on those of later tokens exists; so each of the three functions of `Parse` has the values that its equations give (`NotIs`, `AndIs`, `OrIs`), and an expression that is one evaluates to what it means (`ReadsWhatItMeans`). `executable_in` finds the program of a command line
  (`FindsTheProgram`), and adding up what each branch has less gives the number of keys gone (`AddsUpTo`). As for the removals, `CommandsProofs` instantiates that module and shows its definitions to be the same (`TidyInit`, `TidyStep`, `TidyHolds`). It needs `HouseAssumption`, that branches and suffixes are
  finitely many, and `LinesAssumption`, below.
* `RemoveIInv`: the invariant of `OneRemover`. `RemovalProofs` is instantiated for the removals of `Commands`, whose definitions are shown to be the same (`SameInit`, `SameStep`).
* `PathIInv`: a process that has bound owns the path; at most one is starting; one about to unlink finds nothing that is anybody's to lose.

*OverlaysProofs*, of the views. Any issues, PRs, versions, rows and names. For the views of the forge `RichIInv` says that a view is `Whole` (of its kind, on its tab, over what it covers), `Agrees` with the link unless it came back from a child, is `Freshest` of what is loaded, and that no loaded entry has version 0; a
view behind a child must be in it, since a child's end brings it up again. For programs `ProgramIInv` ties the overlay, its processes, its container and its file to the start that made them, and `PoolIInv` numbers the panes, so that a worker's pane is one that is there.
It assumes `Windows` without "bootstrap" and "typing": a selection that moves before a bootstrap ends, and a shell that becomes busy between the look and the typing.
For the notes, with texts of any length: first what each operation does to a text and a caret (`CutIs` to `OpenLineIs`), then that every key, whatever came before it, keeps the caret in the text, remembers a change and takes no character that was not asked for (`PressedIs`), and that what is saved reads back
as what was on the screen (`TrimmedIs`, `SavedIs`, `ReadIs`). `NoteIInv` then ties the editor to the disk: an open editor is of the branch under the cursor, what it was opened on (`seen`) is still what its file says, the file has no other owner, and every row but that of the open note is marked just if its branch
owns a note. It assumes `Undisturbed`: `Windows` without "notes", "full", "bytes" and "selection". The first and the last place, and the longest prefix that is not blank, are found by `LeastOf` and `GreatestOf`, which rest on `Counted`: a set of numbers that has 0 and, with any number, the next one has them all. The
theorems of the library that say so take an operator, which no prover here can instantiate; `Counted` takes a set, and its proof is that an injection of a finite interval into itself is onto.

Three proofs did not go through at first because the model was wrong, and it was changed: in `Create` the window `move` (others commit to a branch that a review has fetched, which its rollback deletes by name) was shut for some of the others' acts only (`Fetched` names them now);
`ForgeStatus` took for granted that every number of an issue has a status to fetch (`StatusAssumption`); and the names of containers in `Panes` were numbers that two starts could share (`BoxOf` is the pair now).

*Only model-checked*, and why:

* Liveness under fairness and anything with ENABLED is out of the prover's reach: `LoaderStops`, `QuitHappens`, `LoadingEnds`, `EveryClientGetsOn`.
* `LogInv` of `OverlayInv` is about folds over the rows of a graph: what a recursive definition computes for every input needs, before induction, that the function exists (`CHOOSE` of one that satisfies its equations), and the theorems that say so take an operator as a parameter, which no installed prover can instantiate. `FlattenIs` of `CommandsProofs` and `ThereIsOne` of `HousekeepingProofs` do both with the induction of `Counted`, for a fold and for a parser; for the graph it is not attempted.
* Three of `Screens`. `NamesAreKept` says of a pattern that the reading the greedy expression takes is the one written, over all readings of every pattern: induction over data again. `ActsOnWhatIsSeen` and `SettingsHold` rest on folds over the rebindings of a keymap (`HintsWork`, `BindingsAreLive`), which range over the `Trials` and keymaps that are given.

## 5. Hazards

`PROJECT.json` lists under `hazards` what is hard to test in this code, at the line where it bites, with the properties that watch it. One
has none: a worker that panics (`app.rs:6853`) never sends. The code does not expect it, and the fairness of `LoaderStops` and `QuitHappens` is that a worker sends. Part of another is not kept by the code: a title fetched before
the remote moved is stored under the stamp of after (`app.rs:7856`); `TitlesAreLocal` states the opposite and is among the variations of section 3.

## 6. Plan

Order: what can lose a user's work first, then what can show the wrong thing, then configuration and pure functions. Every module of that plan stands in section 2. What is left:

1. *Proofs*: `LogInv`, and the other three of `Screens`.
2. *Abstract specifications* beside `FreshView`: an atomic removal ("recorded and gone, or untouched") for `Removal`; an atomic rename for `RenameSaga` without lost answers;
   a single-request server with an unordered set of clients for `Daemon`; a partial map from instance to link for `LinkStore`.
3. *Operations*: the wheel and the scroll offsets of each view; the tree of the working tree's files with its folds; installation of the hooks in `.git/hooks`; presets
   of the configuration; gitmoji and the title templates; the daemon over Windows' named pipes.

## 7. Not modelled, and why

* Aliases: the expansion of one argument vector under a depth guard, before anything runs; its unit tests reach every branch.
* The JSON contract, rendering and the printing of commands: conversion and layout, with no state that outlives them. What the screen says a key does, and where it can be clicked, is in `Input`.
* The command log and the clipboard: a bounded list behind one lock which only its overlay reads, and an escape sequence.
* What `gh`, `glab` and `git` return is an input of the modules that call them; the parsing of their output is, except `ParseCommitStats` and the remotes, data.
* The Windows daemon: the same loop over polled named pipes; `Daemon` is the Unix server. Failures of `set_read_timeout` are left out, and what `list`, `path` and other requests of the daemon contain.
* Base refs among a branch's configuration keys (`LinkStore`; the agents' pins among them are in `AgentSessions`); folding and scrolling inside the rich view.
* In `Input`, what a capture rebinds: the bindings stay those that were loaded, and `Settings` has the capture's write and reload. What a key does besides moving between views is in the module of its view.
* In `RenameSaga`, a directory that appears at the target after the preflight: git moves the worktree *inside* it.
* In `CommitLog`, a root commit that rows of another root follow keeps a line that hangs from it, as in lazygit, which the code follows; `GraphIsTheHistory` speaks of lines that join two rows.
