-------------------------------- MODULE Removal --------------------------------
(***************************************************************************)
(* Removing worktrees and undoing it, by any number of gwm processes at    *)
(* once (a CLI remove, the TUI's delete worker, gwm undo), in a world that *)
(* moves under them: hooks and other shells move worktrees, recreate them  *)
(* under an old id, check out branches and commit.                         *)
(*                                                                         *)
(*   src/src/removal.rs    remove_with_lifecycle                           *)
(*   src/src/worktree.rs   verify_path, remove_inner, head_branch, add     *)
(*   src/src/history.rs    record, Journal                                 *)
(*   src/src/cli.rs        cmd_remove, cmd_undo                            *)
(*                                                                         *)
(* A step is what one libgit2 or filesystem call does; between two steps   *)
(* anybody else may act.  What hooks run is arbitrary and is part of the   *)
(* world.  A batch is several processes: nothing but the order of its      *)
(* targets is lost.  Oids are numbered in the order they are made, and 0   *)
(* is the commit the main checkout is on.                                  *)
(***************************************************************************)
EXTENDS Naturals, Sequences, FiniteSets

CONSTANTS
    Procs,          \* gwm processes and workers
    Ids,            \* names under .git/worktrees
    Paths,          \* directories a worktree may live in
    Basename,       \* the last component of a path, as an id
    Branches,
    NoPath, NoRef, NoEntry,
    NoBranch,       \* no branch: a detached HEAD, a directory that does not open
    Drifts,         \* a target that is looked up again (the TUI worker) may be elsewhere
    Interleaved,    \* the world moves while a process is under way
    Failures,       \* steps may fail or be interrupted
    MaxEntries,     \* MAX_ENTRIES of the journal
    MaxWorld,       \* bound: steps of the world
    MaxOid,         \* bound: commits made
    MaxClock        \* bound: entries recorded

Detached == "HEAD"              \* what a listing shows for a detached HEAD
Unreadable == "unreadable"      \* HeadBranch::Unreadable
Heads == Branches \cup {Detached}

ASSUME BasenameAssumption == Basename \in [Paths -> Ids]
ASSUME SomeAssumption == Paths # {} /\ Ids # {}
ASSUME NoneAssumption ==
    /\ NoPath \notin Paths /\ NoRef \notin Nat /\ NoBranch \notin Heads
    /\ {Detached, Unreadable} \cap Branches = {} /\ NoBranch # Unreadable
ASSUME MaxEntriesAssumption == MaxEntries \in Nat \ {0}
ASSUME SwitchAssumption == {Drifts, Interleaved, Failures} \subseteq BOOLEAN
ASSUME BoundsAssumption == MaxWorld \in Nat /\ MaxOid \in Nat /\ MaxClock \in Nat

VARIABLES
    admin,      \* .git/worktrees/<id>/gitdir: where the worktree is
    head,       \* .git/worktrees/<id>/HEAD
    disk,       \* directories that exist
    tip,        \* refs/heads
    journal,    \* history.toml
    proc,       \* the processes
    clock,      \* timestamps
    oids,       \* commits made so far
    worldSteps,
    fell        \* history: the directories gwm has removed

git == <<admin, head, disk, tip>>
vars == <<git, journal, proc, clock, oids, worldSteps, fell>>

Oid == Nat
Entry == [ts : Nat, path : Paths, branch : Heads \cup {NoBranch}, oid : Oid \cup {NoRef}]

Steps == {"idle", "confirmed", "verified", "hooked", "held", "read", "pruned",
          "gone", "recording", "recorded", "popped", "rebuilt", "added"}

\* What a process carries from one step to the next.
Proc == [pc : Steps,
         id : Ids,
         expected : Paths,          \* the path it committed to destroying
         found : Paths,             \* WorktreeInfo::path
         listed : Heads \cup {NoBranch},   \* WorktreeInfo::branch
         deleteBranch : BOOLEAN,
         held : Paths,              \* the path of the handle that is pruned
         head : Heads \cup {Unreadable},
         entry : Entry \cup {NoEntry},
         snapshot : Seq(Entry),     \* the journal as it was loaded
         warned : BOOLEAN]          \* the record failed

Blank ==
    [pc |-> "idle", id |-> CHOOSE id \in Ids : TRUE,
     expected |-> CHOOSE q \in Paths : TRUE, found |-> CHOOSE q \in Paths : TRUE,
     listed |-> NoBranch, deleteBranch |-> FALSE,
     held |-> CHOOSE q \in Paths : TRUE, head |-> Unreadable,
     entry |-> NoEntry, snapshot |-> <<>>, warned |-> FALSE]

TypeOK ==
    /\ admin \in [Ids -> Paths \cup {NoPath}]
    /\ head \in [Ids -> Heads]
    /\ disk \subseteq Paths
    /\ tip \in [Branches -> Oid \cup {NoRef}]
    /\ journal \in Seq(Entry)
    /\ proc \in [Procs -> Proc]
    /\ clock \in Nat /\ oids \in Nat /\ worldSteps \in Nat
    /\ fell \subseteq Paths

\* git takes an admin entry at its word; libgit2 skips one it cannot open.
CheckedOut(b) == \E id \in Ids : admin[id] # NoPath /\ head[id] = b
Occupied(b) == \E id \in Ids : admin[id] \in disk /\ head[id] = b

\* Worktrees made by gwm: named after their directory, each on a branch.
Init ==
    /\ admin \in {f \in [Ids -> Paths \cup {NoPath}] :
                    \A id \in Ids : f[id] # NoPath => Basename[f[id]] = id}
    /\ head \in {f \in [Ids -> Branches] : \A i, k \in Ids : f[i] = f[k] => i = k}
    /\ disk = {admin[id] : id \in Ids} \ {NoPath}
    /\ tip = [b \in Branches |-> IF CheckedOut(b) THEN 0 ELSE NoRef]
    /\ journal = <<>>
    /\ proc = [p \in Procs |-> Blank]
    /\ clock = 0 /\ oids = 0 /\ worldSteps = 0
    /\ fell = {}

\* Nothing is going on here.
Rest ==
    /\ admin = [id \in Ids |-> NoPath]
    /\ head = [id \in Ids |-> CHOOSE b \in Branches : TRUE]
    /\ disk = {} /\ tip = [b \in Branches |-> NoRef] /\ journal = <<>>
    /\ proc = [p \in Procs |-> Blank] /\ clock = 0 /\ oids = 0 /\ worldSteps = 0 /\ fell = {}

-----------------------------------------------------------------------------
(* The journal of one repository as a value: its entries in insertion      *)
(* order, the cap, and the most recent one.                                *)

WithoutIndex(entries, i) ==
    [k \in 1 .. Len(entries) - 1 |-> IF k < i THEN entries[k] ELSE entries[k + 1]]

Oldest(entries) ==
    CHOOSE i \in DOMAIN entries : \A k \in DOMAIN entries : entries[i].ts <= entries[k].ts

\* Journal::append: past the cap the entry with the smallest timestamp goes.
Appended(entries, entry) ==
    LET longer == Append(entries, entry)
    IN  IF Len(longer) > MaxEntries THEN WithoutIndex(longer, Oldest(longer)) ELSE longer

\* Journal::pop_last_for_repo takes the entry with the greatest timestamp.
IsLatest(entries, i) == \A k \in DOMAIN entries : entries[i].ts >= entries[k].ts

-----------------------------------------------------------------------------
\* The world: other shells, hooks, the user in an editor's terminal.
WorldMayMove ==
    /\ worldSteps < MaxWorld
    /\ Interleaved \/ \A p \in Procs : proc[p].pc = "idle"
    /\ worldSteps' = worldSteps + 1
    /\ UNCHANGED <<journal, proc, clock, fell>>

\* git worktree move
Moves(id, q) ==
    /\ WorldMayMove
    /\ admin[id] \in disk /\ q \notin disk
    /\ admin' = [admin EXCEPT ![id] = q]
    /\ disk' = (disk \ {admin[id]}) \cup {q}
    /\ UNCHANGED <<head, tip, oids>>

\* git worktree add: an id is the basename, free again once it is removed.
Recreates(q, b) ==
    /\ WorldMayMove
    /\ admin[Basename[q]] = NoPath /\ q \notin disk /\ ~ CheckedOut(b)
    /\ admin' = [admin EXCEPT ![Basename[q]] = q]
    /\ head' = [head EXCEPT ![Basename[q]] = b]
    /\ disk' = disk \cup {q}
    /\ tip' = [tip EXCEPT ![b] = IF @ = NoRef THEN 0 ELSE @]
    /\ UNCHANGED oids

\* git worktree remove
Discards(id) ==
    /\ WorldMayMove
    /\ admin[id] \in disk
    /\ admin' = [admin EXCEPT ![id] = NoPath]
    /\ disk' = disk \ {admin[id]}
    /\ UNCHANGED <<head, tip, oids>>

\* rm -rf
Deletes(q) ==
    /\ WorldMayMove
    /\ q \in disk
    /\ disk' = disk \ {q}
    /\ UNCHANGED <<admin, head, tip, oids>>

\* git checkout, of a branch or of a commit
ChecksOut(id, h) ==
    /\ WorldMayMove
    /\ admin[id] \in disk /\ h # head[id]
    /\ h \in Branches => tip[h] # NoRef /\ ~ CheckedOut(h)
    /\ head' = [head EXCEPT ![id] = h]
    /\ UNCHANGED <<admin, disk, tip, oids>>

Commits(b) ==
    /\ WorldMayMove
    /\ Occupied(b) /\ oids < MaxOid
    /\ oids' = oids + 1
    /\ tip' = [tip EXCEPT ![b] = oids']
    /\ UNCHANGED <<admin, head, disk>>

World ==
    \/ \E id \in Ids : Discards(id) \/ \E q \in Paths : Moves(id, q)
    \/ \E id \in Ids : \E h \in Heads : ChecksOut(id, h)
    \/ \E q \in Paths : Deletes(q) \/ \E b \in Branches : Recreates(q, b)
    \/ \E b \in Branches : Commits(b)

-----------------------------------------------------------------------------
At(p, step) == proc[p].pc = step
Goes(p, next) == proc' = [proc EXCEPT ![p] = next]
Ends(p) == Goes(p, Blank)

\* Resolving the target and committing to its path: what the listing shows is
\* what the dry run prints and what the confirmation displays.
Confirm(p) ==
    /\ At(p, "idle") /\ clock < MaxClock
    /\ \E id \in Ids, deleteBranch \in BOOLEAN :
         /\ admin[id] # NoPath
         /\ Goes(p, [Blank EXCEPT
               !.pc = "confirmed", !.id = id, !.deleteBranch = deleteBranch,
               !.expected = admin[id], !.found = admin[id],
               !.listed = IF admin[id] \in disk THEN head[id] ELSE NoBranch])
    /\ UNCHANGED <<git, journal, clock, oids, worldSteps, fell>>

\* run_delete_batch looks the target up again, in a listing of its own.
Relist(p) ==
    /\ At(p, "confirmed")
    /\ Drifts \/ admin[proc[p].id] \in {NoPath, proc[p].expected}
    /\ LET id == proc[p].id IN
         IF admin[id] = NoPath THEN Ends(p)
         ELSE Goes(p, [proc[p] EXCEPT
                !.found = admin[id],
                !.listed = IF admin[id] \in disk THEN head[id] ELSE NoBranch])
    /\ UNCHANGED <<git, journal, clock, oids, worldSteps, fell>>

\* verify_path, before anything runs.
VerifyPath(p) ==
    /\ At(p, "confirmed")
    /\ IF admin[proc[p].id] = proc[p].expected
         THEN Goes(p, [proc[p] EXCEPT !.pc = "verified"])
         ELSE Ends(p)
    /\ UNCHANGED <<git, journal, clock, oids, worldSteps, fell>>

\* The pre_remove phase, with its cwd at found.path.  One that aborts ends it.
PreRemove(p) ==
    /\ At(p, "verified")
    /\ \/ Goes(p, [proc[p] EXCEPT !.pc = "hooked"])
       \/ Failures /\ Ends(p)
    /\ UNCHANGED <<git, journal, clock, oids, worldSteps, fell>>

\* Slip: the path was verified already.
TakeHandleUnchecked(p) ==
    /\ At(p, "hooked")
    /\ IF admin[proc[p].id] # NoPath
         THEN Goes(p, [proc[p] EXCEPT !.pc = "held", !.held = admin[proc[p].id]])
         ELSE Ends(p)
    /\ UNCHANGED <<git, journal, clock, oids, worldSteps, fell>>

\* remove_inner: the handle that is going to be pruned, checked on its own.
TakeHandle(p) ==
    /\ At(p, "hooked")
    /\ IF admin[proc[p].id] = proc[p].expected
         THEN Goes(p, [proc[p] EXCEPT !.pc = "held", !.held = admin[proc[p].id]])
         ELSE Ends(p)
    /\ UNCHANGED <<git, journal, clock, oids, worldSteps, fell>>

\* head_branch: the one observation of HEAD.
HeadsAt(q) ==
    IF q \in disk /\ q \in {admin[id] : id \in Ids}
      THEN {head[id] : id \in {i \in Ids : admin[i] = q}}
      ELSE {Unreadable}

ReadHead(p) ==
    /\ At(p, "held")
    /\ \E h \in HeadsAt(proc[p].held) :
         Goes(p, [proc[p] EXCEPT !.pc = "read", !.head = h])
    /\ UNCHANGED <<git, journal, clock, oids, worldSteps, fell>>

\* Slip: an entry that is already gone is one step less.
PruneIfThere(p) ==
    /\ At(p, "read")
    /\ admin' = [admin EXCEPT ![proc[p].id] = NoPath]
    /\ Goes(p, [proc[p] EXCEPT !.pc = "pruned"])
    /\ UNCHANGED <<head, disk, tip, journal, clock, oids, worldSteps, fell>>

\* Pruning goes by the name of the admin entry, whatever it points at by now.
Prune(p) ==
    /\ At(p, "read")
    /\ LET id == proc[p].id IN
         IF admin[id] = NoPath
           THEN Ends(p) /\ UNCHANGED admin
           ELSE /\ admin' = [admin EXCEPT ![id] = NoPath]
                /\ Goes(p, [proc[p] EXCEPT !.pc = "pruned"])
    /\ UNCHANGED <<head, disk, tip, journal, clock, oids, worldSteps, fell>>

\* Slip: a directory that would not go is recorded as if it had.
RemoveDirAnyway(p) ==
    /\ At(p, "pruned")
    /\ Goes(p, [proc[p] EXCEPT !.pc = "gone"])
    /\ \/ /\ disk' = disk \ {proc[p].held} /\ fell' = fell \cup {proc[p].held}
       \/ Failures /\ UNCHANGED <<disk, fell>>
    /\ UNCHANGED <<admin, head, tip, journal, clock, oids, worldSteps>>

\* The point of no return.
RemoveDir(p) ==
    /\ At(p, "pruned")
    /\ \/ /\ disk' = disk \ {proc[p].held} /\ fell' = fell \cup {proc[p].held}
          /\ Goes(p, [proc[p] EXCEPT !.pc = "gone"])
       \/ Failures /\ Ends(p) /\ UNCHANGED <<disk, fell>>
    /\ UNCHANGED <<admin, head, tip, journal, clock, oids, worldSteps>>

\* Slip: the record names the branch of the listing.
BranchListed(p) == proc[p].listed

\* Slip: the record names what was observed, branch or not.
BranchObserved(p) == proc[p].head

\* branch_to_record
BranchToRecord(p) ==
    CASE proc[p].head = Detached   -> NoBranch
      [] proc[p].head = Unreadable -> proc[p].listed
      [] OTHER                     -> proc[p].head

TipOf(b) == IF b \in Branches THEN tip[b] ELSE NoRef

\* journal_entry, then history::record loads the journal.
LoadJournal(p) ==
    /\ At(p, "gone")
    /\ clock' = clock + 1
    /\ Goes(p, [proc[p] EXCEPT
          !.pc = "recording", !.snapshot = journal,
          !.entry = [ts |-> clock, path |-> proc[p].found,
                     branch |-> BranchToRecord(p), oid |-> TipOf(BranchToRecord(p))]])
    /\ UNCHANGED <<git, journal, oids, worldSteps, fell>>

\* Slip: a record that failed is nobody's business.
SaveJournalQuietly(p) ==
    /\ At(p, "recording")
    /\ journal' = Appended(proc[p].snapshot, proc[p].entry) \/ (Failures /\ UNCHANGED journal)
    /\ Goes(p, [proc[p] EXCEPT !.pc = "recorded"])
    /\ UNCHANGED <<git, clock, oids, worldSteps, fell>>

\* ... and writes it back with the entry.  A failure is only a warning.
SaveJournal(p) ==
    /\ At(p, "recording")
    /\ \/ /\ journal' = Appended(proc[p].snapshot, proc[p].entry)
          /\ Goes(p, [proc[p] EXCEPT !.pc = "recorded"])
       \/ /\ Failures
          /\ Goes(p, [proc[p] EXCEPT !.pc = "recorded", !.warned = TRUE])
          /\ UNCHANGED journal
    /\ UNCHANGED <<git, clock, oids, worldSteps, fell>>

\* The branch goes last, unless another checkout stands on it; what is left,
\* the post_remove phase, only runs hooks.
DeleteBranch(p) ==
    /\ At(p, "recorded")
    /\ LET b == proc[p].head IN
         tip' = IF proc[p].deleteBranch /\ b \in Branches /\ ~ Occupied(b)
                  THEN [tip EXCEPT ![b] = NoRef] ELSE tip
    /\ Ends(p)
    /\ UNCHANGED <<admin, head, disk, journal, clock, oids, worldSteps, fell>>

-----------------------------------------------------------------------------
\* Slip: the entry is consumed before it is replayed.
PopAndSave(p) ==
    /\ At(p, "idle")
    /\ \E i \in DOMAIN journal :
         /\ IsLatest(journal, i)
         /\ Goes(p, [Blank EXCEPT !.pc = "popped", !.entry = journal[i],
                                  !.snapshot = WithoutIndex(journal, i)])
         /\ journal' = WithoutIndex(journal, i)
    /\ UNCHANGED <<git, clock, oids, worldSteps, fell>>

\* gwm undo: the journal is loaded first and written back last.
Pop(p) ==
    /\ At(p, "idle")
    /\ \E i \in DOMAIN journal :
         /\ IsLatest(journal, i)
         /\ Goes(p, [Blank EXCEPT !.pc = "popped", !.entry = journal[i],
                                  !.snapshot = WithoutIndex(journal, i)])
    /\ UNCHANGED <<git, journal, clock, oids, worldSteps, fell>>

\* Slip: the branch is left to worktree::add.
NeverResurrects(entry) == FALSE

Resurrects(entry) == entry.branch \in Branches /\ entry.oid # NoRef /\ tip[entry.branch] = NoRef

\* The branch comes back at the recorded oid, if it is not there.
Resurrect(p) ==
    /\ At(p, "popped")
    /\ LET e == proc[p].entry IN
         tip' = IF Resurrects(e) THEN [tip EXCEPT ![e.branch] = e.oid] ELSE tip
    /\ Goes(p, [proc[p] EXCEPT !.pc = "rebuilt"])
    /\ UNCHANGED <<admin, head, disk, journal, clock, oids, worldSteps, fell>>

\* worktree::add with reuse_branch, under the name the row displayed.
CanAdd(entry) ==
    /\ entry.branch \in Branches
    /\ entry.path \notin disk
    /\ admin[Basename[entry.path]] = NoPath
    /\ ~ Occupied(entry.branch)

\* A branch add made for a worktree that then failed is rolled back, unless
\* some HEAD already names it.
Orphans(entry) ==
    /\ entry.branch \in Branches /\ tip[entry.branch] = NoRef
    /\ entry.path \notin disk /\ CheckedOut(entry.branch)

ReAdd(p) ==
    /\ At(p, "rebuilt")
    /\ LET e == proc[p].entry IN
         IF CanAdd(e)
           THEN /\ admin' = [admin EXCEPT ![Basename[e.path]] = e.path]
                /\ head' = [head EXCEPT ![Basename[e.path]] = e.branch]
                /\ disk' = disk \cup {e.path}
                /\ tip' = [tip EXCEPT ![e.branch] = IF @ = NoRef THEN 0 ELSE @]
                /\ Goes(p, [proc[p] EXCEPT !.pc = "added"])
           ELSE /\ tip' = IF Orphans(e) THEN [tip EXCEPT ![e.branch] = 0] ELSE tip
                /\ Ends(p) /\ UNCHANGED <<admin, head, disk>>
    /\ UNCHANGED <<journal, clock, oids, worldSteps, fell>>

SaveUndo(p) ==
    /\ At(p, "added")
    /\ journal' = proc[p].snapshot \/ (Failures /\ UNCHANGED journal)
    /\ Ends(p)
    /\ UNCHANGED <<git, clock, oids, worldSteps, fell>>

\* Ctrl-C, a refused trust prompt, a kill: at any step, for good.
Stops(p) ==
    /\ Failures /\ ~ At(p, "idle")
    /\ Ends(p)
    /\ UNCHANGED <<git, journal, clock, oids, worldSteps, fell>>

Removes(p) ==
    \/ Confirm(p) \/ Relist(p) \/ VerifyPath(p) \/ PreRemove(p) \/ TakeHandle(p)
    \/ ReadHead(p) \/ Prune(p) \/ RemoveDir(p) \/ LoadJournal(p) \/ SaveJournal(p)
    \/ DeleteBranch(p)

Undoes(p) == Pop(p) \/ Resurrect(p) \/ ReAdd(p) \/ SaveUndo(p)

Next == World \/ \E p \in Procs : Removes(p) \/ Undoes(p) \/ Stops(p)

Spec == Init /\ [][Next]_vars

-----------------------------------------------------------------------------
Range(f) == {f[i] : i \in DOMAIN f}
DroppedBy(p, b) == At(p, "recorded") /\ proc[p].head = b

\* No gwm step removes a directory other than the one its process committed
\* to, whoever moved or recreated the worktree since (remove_inner, 723-735).
OnlyConfirmedPathsFall ==
    [][\A q \in fell' \ fell : \E p \in Procs : At(p, "pruned") /\ proc[p].expected = q]_vars

\* The journal never describes a removal that did not happen: a target that
\* was refused, or whose directory would not go, is not there to be replayed.
NoPhantomEntry == \A e \in Range(journal) : e.path \in fell

\* The branch that is deleted is the branch the entry names, whatever was
\* checked out between the listing and the deletion, and only when asked.
DeletedBranchIsTheRecordedOne ==
    [][\A b \in Branches : (tip[b] # NoRef /\ tip'[b] = NoRef) =>
          \E p \in Procs : DroppedBy(p, b) /\ proc[p].deleteBranch /\ proc[p].entry.branch = b]_vars

\* Two processes that took the same worktree do not both remove it: the one
\* that finds its admin entry gone stops before the directory and the journal.
OneRemoverPerWorktree ==
    \A p, q \in Procs : (At(p, "pruned") /\ At(q, "pruned") /\ p # q) => proc[p].held # proc[q].held

\* gwm undo never makes a branch anywhere but at the recorded oid.
UndoRebuildsAtTheAnchor ==
    [][\A p \in Procs : \A b \in Branches :
         (/\ proc[p].pc \in {"popped", "rebuilt"} /\ proc'[p] # proc[p]
          /\ proc[p].entry.branch = b /\ proc[p].entry.oid # NoRef
          /\ tip[b] = NoRef /\ tip'[b] # NoRef)
         => tip'[b] = proc[p].entry.oid]_vars

\* Facts that carry the above from step to step: the handle is the confirmed
\* path, the entry is there when it is used, it names the branch observed, and
\* what is or may become part of the journal is about a directory that fell.
Recorded == {"recording", "recorded"}
HandleIsConfirmed(p) ==
    proc[p].pc \in {"held", "read", "pruned", "gone"} => proc[p].held = proc[p].expected
EntryIsThere(p) ==
    proc[p].pc \in Recorded \cup {"popped", "rebuilt", "added"} => proc[p].entry \in Entry
EntryNamesHead(p) ==
    (proc[p].pc \in Recorded /\ proc[p].head \in Branches) => proc[p].entry.branch = proc[p].head
SnapshotFell(p) ==
    /\ \A e \in Range(proc[p].snapshot) : e.path \in fell
    /\ proc[p].pc = "gone" => proc[p].held \in fell
    /\ proc[p].pc = "recording" => proc[p].entry.path \in fell
    /\ proc[p].found = proc[p].expected

ProcInv == \A p \in Procs : HandleIsConfirmed(p) /\ EntryIsThere(p) /\ EntryNamesHead(p)
\* Inductive: types, and for each process that the handle it prunes is at the
\* confirmed path and that its entry names the branch it observed (remove_inner).
Inv == TypeOK /\ ProcInv
FallenInv == NoPhantomEntry /\ \A p \in Procs : SnapshotFell(p)

\* When a branch is deleted, the journal holds the entry that names it, or the
\* user was told it does not (history.rs, 241-247).
AnchorBeforeDelete ==
    [][\A b \in Branches : (tip[b] # NoRef /\ tip'[b] = NoRef) =>
          \E p \in Procs : /\ DroppedBy(p, b)
                          /\ (proc[p].entry \in Range(journal) \/ proc[p].warned)]_vars

\* An entry leaves the journal when the undo that replays it has its worktree
\* back, or when the cap drops it as the oldest; never otherwise.
Replayed(e) == \E p \in Procs : At(p, "added") /\ proc[p].entry = e
AnchorKept ==
    [][\A e \in Range(journal) \ Range(journal') :
          \/ Replayed(e)
          \/ Len(journal) = MaxEntries /\ \A f \in Range(journal) : e.ts <= f.ts]_vars

\* What was removed can be brought back as it was: recorded before its branch goes,
\* kept until it is replayed, and rebuilt where it stood (history::record, cmd_undo).
UndoCanBringBack == AnchorBeforeDelete /\ AnchorKept /\ UndoRebuildsAtTheAnchor

\* The pre_remove hook runs where the user confirmed it would.
HookRunsWhereConfirmed == \A p \in Procs : At(p, "verified") => proc[p].found = proc[p].expected

\* The handle's check closes the window: what is pruned is what was confirmed.
PruneIsOfTheConfirmed ==
    [][\A id \in Ids : \A p \in Procs :
         (At(p, "read") /\ proc[p].id = id /\ proc'[p].pc = "pruned")
            => admin[id] = proc[p].expected]_vars

=============================================================================
