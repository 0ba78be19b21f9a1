------------------------------- MODULE RenameSaga -------------------------------
(***************************************************************************)
(* Renaming a worktree: its directory, its local branch, the branch on     *)
(* origin and the note that is keyed on the name, in that order, each step *)
(* a git command of its own, undone backwards when a later one fails       *)
(* (rename_worktree, src/src/worktree.rs; rename, src/src/notes.rs).       *)
(* Others push, create branches and write notes in between.                *)
(*                                                                         *)
(* Two names are in play, of the directory and of the branch: "old" and    *)
(* "new".  A tip is the set of commits it reaches, so that one contains    *)
(* another when it includes it.  A directory that appears at the target    *)
(* after the preflight is left out: git would move the worktree inside it. *)
(***************************************************************************)
EXTENDS Naturals

CONSTANTS
    NoTip,          \* a branch that does not exist
    MaxCommit,      \* bound: commits made by others and here
    MaxWorld,       \* bound: steps of the others
    Failures,       \* a command may fail
    LostAnswers,    \* origin may take a push and its answer never arrive
    Rewrites,       \* the branch may be reset between its last check and the push
    Lookalikes,     \* origin may have a branch whose name ends in the old one
    EarlyWriters    \* a note may be written between the check and its move

VARIABLES
    at,         \* where the worktree is
    taken,      \* directories that are somebody else's
    named,      \* the name of its branch
    local,      \* refs/heads
    remote,     \* refs/heads on origin
    tracks,     \* branch.<name>.merge
    note,       \* the prose under each name
    job,        \* the rename: its plan and its progress
    pushed,     \* history: what the rename changed on origin
    commits, worldSteps

world == <<commits, worldSteps>>
vars == <<at, taken, named, local, remote, tracks, note, job, pushed, world>>

Names == {"old", "new"}
Tip == {NoTip} \cup SUBSET (0 .. MaxCommit)
Prose == {"none", "first", "second"}

Steps == {"asked", "checked", "moved", "renamed", "found", "fetched", "contained",
          "clear", "tracking", "noting", "carrying", "unnaming", "unmoving", "done"}
Results == {"ok", "target", "note", "move", "rename", "lookup", "unfetched", "exists", "push"}

Job == [pc : Steps,
        moves : BOOLEAN, renames : BOOLEAN,     \* what differs between old and new
        portable : BOOLEAN,                     \* the new name can back a note file
        hasOrigin : BOOLEAN, lookalike : BOOLEAN,
        seen : Tip,                             \* FETCH_HEAD, then the lease
        unable : SUBSET {"name", "move"},       \* history: what git failed to put back
        result : Results]

TypeOK ==
    /\ at \in Names \cup {"inside"}
    /\ taken \subseteq Names
    /\ named \in Names
    /\ local \in [Names -> Tip]
    /\ remote \in [Names -> Tip]
    /\ tracks \in Names \cup {"none"}
    /\ note \in [Names -> Prose]
    /\ job \in Job
    /\ pushed \subseteq Names
    /\ commits \in Nat /\ worldSteps \in Nat

Exists(tip) == tip # NoTip

Init ==
    /\ at = "old" /\ named = "old"
    /\ taken \in SUBSET {"new"}
    /\ local \in {f \in [Names -> {{0}, NoTip}] : f["old"] = {0}}
    /\ remote \in [Names -> {{0}, NoTip}]
    /\ tracks = IF Exists(remote["old"]) THEN "old" ELSE "none"
    /\ note \in {f \in [Names -> Prose] : f["old"] # "second" /\ f["new"] # "first"}
    /\ job \in [pc : {"asked"}, moves : BOOLEAN, renames : BOOLEAN, portable : BOOLEAN,
                hasOrigin : BOOLEAN, lookalike : BOOLEAN, seen : {NoTip}, unable : {{}}, result : {"ok"}]
    /\ job.moves \/ job.renames
    /\ job.lookalike => Lookalikes
    /\ ~ job.portable => note["new"] = "none"
    /\ ~ job.hasOrigin => \A n \in Names : ~ Exists(remote[n])
    /\ pushed = {}
    /\ commits = 0 /\ worldSteps = 0

\* A worktree that nobody renames.
Rest ==
    /\ at = "old" /\ named = "old" /\ taken = {} /\ tracks = "none" /\ pushed = {}
    /\ local = [n \in Names |-> NoTip] /\ remote = local
    /\ note = [n \in Names |-> "none"]
    /\ job = [pc |-> "asked", moves |-> FALSE, renames |-> FALSE, portable |-> TRUE,
              hasOrigin |-> FALSE, lookalike |-> FALSE, seen |-> NoTip, unable |-> {},
              result |-> "ok"]
    /\ commits = 0 /\ worldSteps = 0

-----------------------------------------------------------------------------
\* The others.
OthersMove ==
    /\ worldSteps < MaxWorld /\ job.pc # "done"
    /\ worldSteps' = worldSteps + 1
    /\ UNCHANGED <<at, named, tracks, job, pushed>>

\* git push from another clone, to the old name or to the new one.
OthersPush(n) ==
    /\ OthersMove /\ job.hasOrigin /\ commits < MaxCommit
    /\ commits' = commits + 1
    /\ remote' = [remote EXCEPT ![n] = (IF Exists(@) THEN @ ELSE {0}) \cup {commits'}]
    /\ UNCHANGED <<taken, local, note>>

OthersDelete(n) ==
    /\ OthersMove /\ Exists(remote[n])
    /\ remote' = [remote EXCEPT ![n] = NoTip]
    /\ UNCHANGED <<taken, local, note, commits>>

OthersBranchFrom ==
    /\ OthersMove /\ Exists(remote["old"]) /\ ~ Exists(remote["new"])
    /\ remote' = [remote EXCEPT !["new"] = remote["old"]]
    /\ UNCHANGED <<taken, local, note, commits>>

\* In the worktree itself: a pull, a commit, or a reset.
PullHere ==
    /\ OthersMove /\ Exists(remote["old"])
    /\ local' = [local EXCEPT ![named] = @ \cup remote["old"]]
    /\ UNCHANGED <<taken, remote, note, commits>>

CommitHere ==
    /\ OthersMove /\ commits < MaxCommit
    /\ commits' = commits + 1
    /\ local' = [local EXCEPT ![named] = @ \cup {commits'}]
    /\ UNCHANGED <<taken, remote, note>>

ResetHere ==
    /\ OthersMove /\ local[named] # {0}
    /\ job.pc \in {"contained", "clear"} => Rewrites
    /\ local' = [local EXCEPT ![named] = {0}]
    /\ UNCHANGED <<taken, remote, note, commits>>

\* The name and the directory left behind are free for others.
Squat ==
    /\ OthersMove
    /\ \/ named = "new" /\ ~ Exists(local["old"])
          /\ local' = [local EXCEPT !["old"] = {0}] /\ UNCHANGED taken
       \/ at = "new" /\ taken' = taken \cup {"old"} /\ UNCHANGED local
    /\ UNCHANGED <<remote, note, commits>>

\* An editor saves a note: under the old name, or under the new one once it is
\* the name of a branch.
WriteNote(n) ==
    /\ OthersMove
    /\ note[n] = "none" /\ \A k \in Names : note[k] # "second"
    /\ n = "new" => Exists(local["new"]) /\ job.portable
    /\ job.pc = "carrying" => EarlyWriters
    /\ note' = [note EXCEPT ![n] = "second"]
    /\ UNCHANGED <<taken, local, remote, commits>>

Others ==
    \/ \E n \in Names : OthersPush(n) \/ OthersDelete(n) \/ WriteNote(n)
    \/ OthersBranchFrom \/ PullHere \/ CommitHere \/ ResetHere \/ Squat

-----------------------------------------------------------------------------
At(step) == job.pc = step
Goes(step) == job' = [job EXCEPT !.pc = step]
Ends(result) == job' = [job EXCEPT !.pc = "done", !.result = result]

\* A step that failed is followed by what undoes the ones before it.
Undoes(step, result) == job' = [job EXCEPT !.pc = step, !.result = result]

\* Slip: a note under the new name is not looked for.
NoConflict == FALSE

\* move_conflict: prose under the new name, whether or not there is some to carry.
NoteConflict == note["new"] # "none"

\* Everything that refuses before anything is touched.
Preflight ==
    /\ At("asked")
    /\ IF job.moves /\ "new" \in taken THEN Ends("target")
       ELSE IF job.renames /\ ((note["old"] # "none" /\ ~ job.portable) \/ NoteConflict)
         THEN Ends("note")
       ELSE Goes("checked")
    /\ UNCHANGED <<at, taken, named, local, remote, tracks, note, pushed, world>>

\* git worktree move, from the main checkout.
MoveDir ==
    /\ At("checked")
    /\ \/ /\ at' = IF job.moves THEN "new" ELSE at
          /\ Goes("moved")
       \/ /\ Failures /\ job.moves
          /\ Ends("move") /\ UNCHANGED at
    /\ UNCHANGED <<taken, named, local, remote, tracks, note, pushed, world>>

\* git branch -m: it refuses a name that is taken, and carries the config.
RenameBranch ==
    /\ At("moved")
    /\ IF ~ job.renames
         THEN Ends("ok") /\ UNCHANGED <<named, local>>
         ELSE \/ /\ ~ Exists(local["new"])
                 /\ local' = [local EXCEPT !["new"] = local["old"], !["old"] = NoTip]
                 /\ named' = "new"
                 /\ Goes("renamed")
              \/ /\ Failures \/ Exists(local["new"])
                 /\ Undoes("unmoving", "rename")
                 /\ UNCHANGED <<named, local>>
    /\ UNCHANGED <<at, taken, remote, tracks, note, pushed, world>>

\* git remote get-url, then git ls-remote, whose pattern matches the end of a
\* name.
Lookup ==
    /\ At("renamed")
    /\ \/ /\ ~ job.hasOrigin \/ Failures
          /\ Goes("noting")
       \/ /\ job.hasOrigin
          /\ Goes(IF Exists(remote["old"]) \/ job.lookalike THEN "found" ELSE "noting")
       \/ /\ job.hasOrigin /\ Failures
          /\ Undoes("unnaming", "lookup")
    /\ UNCHANGED <<at, taken, named, local, remote, tracks, note, pushed, world>>

\* git fetch, its failure ignored, then FETCH_HEAD: the tip, or nothing.
Fetch ==
    /\ At("found")
    /\ \E tip \in {remote["old"]} \cup (IF Failures THEN {NoTip} ELSE {}) :
         job' = [job EXCEPT !.pc = "fetched", !.seen = tip]
    /\ UNCHANGED <<at, taken, named, local, remote, tracks, note, pushed, world>>

\* git merge-base --is-ancestor
IsContained == Exists(job.seen) /\ job.seen \subseteq local["new"]

CheckContained ==
    /\ At("fetched")
    /\ \/ IsContained /\ Goes("contained")
       \/ (Failures \/ ~ IsContained) /\ Undoes("unnaming", "unfetched")
    /\ UNCHANGED <<at, taken, named, local, remote, tracks, note, pushed, world>>

\* git ls-remote on the new name; a lookup that fails counts as absent.
CheckTarget ==
    /\ At("contained")
    /\ \/ Exists(remote["new"]) /\ Undoes("unnaming", "exists")
       \/ (Failures \/ ~ Exists(remote["new"])) /\ Goes("clear")
    /\ UNCHANGED <<at, taken, named, local, remote, tracks, note, pushed, world>>

\* Slip: only the delete is leased.
LeasesHoldOnOld == remote["old"] = job.seen

\* --force-with-lease on both refspecs.
LeasesHold == remote["old"] = job.seen /\ ~ Exists(remote["new"])

\* Slip: without --atomic a server that protects the old name takes the new one.
PushedApart ==
    IF LeasesHold THEN {[old |-> NoTip, new |-> local["new"]],
                        [old |-> remote["old"], new |-> local["new"]]} ELSE {}

\* git push --atomic origin :old new:new
PushedTogether ==
    IF LeasesHold THEN {[old |-> NoTip, new |-> local["new"]]} ELSE {}

Push ==
    /\ At("clear")
    /\ \/ /\ \E refs \in PushedTogether : \E answered \in BOOLEAN :
               /\ remote' = [n \in Names |-> refs[n]]
               /\ pushed' = {n \in Names : remote'[n] # remote[n]}
               /\ IF pushed' = Names /\ (answered \/ ~ LostAnswers) THEN Goes("tracking")
                  ELSE Undoes("unnaming", "push")
       \/ /\ Failures \/ ~ LeasesHold
          /\ Undoes("unnaming", "push")
          /\ UNCHANGED <<remote, pushed>>
    /\ UNCHANGED <<at, taken, named, local, tracks, note, world>>

\* git branch --set-upstream-to, its failure ignored.
Track ==
    /\ At("tracking")
    /\ tracks' = "new" \/ (Failures /\ UNCHANGED tracks)
    /\ Goes("noting")
    /\ UNCHANGED <<at, taken, named, local, remote, note, pushed, world>>

\* notes::rename, in its two system calls; a note it cannot carry stays behind.
CheckNote ==
    /\ At("noting")
    /\ IF note["old"] = "none" \/ ~ job.portable \/ NoteConflict THEN Ends("ok") ELSE Goes("carrying")
    /\ UNCHANGED <<at, taken, named, local, remote, tracks, note, pushed, world>>

CarryNote ==
    /\ At("carrying")
    /\ Ends("ok")
    /\ \/ note' = [note EXCEPT !["new"] = note["old"], !["old"] = "none"]
       \/ Failures /\ UNCHANGED note
    /\ UNCHANGED <<at, taken, named, local, remote, tracks, pushed, world>>

\* What undoes a step fails, for a lock, a full disk or the like; nothing looks at it.
UnableTo(what, next) ==
    Failures /\ job' = [job EXCEPT !.pc = next, !.unable = @ \cup {what}]

\* git branch -m new old, its failure ignored: it refuses a name that is taken.
Unname ==
    /\ At("unnaming")
    /\ \/ /\ ~ Exists(local["old"])
          /\ local' = [local EXCEPT !["old"] = local["new"], !["new"] = NoTip]
          /\ named' = "old"
          /\ Goes("unmoving")
       \/ Exists(local["old"]) /\ Goes("unmoving") /\ UNCHANGED <<named, local>>
       \/ UnableTo("name", "unmoving") /\ UNCHANGED <<named, local>>
    /\ UNCHANGED <<at, taken, remote, tracks, note, pushed, world>>

\* git worktree move back, its failure ignored; a directory that stands there
\* by now takes the worktree inside.
Unmove ==
    /\ At("unmoving")
    /\ \/ /\ Goes("done")
          /\ at' = IF ~ job.moves THEN at ELSE IF "old" \in taken THEN "inside" ELSE "old"
       \/ job.moves /\ UnableTo("move", "done") /\ UNCHANGED at
    /\ UNCHANGED <<taken, named, local, remote, tracks, note, pushed, world>>

Rename ==
    \/ Preflight \/ MoveDir \/ RenameBranch
    \/ Lookup \/ Fetch \/ CheckContained \/ CheckTarget \/ Push \/ Track
    \/ CheckNote \/ CarryNote
    \/ Unname \/ Unmove

Next == Rename \/ Others

Spec == Init /\ [][Next]_vars

-----------------------------------------------------------------------------
Refused == At("done") /\ job.result # "ok"

\* A rename that is refused, at whatever step, leaves the directory and the branch
\* where and as they were, unless somebody has taken their place by then or the git
\* command that puts them back failed in its turn (799-804).
NeverHalfRenamed ==
    Refused => /\ at = "old" \/ "old" \in taken \/ "move" \in job.unable
               /\ named = "old" \/ Exists(local["old"]) \/ "name" \in job.unable

\* As the comment of rename_worktree has it: a rename that is refused is rolled back,
\* so that the repo is never left half-renamed.  The code drops what the commands of
\* the rollback say (worktree.rs, 911-921, 967, 1011, 1036, 1076).
AlwaysPutBack == Refused => at = "old" /\ named = "old"

\* One that succeeds leaves neither behind.
NeverHalfDone ==
    (At("done") /\ job.result = "ok") =>
        /\ job.moves => at = "new"
        /\ job.renames => named = "new"

\* A note leaves the old name once nothing can bring that name back
\* (worktree.rs 1091-1096).
NoteMovesLast == note["old"] = "none" /\ note["new"] = "first" => At("done") /\ job.result = "ok"

\* A rename that is refused changed nothing on origin, so putting the local
\* side back is enough (1042-1047).
RefusalLeavesOrigin == Refused => pushed = {}

\* All or nothing: directory, branch and note here, and origin (rename_worktree and
\* its rollback).
WholeOrNothing ==
    TypeOK /\ NeverHalfRenamed /\ NeverHalfDone /\ NoteMovesLast /\ RefusalLeavesOrigin

\* What the old name held on origin, commits pushed during the rename included,
\* the new name holds, and the new name was nobody's (977-1064).
OriginLosesNothing ==
    [][pushed' # pushed => /\ remote["old"] = NoTip \/ remote["old"] \subseteq remote'["new"]
                           /\ ~ Exists(remote["new"])]_vars

\* No prose is lost: a note moves, it is never written over (notes.rs 366-386).
ProseIsKept ==
    [][\A n \in Names : note[n] # "none" => \E k \in Names : note'[k] = note[n]]_vars

\* A refusal for commits that are only on origin is about a branch that is on
\* origin (939-947).
RefusedForWhatIsThere == Refused /\ job.result = "unfetched" => Exists(remote["old"])

=============================================================================
