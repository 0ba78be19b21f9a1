---------------------------------- MODULE Sync ----------------------------------
(***************************************************************************)
(* Bringing a branch up to its upstream: `gwm sync` and its task in the    *)
(* TUI (src/src/sync.rs).  The worktree is looked at, the remote fetched,  *)
(* the counts taken again, and a rebase or a merge tried, which is aborted *)
(* when it fails.  An editor and others work in the worktree meanwhile.    *)
(*                                                                         *)
(* A branch is the set of commits it reaches; conflicts are chosen freely. *)
(***************************************************************************)
EXTENDS Naturals, FiniteSets

CONSTANTS
    Hashes,         \* commits others may push or make here
    Windows,        \* of {"worktree"}: it is edited after it was found clean
    MaxMoves        \* bound: steps of others

VARIABLES
    mine,       \* the local branch
    upstream,   \* the remote-tracking branch
    origin,     \* the branch on the remote
    tree,       \* [dirty, midway, detached, tracks]: the checkout
    sync,       \* [at, strategy, result], and whether git could not abort (stuck)
    before,     \* history: the local branch as integration found it
    moves

syvars == <<mine, upstream, origin, tree, sync, before, moves>>

SyncTypeOK ==
    /\ mine \subseteq Hashes /\ upstream \subseteq Hashes /\ origin \subseteq Hashes
    /\ tree \in [dirty : BOOLEAN, lost : BOOLEAN, midway : BOOLEAN,
                 detached : BOOLEAN, tracks : BOOLEAN]
    /\ sync \in [at : {"asked", "clean", "fetched", "behind", "failing", "done"},
                 strategy : {"rebase", "merge"},
                 result : {"none", "refused", "uptodate", "integrated", "conflict", "failed"},
                 stuck : BOOLEAN]
    /\ before \subseteq Hashes
    /\ moves \in 0 .. MaxMoves

SyncInit ==
    /\ mine \in SUBSET Hashes /\ origin \in SUBSET Hashes
    /\ upstream \in SUBSET origin
    /\ tree \in [dirty : BOOLEAN, lost : {FALSE}, midway : {FALSE},
                 detached : BOOLEAN, tracks : BOOLEAN]
    /\ sync \in [at : {"asked"}, strategy : {"rebase", "merge"}, result : {"none"}, stuck : {FALSE}]
    /\ before = {}
    /\ moves = 0

\* Nothing is going on here.
SyncRest ==
    /\ mine = {} /\ upstream = {} /\ origin = {} /\ before = {} /\ moves = 0
    /\ tree = [dirty |-> FALSE, lost |-> FALSE, midway |-> FALSE, detached |-> FALSE, tracks |-> TRUE]
    /\ sync = [at |-> "done", strategy |-> "rebase", result |-> "none", stuck |-> FALSE]

Reach(at) == sync' = [sync EXCEPT !.at = at]
Finish(result) == sync' = [sync EXCEPT !.at = "done", !.result = result]

\* Dirty, detached or without an upstream: refused before anything is fetched.
Look ==
    /\ sync.at = "asked"
    /\ IF tree.dirty \/ tree.detached \/ ~ tree.tracks THEN Finish("refused") ELSE Reach("clean")
    /\ UNCHANGED <<mine, upstream, origin, tree, before, moves>>

Fetch ==
    /\ sync.at = "clean"
    /\ \/ upstream' = origin /\ Reach("fetched")
       \/ Finish("failed") /\ UNCHANGED upstream
    /\ UNCHANGED <<mine, origin, tree, before, moves>>

\* ahead_behind, after the fetch and with the repository opened again.
Count ==
    /\ sync.at = "fetched"
    /\ IF upstream \subseteq mine THEN Finish("uptodate") /\ UNCHANGED before
       ELSE Reach("behind") /\ before' = mine
    /\ UNCHANGED <<mine, upstream, origin, tree, moves>>

\* git rebase or git merge: refused when the worktree is dirty, for a rebase, or
\* when what it would write is; stopped midway by a conflict; or done.
Integrate ==
    /\ sync.at = "behind"
    /\ \/ /\ ~ tree.dirty \/ sync.strategy = "merge"
          /\ mine' = mine \cup upstream
          /\ Finish("integrated") /\ UNCHANGED tree
       \/ /\ ~ tree.dirty \/ sync.strategy = "merge"
          /\ tree' = [tree EXCEPT !.midway = TRUE]
          /\ Reach("failing") /\ UNCHANGED mine
       \/ Reach("failing") /\ UNCHANGED <<mine, tree>>
    /\ UNCHANGED <<upstream, origin, before, moves>>

\* What the error says is read off the index before the abort; a stop midway that is no
\* conflict (a hook, no committer) has none there.
Complain == \E result \in {"failed"} \cup (IF tree.midway THEN {"conflict"} ELSE {}) :
               sync' = [sync EXCEPT !.at = "done", !.result = result]

\* git rebase --abort or git merge --abort: a merge that began in a dirty worktree may
\* not give the edits back.
Abort ==
    /\ sync.at = "failing"
    /\ tree' \in IF tree.midway
                 THEN {[tree EXCEPT !.midway = FALSE, !.lost = l, !.dirty = @ /\ ~ l] :
                           l \in {FALSE, tree.dirty}}
                 ELSE {tree}
    /\ Complain
    /\ UNCHANGED <<mine, upstream, origin, before, moves>>

\* The abort fails too (a lock on the index, a full disk), which nothing looks at: the
\* error that is given is the same.
AbortFails ==
    /\ sync.at = "failing" /\ tree.midway
    /\ \E result \in {"conflict", "failed"} :
          sync' = [sync EXCEPT !.at = "done", !.result = result, !.stuck = TRUE]
    /\ UNCHANGED <<mine, upstream, origin, tree, before, moves>>

-----------------------------------------------------------------------------
Others == moves < MaxMoves /\ moves' = moves + 1 /\ UNCHANGED <<upstream, sync, before>>

Push(c) == /\ Others /\ c \notin origin /\ origin' = origin \cup {c}
           /\ UNCHANGED <<mine, tree>>
Edit == /\ Others /\ ~ tree.dirty /\ ~ tree.midway
        /\ sync.at \in {"clean", "fetched", "behind"} => "worktree" \in Windows
        /\ tree' = [tree EXCEPT !.dirty = TRUE]
        /\ UNCHANGED <<mine, origin>>
CommitHere(c) == /\ Others /\ ~ tree.midway /\ c \notin mine \cup origin
                 /\ sync.at # "behind"
                 /\ mine' = mine \cup {c}
                 /\ UNCHANGED <<origin, tree>>

SyncNext ==
    \/ Look \/ Fetch \/ Count \/ Integrate \/ Abort \/ AbortFails
    \/ Edit \/ \E c \in Hashes : Push(c) \/ CommitHere(c)

SyncSpec == SyncInit /\ [][SyncNext]_syvars

-----------------------------------------------------------------------------
\* A sync that failed leaves the worktree as it was, unless git could not abort what it
\* had begun: no rebase or merge half done, the branch where it stood, and no edit lost;
\* one that says it integrated, or that there was nothing to do, has all of the upstream
\* it fetched, and no local commit is lost in any.
SyncIsWhole ==
    sync.at = "done" =>
        /\ ~ sync.stuck => ~ tree.midway
        /\ ~ tree.lost
        /\ sync.result \in {"uptodate", "integrated"} => ~ tree.midway /\ upstream \subseteq mine
        /\ before \subseteq mine

\* As the comment of sync has it: the operation that failed is aborted, so that the
\* worktree is left usable.  The code drops the error of the abort (sync.rs, 173), and
\* says "and was aborted" all the same.
LeftUsable == sync.at = "done" => ~ tree.midway
=============================================================================
