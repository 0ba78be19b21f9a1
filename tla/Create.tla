--------------------------------- MODULE Create ---------------------------------
(***************************************************************************)
(* The branch and the worktree of `gwm create`, `gwm review` and the TUI's *)
(* create: what is refused, what is made, and the rollback of the branch   *)
(* when the worktree cannot be added (worktree::add, src/src/worktree.rs;  *)
(* materialize, src/src/review.rs; cmd_create, src/src/cli.rs).            *)
(*                                                                         *)
(* Several processes create at once, and others commit, switch, move and   *)
(* delete branches between any two steps.  The directory of a worktree is  *)
(* named after its branch.  `Windows` names the gaps between a check and   *)
(* its use in which others are let in.                                     *)
(***************************************************************************)
EXTENDS Naturals

CONSTANTS
    Creators,       \* processes
    Names,          \* branches, and the worktrees named after them
    NoTip,          \* no such branch
    Windows,        \* of {"checkout", "move"}
    MaxCommit,      \* bound: commits
    MaxOthers       \* bound: steps of others

VARIABLES
    tip,        \* refs/heads of Names
    base,       \* the commit of the main checkout's HEAD
    head,       \* the HEAD of each checkout; of a half-made one too
    disk,       \* directories that exist
    stamped,    \* branches with a branch.<name>.gwm-created-at
    job,        \* the processes
    commits, others

refs == <<tip, base, head, disk, stamped>>
vars == <<refs, job, commits, others>>

Checkouts == {"main"} \cup Names
Tips == Nat \cup {NoTip}

Steps == {"idle", "asked", "fetching", "adding", "attaching", "unwinding", "deleting",
          "unstamping", "dropping", "done"}

Job == [pc : Steps,
        call : {"create", "review", "tui"}, name : Names,
        reuses : BOOLEAN,               \* --reuse-branch
        found : BOOLEAN,                \* history: the branch was there before
        made : BOOLEAN, at : Nat,       \* the branch is this call's, made at a commit
        result : {"none", "created", "refused", "exists", "failed"}]

TypeOK ==
    /\ tip \in [Names -> Tips]
    /\ base \in Nat
    /\ head \in [Checkouts -> Names \cup {"base", "none"}]
    /\ disk \subseteq Names
    /\ stamped \subseteq Names
    /\ job \in [Creators -> Job]
    /\ commits \in Nat /\ others \in Nat

Idle(n) == [pc |-> "idle", call |-> "create", name |-> n, reuses |-> FALSE,
            found |-> FALSE, made |-> FALSE, at |-> 0, result |-> "none"]

Init ==
    /\ tip \in [Names -> {0, NoTip}]
    /\ base = 0
    /\ head = [c \in Checkouts |-> IF c = "main" THEN "base" ELSE "none"]
    /\ disk \in SUBSET Names
    /\ stamped = {}
    /\ job \in [Creators -> {Idle(n) : n \in Names}]
    /\ commits = 0 /\ others = 0

\* Nothing is going on here.
Rest ==
    /\ tip = [n \in Names |-> NoTip] /\ base = 0
    /\ head = [c \in Checkouts |-> IF c = "main" THEN "base" ELSE "none"]
    /\ disk = {} /\ stamped = {}
    /\ job = [p \in Creators |-> Idle(CHOOSE n \in Names : TRUE)]
    /\ commits = 0 /\ others = 0

Exists(n) == tip[n] # NoTip
CheckedOut(n) == \E c \in Checkouts : head[c] = n

To(p, step) == job' = [job EXCEPT ![p].pc = step]
Ends(p, result) == job' = [job EXCEPT ![p].pc = "done", ![p].result = result]

-----------------------------------------------------------------------------
Start(p) ==
    /\ job[p].pc = "idle"
    /\ \E call \in {"create", "review", "tui"}, reuses \in BOOLEAN :
        /\ reuses => call = "create"
        /\ job' = [job EXCEPT ![p].call = call, ![p].reuses = reuses,
                              ![p].pc = IF call = "review" THEN "fetching" ELSE "asked"]
    /\ UNCHANGED <<refs, commits, others>>

\* create --issue <N>: the worktree that carries the number already is reported; a
\* closed issue, a forge that does not answer, and the gate, are refusals.
Ask(p) ==
    LET n == job[p].name IN
    /\ job[p].pc = "asked"
    /\ \/ To(p, "adding")
       \/ Ends(p, "refused")
       \/ job[p].call = "create" /\ head[n] = n /\ Ends(p, "exists")
    /\ UNCHANGED <<refs, commits, others>>

\* materialize: the head of the PR is fetched into a branch that must not exist.
FetchFails(p) ==
    LET n == job[p].name IN
    /\ job[p].pc = "fetching"
    /\ Ends(p, IF Exists(n) \/ n \in disk THEN "refused" ELSE "failed")
    /\ UNCHANGED <<refs, commits, others>>

FetchHead(p) ==
    LET n == job[p].name IN
    /\ job[p].pc = "fetching" /\ ~ Exists(n) /\ n \notin disk /\ commits < MaxCommit
    /\ commits' = commits + 1
    /\ tip' = [tip EXCEPT ![n] = commits']
    /\ job' = [job EXCEPT ![p].made = TRUE, ![p].at = commits', ![p].pc = "adding"]
    /\ UNCHANGED <<base, head, disk, stamped, others>>

Reuses(j) == j.reuses \/ j.call = "review"
AfterFailure(j) == IF j.call = "review" THEN "dropping" ELSE "unwinding"

\* add: a directory or, unless it may be reused, a branch of the name is refused.
Refuse(p) ==
    LET j == job[p] IN
    /\ j.pc = "adding"
    /\ j.name \in disk \/ (Exists(j.name) /\ ~ Reuses(j))
    /\ IF j.call = "review" THEN To(p, "dropping") ELSE Ends(p, "refused")
    /\ UNCHANGED <<refs, commits, others>>

FindBranch(p) ==
    LET j == job[p] IN
    /\ j.pc = "adding" /\ j.name \notin disk /\ Exists(j.name) /\ Reuses(j)
    /\ job' = [job EXCEPT ![p].found = TRUE, ![p].pc = "attaching"]
    /\ UNCHANGED <<refs, commits, others>>

\* It is made where HEAD is here, and stamped.
MakeBranch(p) ==
    LET j == job[p] IN
    /\ j.pc = "adding" /\ j.name \notin disk /\ ~ Exists(j.name)
    /\ tip' = [tip EXCEPT ![j.name] = base]
    /\ stamped' = stamped \cup {j.name}
    /\ job' = [job EXCEPT ![p].made = TRUE, ![p].at = base, ![p].pc = "attaching"]
    /\ UNCHANGED <<base, head, disk, commits, others>>

\* git_worktree_add: refused for a branch that is checked out or an entry that is
\* there; failed before its HEAD is written, or after; or done.
NotWhileDeleting(n) ==
    "checkout" \in Windows \/ \A q \in Creators : job[q].pc = "deleting" => job[q].name # n

AttachFails(p) ==
    LET j == job[p] n == j.name IN
    /\ j.pc = "attaching"
    /\ To(p, AfterFailure(j))
    /\ \/ UNCHANGED <<head, disk>>
       \/ /\ ~ CheckedOut(n) /\ head[n] = "none"
          /\ (Exists(n) /\ NotWhileDeleting(n)) \/ "checkout" \in Windows
          /\ head' = [head EXCEPT ![n] = n]
          /\ disk' \in {disk, disk \cup {n}}
    /\ UNCHANGED <<tip, base, stamped, commits, others>>

Attach(p) ==
    LET j == job[p] n == j.name IN
    /\ j.pc = "attaching" /\ ~ CheckedOut(n) /\ head[n] = "none"
    /\ Exists(n) /\ NotWhileDeleting(n)
    /\ head' = [head EXCEPT ![n] = n]
    /\ disk' = disk \cup {n}
    /\ Ends(p, "created")
    /\ UNCHANGED <<tip, base, stamped, commits, others>>

\* Slip in Unwind: no question where the branch is checked out.
AlwaysDeletes(p) ==
    LET j == job[p] IN
    /\ j.pc = "unwinding"
    /\ IF j.made THEN To(p, "deleting") ELSE Ends(p, "failed")
    /\ UNCHANGED <<refs, commits, others>>

\* The rollback: only of a branch made by add and checked out nowhere,
Unwind(p) ==
    LET j == job[p] IN
    /\ j.pc = "unwinding"
    /\ IF j.made /\ ~ CheckedOut(j.name) THEN To(p, "deleting") ELSE Ends(p, "failed")
    /\ UNCHANGED <<refs, commits, others>>

\* Slip in StillOurs: whatever has the name by then.
StillThere(j) == Exists(j.name)

\* only while it is where add put it, and its stamp only if the branch went.
StillOurs(j) == tip[j.name] = j.at

DeleteBranch(p) ==
    LET j == job[p] IN
    /\ j.pc = "deleting"
    /\ IF StillOurs(j)
       THEN tip' = [tip EXCEPT ![j.name] = NoTip] /\ To(p, "unstamping")
       ELSE Ends(p, "failed") /\ UNCHANGED tip
    /\ UNCHANGED <<base, head, disk, stamped, commits, others>>

Unstamp(p) ==
    /\ job[p].pc = "unstamping"
    /\ stamped' = stamped \ {job[p].name}
    /\ Ends(p, "failed")
    /\ UNCHANGED <<tip, base, head, disk, commits, others>>

\* A review deletes its branch by name; libgit2 refuses one that is checked out.
DropFetched(p) ==
    LET j == job[p] IN
    /\ j.pc = "dropping"
    /\ tip' = IF CheckedOut(j.name) THEN tip ELSE [tip EXCEPT ![j.name] = NoTip]
    /\ stamped' = IF CheckedOut(j.name) THEN stamped ELSE stamped \ {j.name}
    /\ Ends(p, "failed")
    /\ UNCHANGED <<base, head, disk, commits, others>>

-----------------------------------------------------------------------------
\* The others.
Others == others < MaxOthers /\ others' = others + 1 /\ UNCHANGED job

\* A review has fetched it, and has neither attached nor dropped it yet.
Fetched(n) ==
    \E p \in Creators : /\ job[p].call = "review" /\ job[p].name = n
                       /\ job[p].made /\ job[p].pc # "done"

\* A commit in a checkout moves the branch it is on; in the main one, which may be
\* switched away again, not while a review has the branch fetched.
Commit(c) ==
    /\ Others /\ commits < MaxCommit /\ head[c] # "none"
    /\ c = "main" /\ Fetched(head[c]) => "move" \in Windows
    /\ commits' = commits + 1
    /\ tip' = IF head[c] = "base" THEN tip ELSE [tip EXCEPT ![head[c]] = commits']
    /\ base' = IF c = "main" THEN commits' ELSE base
    /\ UNCHANGED <<head, disk, stamped>>

\* git switch in the main checkout.
Switch(n) ==
    /\ Others /\ Exists(n) /\ ~ CheckedOut(n) /\ NotWhileDeleting(n)
    /\ head' = [head EXCEPT !["main"] = n]
    /\ base' = tip[n]
    /\ UNCHANGED <<tip, disk, stamped, commits>>

\* git branch -f or a fetch, and git branch -d, of a branch that is checked out
\* nowhere.
Free(n) == Exists(n) /\ ~ CheckedOut(n) /\ (Fetched(n) => "move" \in Windows)

Move(n) ==
    /\ Others /\ Free(n) /\ commits < MaxCommit
    /\ commits' = commits + 1
    /\ tip' = [tip EXCEPT ![n] = commits']
    /\ UNCHANGED <<base, head, disk, stamped>>

Delete(n) ==
    /\ Others /\ Free(n)
    /\ tip' = [tip EXCEPT ![n] = NoTip]
    /\ stamped' = stamped \ {n}
    /\ UNCHANGED <<base, head, disk, commits>>

Next ==
    \/ \E p \in Creators :
        \/ Start(p) \/ Ask(p) \/ FetchFails(p) \/ FetchHead(p)
        \/ Refuse(p) \/ FindBranch(p) \/ MakeBranch(p) \/ Attach(p) \/ AttachFails(p)
        \/ Unwind(p) \/ DeleteBranch(p) \/ Unstamp(p) \/ DropFetched(p)
    \/ \E c \in Checkouts : Commit(c)
    \/ \E n \in Names : Switch(n) \/ Move(n) \/ Delete(n)

Spec == Init /\ [][Next]_vars

-----------------------------------------------------------------------------
\* No checkout stands on a branch that is gone: the rollback leaves a branch that
\* some checkout, whole or half-made, has as its HEAD
\* (branch_is_checked_out_anywhere).
NoCheckoutIsStranded == \A c \in Checkouts : head[c] \in Names => Exists(head[c])

\* A rollback deletes only a branch that its own call made, and where the call put
\* it: a reused branch, and what others committed or moved there, stay.
RollbackTakesOnlyItsOwn ==
    [][\A p \in Creators, n \in Names :
          /\ job[p].pc \in {"deleting", "dropping"} /\ job'[p].pc \in {"unstamping", "done"}
          /\ Exists(n) /\ tip'[n] = NoTip
          => job[p].made /\ (job[p].found => job[p].call = "review") /\ tip[n] = job[p].at]_vars
=============================================================================
