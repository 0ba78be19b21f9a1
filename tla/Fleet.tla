---------------------------------- MODULE Fleet ----------------------------------
(***************************************************************************)
(* `gwm exec` over the worktrees of a repository or of a workspace: what a *)
(* slug names, the plans that are all made before anything runs, the pool  *)
(* of threads that share a counter, and the exit code (src/src/exec.rs,    *)
(* src/src/cli.rs, find_fuzzy of src/src/worktree.rs).                     *)
(*                                                                         *)
(* A worktree is a record of its repository, its id and its display name;  *)
(* `Within` says which pattern is a part of which name.                    *)
(***************************************************************************)
EXTENDS Naturals, SequencesExt

CONSTANTS
    Repos,          \* 1 .. the number of repositories, in the order of the workspace
    Worktrees,      \* what may be there, of [repo, id, name]
    Patterns,       \* what a user may type
    Within,         \* pairs of a pattern and a name that contains it
    MaxSlugs,       \* bound: slugs on the command line
    MaxJobs         \* bound: threads

VARIABLES
    listed,     \* the worktrees that exist
    slugs,      \* the arguments; none: every worktree
    planned,    \* [Repos -> BOOLEAN]: the profile resolves there
    wraps,      \* worktrees whose command can be given its container
    jobs,       \* threads of a repository
    step,       \* where the command is
    targets, now,   \* the worktrees of each repository, and the repository at work
    next, pool, slots, \* the shared counter, the threads, their results
    started, results   \* history: how often each target was started; all the outcomes

fvars == <<listed, slugs, planned, wraps, jobs, step, targets, now, next, pool, slots,
           started, results>>

Threads == 1 .. MaxJobs
Outcomes == {"ok", "failed", "none"}

FleetTypeOK ==
    /\ listed \subseteq Worktrees
    /\ slugs \in Seq(Patterns)
    /\ planned \in [Repos -> BOOLEAN] /\ wraps \subseteq Worktrees
    /\ jobs \in [Repos -> Threads]
    /\ step \in {"resolve", "plan", "run", "rollup", "ok", "failed", "refused"}
    /\ targets \in [Repos -> Seq(Worktrees)]
    /\ now \in Nat /\ next \in Nat
    /\ pool \in [Threads -> Nat]
    /\ slots \in Seq(Outcomes)

FleetInit ==
    /\ listed \in SUBSET Worktrees
    /\ slugs \in UNION {[1 .. n -> Patterns] : n \in 0 .. MaxSlugs}
    /\ planned \in [Repos -> BOOLEAN]
    /\ wraps \in {Worktrees} \cup {Worktrees \ {w} : w \in Worktrees}
    /\ jobs \in {[r \in Repos |-> n] : n \in Threads}
    /\ step = "resolve"
    /\ targets = [r \in Repos |-> <<>>]
    /\ now = 0 /\ next = 1
    /\ pool = [t \in Threads |-> 0] /\ slots = <<>>
    /\ started = <<>> /\ results = <<>>

-----------------------------------------------------------------------------
\* Nothing is going on here.
FleetRest ==
    /\ listed = {} /\ slugs = <<>> /\ planned = [r \in Repos |-> FALSE] /\ wraps = {}
    /\ jobs = [r \in Repos |-> 1] /\ step = "ok"
    /\ targets = [r \in Repos |-> <<>>] /\ now = 0 /\ next = 1
    /\ pool = [t \in Threads |-> 0] /\ slots = <<>> /\ started = <<>> /\ results = <<>>

\* find_fuzzy: by display name unless another's id says the same, by id, and last
\* by a part of the name, each time only if it is the only one.
Of(r) == {w \in listed : w.repo = r}

\* Slip in Find: a name hides another's id.
FindByName(pattern, all) ==
    LET named == {w \in all : w.name = pattern}
        withId == {w \in all : w.id = pattern}
        part == {w \in all : <<pattern, w.name>> \in Within}
    IN  IF Cardinality(named) = 1 THEN named
        ELSE IF withId # {} THEN withId
        ELSE IF Cardinality(part) = 1 THEN part ELSE {}

Find(pattern, all) ==
    LET named == {w \in all : w.name = pattern}
        withId == {w \in all : w.id = pattern}
        part == {w \in all : <<pattern, w.name>> \in Within}
    IN  IF Cardinality(named) > 1 \/ (named # {} /\ withId \ named # {}) THEN {}
        ELSE IF named # {} THEN named
        ELSE IF withId # {} THEN withId
        ELSE IF Cardinality(part) = 1 THEN part ELSE {}

Ambiguous(pattern, all) ==
    /\ Find(pattern, all) = {}
    /\ \E w \in all : w.name = pattern \/ <<pattern, w.name>> \in Within

\* One worktree of each repository per slug that finds one there, in the order of
\* the slugs; without slugs all of them, here in the order of their ids.
Found(patterns, all) ==
    FlattenSeq([i \in 1 .. Len(patterns) |-> SetToSeq(Find(patterns[i], all))])

Resolved(r) == IF slugs = <<>> THEN SetToSeq(Of(r)) ELSE Found(slugs, Of(r))

\* A slug that is ambiguous somewhere, or is found nowhere, is an error.
Typo ==
    \E i \in 1 .. Len(slugs) :
        \/ \E r \in Repos : Ambiguous(slugs[i], Of(r))
        \/ \A r \in Repos : Find(slugs[i], Of(r)) = {}

Resolve ==
    /\ step = "resolve"
    /\ IF Typo THEN step' = "refused" /\ UNCHANGED targets
       ELSE step' = "plan" /\ targets' = [r \in Repos |-> Resolved(r)]
    /\ UNCHANGED <<listed, slugs, planned, wraps, jobs, now, next, pool, slots, started, results>>

\* Every repository that takes part is planned and every command built before the
\* first one runs; with no part to take, one good plan anywhere will do.
Taking == {r \in Repos : targets[r] # <<>>}
Wrapped(r) == \A i \in 1 .. Len(targets[r]) : targets[r][i] \in wraps
AllPlanned == \A r \in Taking : planned[r] /\ Wrapped(r)

Plan ==
    /\ step = "plan"
    /\ step' = IF Taking = {}
               THEN IF \E r \in Repos : planned[r] THEN "ok" ELSE "refused"
               ELSE IF AllPlanned THEN "run" ELSE "refused"
    /\ UNCHANGED <<listed, slugs, planned, wraps, jobs, targets, now, next, pool, slots,
                   started, results>>

\* The next repository that takes part.
Open(r) ==
    /\ step = "run" /\ r \in Taking /\ r > now
    /\ \A q \in Taking : q > now => r <= q
    /\ now = 0 \/ "none" \notin {slots[i] : i \in 1 .. Len(slots)}
    /\ \A t \in Threads : pool[t] = 0
    /\ now' = r /\ next' = 1
    /\ slots' = [i \in 1 .. Len(targets[r]) |-> "none"]
    /\ started' = Append(started, [i \in 1 .. Len(targets[r]) |-> 0])
    /\ results' = results \o (IF now = 0 THEN <<>> ELSE slots)
    /\ UNCHANGED <<listed, slugs, planned, wraps, jobs, step, targets, pool>>

\* Slip in Claim: an index read and written back in two steps.
ClaimNothing(i) == next' \in {i, i + 1}

\* A thread takes an index with fetch_add.
Claim(i) == next' = i + 1
Workers == {t \in Threads : t <= jobs[now] /\ t <= Len(slots)}

Take(t) ==
    /\ step = "run" /\ now # 0 /\ t \in Workers
    /\ pool[t] = 0 /\ next <= Len(slots)
    /\ pool' = [pool EXCEPT ![t] = next]
    /\ Claim(next)
    /\ started' = [started EXCEPT ![Len(started)][next] = @ + 1]
    /\ UNCHANGED <<listed, slugs, planned, wraps, jobs, step, targets, now, slots, results>>

\* The command ends, and its outcome is put in the slot of its target.
Finish(t) ==
    /\ pool[t] # 0
    /\ \E outcome \in {"ok", "failed"} : slots' = [slots EXCEPT ![pool[t]] = outcome]
    /\ pool' = [pool EXCEPT ![t] = 0]
    /\ UNCHANGED <<listed, slugs, planned, wraps, jobs, step, targets, now, next, started, results>>

\* All the threads of the last repository are joined.
Join ==
    /\ step = "run" /\ now # 0
    /\ \A r \in Taking : r <= now
    /\ next > Len(slots) /\ \A t \in Threads : pool[t] = 0
    /\ results' = results \o slots
    /\ step' = "rollup"
    /\ UNCHANGED <<listed, slugs, planned, wraps, jobs, targets, now, next, pool, slots, started>>

Rollup ==
    /\ step = "rollup"
    /\ step' = IF \A i \in 1 .. Len(results) : results[i] = "ok" THEN "ok" ELSE "failed"
    /\ UNCHANGED <<listed, slugs, planned, wraps, jobs, targets, now, next, pool, slots,
                   started, results>>

FleetNext ==
    \/ Resolve \/ Plan \/ Join \/ Rollup
    \/ \E r \in Repos : Open(r)
    \/ \E t \in Threads : Take(t) \/ Finish(t)

FleetSpec == FleetInit /\ [][FleetNext]_fvars

-----------------------------------------------------------------------------
\* A command that was not refused ran once in every target, each result is in the
\* slot of its target, and the exit code is of all of them (run_in_dirs_parallel,
\* rollup_exit_code); one that was refused ran nowhere (exec_plan and argv_for of
\* every repository come first).
EveryTargetOnce ==
    /\ \A k \in 1 .. Len(started) : \A i \in 1 .. Len(started[k]) : started[k][i] <= 1
    /\ step = "refused" => started = <<>>
    /\ step \in {"rollup", "ok", "failed"} =>
          /\ Len(started) = Cardinality(Taking)
          /\ \A k \in 1 .. Len(started) : \A i \in 1 .. Len(started[k]) : started[k][i] = 1
          /\ "none" \notin {results[i] : i \in 1 .. Len(results)}

\* What a slug finds is the only worktree it can mean: no other has that very name
\* or id, and if it is only a part of a name, of no other (find_fuzzy).
SlugsMeanOne ==
    \A p \in Patterns, r \in Repos : \A w \in Find(p, Of(r)) :
        /\ \A v \in Of(r) \ {w} : v.name # p
        /\ w.name = p => \A v \in Of(r) \ {w} : v.id # p
        /\ (w.name # p /\ w.id # p) => \A v \in Of(r) \ {w} : v.id # p /\ <<p, v.name>> \notin Within
=============================================================================
