------------------------------ MODULE FetchCache ------------------------------
(***************************************************************************)
(* The TUI's cache of forge statuses (src/src/tui/state/github_fetch.rs)   *)
(* together with the claims of the spine it must move with: what the       *)
(* methods of GitHubFetch and the spawn helpers of app.rs do to a cache, a *)
(* runner and the flights in the air, as functions on one record.  A key   *)
(* is a side and a number; sides are "issue", "pr" and "threads".          *)
(*                                                                         *)
(* Every answer carries, as a history, the instance it was asked of and    *)
(* the epoch it was asked in: the number of flushes before it.             *)
(***************************************************************************)
EXTENDS TaskRunner, FiniteSets

CONSTANTS
    Instances,  \* backend, web origin and slug of a forge
    NoForge     \* no forge resolves

ASSUME FetchAssumption == NoForge \notin Instances

Blank == [phase |-> "idle", from |-> NoForge, epoch |-> 0]
Entry == [phase : {"idle", "loading", "loaded", "error"},
          from : Instances \cup {NoForge}, epoch : Nat]
Flight == [key : Kinds, generation : Nat, from : Instances, epoch : Nat]

EmptyFetch == [cache |-> [k \in Kinds |-> Blank], runner |-> NewRunner,
               flights |-> {}, epoch |-> 0]

FetchOK(f) ==
    /\ f.cache \in [Kinds -> Entry]
    /\ f.runner \in Runner
    /\ f.flights \subseteq Flight
    /\ f.epoch \in Nat

Phase(f, k) == f.cache[k].phase

\* has_terminal, is_cached.
IsCached(f, k) == Phase(f, k) \in {"loaded", "error"}

\* Slip: the cache is flushed and the spine left alone.
FlushedCacheOnly(f) ==
    [f EXCEPT !.cache = [k \in Kinds |-> Blank], !.epoch = @ + 1]

\* Slip: only the issues go.
FlushedIssues(f) ==
    [f EXCEPT !.cache = [k \in Kinds |-> IF k[1] = "issue" \/ @[k].phase = "loading"
                                            THEN Blank ELSE @[k]],
              !.runner = InvalidatedMatching(@, Kinds),
              !.epoch = @ + 1]

\* GitHubFetch::invalidate paired with invalidate_matching(is_github).
Flushed(f) ==
    [f EXCEPT !.cache = [k \in Kinds |-> Blank],
              !.runner = InvalidatedMatching(@, Kinds),
              !.epoch = @ + 1]

\* Slip: a relist empties the cache, and what is in flight with it.
ExpiredWithFlights(f, kept) ==
    [f EXCEPT !.cache = [k \in Kinds |-> IF k \in kept THEN @[k] ELSE Blank],
              !.runner = InvalidatedMatching(@, Kinds)]

\* invalidate_settled: outcomes go, fetches in flight and the kept ones stay.
Expired(f, kept) ==
    [f EXCEPT !.cache = [k \in Kinds |->
        IF Phase(f, k) = "loading" \/ k \in kept THEN @[k] ELSE Blank]]

\* spawn_github_issue, spawn_github_pr, spawn_github_pr_threads: a terminal
\* entry and a claim in flight both answer for the key; the rest is claimed,
\* marked and spawned.
CanSpawn(f, forge, k) == forge # NoForge /\ ~ IsCached(f, k) /\ CanRequest(f.runner, k)

Spawned(f, forge, keys) ==
    LET new == {k \in keys : CanSpawn(f, forge, k)} IN
    [f EXCEPT
      !.cache = [k \in Kinds |-> IF k \in new THEN [Blank EXCEPT !.phase = "loading"]
                                 ELSE @[k]],
      !.runner = [generation |-> [k \in Kinds |->
                                    IF k \in new THEN ClaimedGeneration(@, k)
                                    ELSE @.generation[k]],
                  running |-> @.running \cup new],
      !.flights = @ \cup
          {[key |-> k, generation |-> ClaimedGeneration(f.runner, k),
            from |-> forge, epoch |-> f.epoch] : k \in new}]

\* into_state and complete_issue, complete_pr, complete_pr_threads, behind the
\* generation check of drain_task_results.
Accepts(f, flight) == IsAuthoritative(f.runner, flight.key, flight.generation)
Landed(f, flight, ok) ==
    [f EXCEPT
      !.flights = @ \ {flight},
      !.runner = Completed(@, flight.key, flight.generation),
      !.cache[flight.key] =
          IF ~ Accepts(f, flight) THEN @
          ELSE IF ok THEN [phase |-> "loaded", from |-> flight.from, epoch |-> flight.epoch]
          ELSE [Blank EXCEPT !.phase = "error"]]

-----------------------------------------------------------------------------
\* The spinner in the cache and the claim on the spine are the same thing: a
\* key marked loading without a claim never lands, a claim without the mark
\* lands on an entry nobody waits for.
AgreesWithSpine(f) == \A k \in Kinds : Phase(f, k) = "loading" <=> IsLoading(f.runner, k)

\* What a flight in the air can still do, no flight can do twice.
ClaimsAreHeld(f) ==
    \A k \in f.runner.running : \E flight \in f.flights :
       /\ flight.key = k /\ Accepts(f, flight)
       /\ \A other \in f.flights : (other.key = k /\ Accepts(f, other)) => other = flight

=============================================================================
