------------------------------ MODULE AsyncTasks ------------------------------
(***************************************************************************)
(* The event loop, its detached worker threads and the channel between     *)
(* them, for any set of task kinds: the protocol that src/src/tui/app.rs   *)
(* follows around TaskRunner for the worktree list, the sidebar, the agent *)
(* sessions and the forge statuses.  A handler requests a run and spawns a *)
(* worker tagged with the claimed generation; the worker reads the world   *)
(* at a moment of its own choosing and sends one tagged message; the loop  *)
(* drains messages in order, dropping those that lost their claim.         *)
(*                                                                         *)
(* world and floor are history variables: the version of what workers read *)
(* and, for each kind, its version when the kind was last invalidated.     *)
(***************************************************************************)
EXTENDS TaskRunner, Integers, Sequences

CONSTANTS
    Groups,     \* the sets of kinds a handler invalidates by predicate
    MaxWorld,   \* bound: versions of the world explored
    MaxGeneration \* bound: requests and invalidations explored per kind

ASSUME GroupsAssumption == Groups \subseteq SUBSET Kinds
ASSUME BoundsAssumption == MaxWorld \in Nat /\ MaxGeneration \in Nat

VARIABLES
    runner,     \* the TaskRunner of the App
    workers,    \* threads that have not sent their message yet
    channel,    \* task_tx / task_rx, in the order of the sends
    world,      \* version of the disk or of the forge
    floor,      \* floor[k]: the world at the last invalidation of k
    shown       \* shown[k]: the version the last applied result was read at

vars == <<runner, workers, channel, world, floor, shown>>

Unread == -1
Worker == [kind : Kinds, generation : Nat, asOf : Nat \cup {Unread}]
Message == [kind : Kinds, generation : Nat, asOf : Nat]

TypeOK ==
    /\ runner \in Runner
    /\ workers \subseteq Worker
    /\ channel \in Seq(Message)
    /\ world \in Nat
    /\ floor \in [Kinds -> Nat]
    /\ shown \in [Kinds -> Nat]

Init ==
    /\ runner = NewRunner
    /\ workers = {}
    /\ channel = <<>>
    /\ world = 0
    /\ floor = [k \in Kinds |-> 0]
    /\ shown = [k \in Kinds |-> 0]

\* Someone else changes what the workers read: a git command in another
\* terminal, a comment on the forge, a mutation made by this program.
WorldMoves ==
    /\ world < MaxWorld
    /\ world' = world + 1
    /\ UNCHANGED <<runner, workers, channel, floor, shown>>

\* A handler asks for a run of k.  While one is in flight the request rides
\* on it: no new worker, nothing changes.
Request(k) ==
    /\ CanRequest(runner, k)
    /\ ClaimedGeneration(runner, k) <= MaxGeneration
    /\ runner' = Requested(runner, k)
    /\ workers' = workers \cup
          {[kind |-> k, generation |-> ClaimedGeneration(runner, k), asOf |-> Unread]}
    /\ UNCHANGED <<channel, world, floor, shown>>

\* The worker thread, in its two visible moments.
WorkerReads(w) ==
    /\ w.asOf = Unread
    /\ workers' = (workers \ {w}) \cup {[w EXCEPT !.asOf = world]}
    /\ UNCHANGED <<runner, channel, world, floor, shown>>

WorkerSends(w) ==
    /\ w.asOf # Unread
    /\ channel' = Append(channel, w)
    /\ workers' = workers \ {w}
    /\ UNCHANGED <<runner, world, floor, shown>>

\* One kind is invalidated: what its worker read, or is about to send, is out
\* of date.  The worker is detached and runs on.
Invalidate(k) ==
    /\ runner.generation[k] < MaxGeneration
    /\ runner' = Invalidated(runner, k)
    /\ floor' = [floor EXCEPT ![k] = world]
    /\ UNCHANGED <<workers, channel, world, shown>>

\* A whole family of kinds is invalidated (every forge fetch at once).
InvalidateMatching(K) ==
    /\ \A k \in K : runner.generation[k] < MaxGeneration
    /\ runner' = InvalidatedMatching(runner, K)
    /\ floor' = [k \in Kinds |-> IF k \in K THEN world ELSE floor[k]]
    /\ UNCHANGED <<workers, channel, world, shown>>

\* drain_task_results, one message of its loop.
DrainResult ==
    /\ channel # <<>>
    /\ LET m == Head(channel) IN
         /\ runner' = Completed(runner, m.kind, m.generation)
         /\ shown' = IF IsAuthoritative(runner, m.kind, m.generation)
                       THEN [shown EXCEPT ![m.kind] = m.asOf]
                       ELSE shown
    /\ channel' = Tail(channel)
    /\ UNCHANGED <<workers, world, floor>>

Next ==
    \/ WorldMoves
    \/ \E k \in Kinds : Request(k) \/ Invalidate(k)
    \/ \E w \in workers : WorkerReads(w) \/ WorkerSends(w)
    \/ \E K \in Groups : InvalidateMatching(K)
    \/ DrainResult

Spec == Init /\ [][Next]_vars

\* A thread that runs is scheduled, its subprocess returns, and the event loop
\* drains the channel on every tick.
Fairness ==
    /\ WF_vars(\E w \in workers : WorkerReads(w))
    /\ WF_vars(\E w \in workers : WorkerSends(w))
    /\ WF_vars(DrainResult)

FairSpec == Spec /\ Fairness

-----------------------------------------------------------------------------
\* The run that holds the current claim on k, as a thread or as a message.
HoldsClaim(run, k) == run.kind = k /\ run.generation = runner.generation[k]

\* While the loader of a kind spins there is a run whose result will be
\* accepted.  Without one the loader never stops, and every later request
\* coalesces onto a worker that does not exist (request, 501-512).
LoadingHasRun ==
    \A k \in runner.running :
       \/ \E w \in workers : HoldsClaim(w, k)
       \/ \E i \in 1 .. Len(channel) : HoldsClaim(channel[i], k)

\* Two messages can never both be accepted for one claim: a generation is
\* held by one run.  Otherwise the second would clear the slot of the next
\* run, or be applied over it.
OneRunPerClaim ==
    /\ \A i, j \in 1 .. Len(channel) :
          (i # j /\ channel[i].kind = channel[j].kind)
             => channel[i].generation # channel[j].generation
    /\ \A w \in workers : \A i \in 1 .. Len(channel) :
          channel[i].kind = w.kind => channel[i].generation # w.generation
    /\ \A v, w \in workers :
          (v.kind = w.kind /\ v.generation = w.generation) => v = w

\* A view never goes back to an older version of the world, and never shows
\* one older than the moment it was last invalidated: the race in which a
\* slow worker that read before a mutation reports after it
\* (drain_task_results, 1838-1842; refresh, 1308-1322).
NeverStale ==
    [][\A k \in Kinds : shown'[k] # shown[k] =>
          shown'[k] >= floor[k] /\ shown'[k] >= shown[k]]_vars

\* Facts that carry the safety properties from step to step: a run was claimed
\* before it flew, nothing was read or shown from the future, and whatever is
\* still allowed to land is at least as recent as the last invalidation and
\* as what is on screen.
ClaimedBeforeFlight ==
    /\ \A w \in workers : w.generation <= runner.generation[w.kind]
    /\ \A i \in 1 .. Len(channel) :
          channel[i].generation <= runner.generation[channel[i].kind]
NotFromTheFuture ==
    /\ \A k \in Kinds : floor[k] <= world /\ shown[k] <= world
    /\ \A w \in workers : w.asOf <= world
    /\ \A i \in 1 .. Len(channel) : channel[i].asOf <= world
MayLand(run) == IsAuthoritative(runner, run.kind, run.generation)
LandsFresh(run) == run.asOf >= floor[run.kind] /\ run.asOf >= shown[run.kind]
FreshRuns ==
    /\ \A w \in workers : (MayLand(w) /\ w.asOf # Unread) => LandsFresh(w)
    /\ \A i \in 1 .. Len(channel) : MayLand(channel[i]) => LandsFresh(channel[i])

\* Inductive: together they say that a loader that spins has exactly one run
\* that will stop it, and that this run is fresh (TaskRunner, TaskMsg).
IInv ==
    /\ TypeOK
    /\ ClaimedBeforeFlight
    /\ NotFromTheFuture
    /\ FreshRuns
    /\ OneRunPerClaim
    /\ LoadingHasRun

\* Every loader stops.
LoaderStops ==
    \A k \in Kinds : IsLoading(runner, k) ~> ~ IsLoading(runner, k)

\* The spine implements the view it promises.
View == INSTANCE FreshView WITH world <- world, floor <- floor, shown <- shown
ImplementsFreshView == View!Spec

=============================================================================
