------------------------------ MODULE TaskRunner ------------------------------
(***************************************************************************)
(* The coalescing and late-drop table the TUI puts in front of every       *)
(* background worker (src/src/tui/state/async_task.rs).  A runner is a     *)
(* value: a generation per kind of task and the set of kinds with a run in *)
(* flight.  The operators below are its methods, as functions from a       *)
(* runner to a runner, so that an event handler which calls several of     *)
(* them is one step of the modules that use this one.                      *)
(*                                                                         *)
(* A definition whose comment begins with "Slip:" is a plausible mistake   *)
(* in the method that follows it; the properties are checked to tell the   *)
(* two apart.                                                              *)
(***************************************************************************)
EXTENDS Naturals

CONSTANT Kinds      \* the TaskKind values in play

Runner == [generation : [Kinds -> Nat], running : SUBSET Kinds]

\* TaskRunner::new: absent keys are generation 0, nothing is in flight.
NewRunner == [generation |-> [k \in Kinds |-> 0], running |-> {}]

IsLoading(r, k) == k \in r.running

ClaimedGeneration(r, k) == r.generation[k] + 1

\* request: a kind already in flight coalesces (the method returns None and
\* changes nothing); a cold one claims the next generation.
CanRequest(r, k) == ~ IsLoading(r, k)
Requested(r, k) ==
    [generation |-> [r.generation EXCEPT ![k] = ClaimedGeneration(r, k)],
     running    |-> r.running \cup {k}]

\* Slip: the claim is returned instead of being burnt.
InvalidatedRollsBack(r, k) ==
    [generation |-> [r.generation EXCEPT ![k] = @ - 1],
     running    |-> r.running \ {k}]

\* invalidate: bumps the generation whether or not a run is in flight.
Invalidated(r, k) ==
    [generation |-> [r.generation EXCEPT ![k] = @ + 1],
     running    |-> r.running \ {k}]

\* Slip: the runs in flight are spared.
InvalidatedMatchingIdle(r, matching) ==
    [r EXCEPT !.generation = [k \in Kinds |->
        IF k \in matching \ r.running THEN @[k] + 1 ELSE @[k]]]

\* invalidate_matching: only the matching kinds that are running are touched.
InvalidatedMatching(r, matching) ==
    [generation |-> [k \in Kinds |-> IF k \in matching \cap r.running
                                       THEN r.generation[k] + 1
                                       ELSE r.generation[k]],
     running    |-> r.running \ matching]

\* complete: TRUE exactly when the caller may apply the result.
IsAuthoritative(r, k, g) == g = r.generation[k] /\ IsLoading(r, k)

\* Slip: the slot is never given back.
CompletedKeepsSlot(r, k, g) == r

\* complete: the slot is cleared only for the current generation.
Completed(r, k, g) ==
    IF g = r.generation[k] THEN [r EXCEPT !.running = @ \ {k}] ELSE r

=============================================================================
