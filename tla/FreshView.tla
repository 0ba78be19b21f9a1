------------------------------- MODULE FreshView -------------------------------
(***************************************************************************)
(* What the background tasks of the TUI promise to a reader of the screen, *)
(* with no generation, no worker and no channel in sight.  The world (the  *)
(* disk, the forge) goes through versions.  Each kind of view shows some   *)
(* version.  When the program learns that what a view shows, or is about   *)
(* to show, is out of date it discards it: from then on nothing older than *)
(* the version of that moment may appear.  A view never goes back in time. *)
(***************************************************************************)
EXTENDS Naturals

CONSTANT Kinds

VARIABLES
    world,      \* version of the outside world
    floor,      \* floor[k]: the world when view k was last discarded
    shown       \* shown[k]: the version view k shows

vars == <<world, floor, shown>>

Init ==
    /\ world = 0
    /\ floor = [k \in Kinds |-> 0]
    /\ shown = [k \in Kinds |-> 0]

WorldMoves ==
    /\ world' = world + 1
    /\ UNCHANGED <<floor, shown>>

Discard(K) ==
    /\ floor' = [k \in Kinds |-> IF k \in K THEN world ELSE floor[k]]
    /\ UNCHANGED <<world, shown>>

Show(k) ==
    /\ \E v \in floor[k] .. world :
          /\ v >= shown[k]
          /\ shown' = [shown EXCEPT ![k] = v]
    /\ UNCHANGED <<world, floor>>

Next ==
    \/ WorldMoves
    \/ \E K \in SUBSET Kinds : Discard(K)
    \/ \E k \in Kinds : Show(k)

Spec == Init /\ [][Next]_vars

=============================================================================
