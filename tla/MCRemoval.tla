------------------------------- MODULE MCRemoval -------------------------------
(***************************************************************************)
(* One id that two directories can claim (the case of a worktree recreated *)
(* under an old id), or two ids with a directory each.                     *)
(***************************************************************************)
EXTENDS Removal

CONSTANTS p1, p2, i1, i2, here, there, x, y

OneId == [q \in {here, there} |-> i1]
TwoIds == [q \in {here, there} |-> IF q = here THEN i1 ELSE i2]

=============================================================================
