---------------------------- MODULE MCLockstep ----------------------------
(* Instances of Lockstep for TLC. *)
EXTENDS Lockstep

CONSTANTS r1, r2

One == {r1}
Two == {r1, r2}
Symmetry == Permutations(Two)
=============================================================================
