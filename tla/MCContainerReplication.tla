----------------------- MODULE MCContainerReplication -----------------------
(* Instances of ContainerReplication for TLC. *)
EXTENDS ContainerReplication

CONSTANTS position, name, v1, v2, none

MCComponent == {position, name}
MCValue == {v1, v2}
Symmetry == Permutations(MCValue)
=============================================================================
