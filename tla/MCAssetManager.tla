--------------------------- MODULE MCAssetManager ---------------------------
(* Instances of AssetManager for TLC. *)
EXTENDS AssetManager, TLC

CONSTANTS g1, g2, c1, c2, c3

\* All images are stored together.
OneLifetime == [i \in Image |-> "shared"]

Symmetry == Permutations({g1, g2}) \cup Permutations({c1, c2, c3})
=============================================================================
