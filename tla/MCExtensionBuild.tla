-------------------------- MODULE MCExtensionBuild --------------------------
(* Small instances of ExtensionBuild for TLC. *)
EXTENDS ExtensionBuild, TLC

Symmetry == Permutations(Builds) \cup Permutations(Manifests)
=============================================================================
