---------------------------- MODULE MCAICredits ----------------------------
(* Small instances of AICredits for TLC. *)
EXTENDS AICredits, TLC

Symmetry == Permutations(Requests)
=============================================================================
