---------------------------- MODULE MCPurchases ----------------------------
(* Small instances of Purchases for TLC. *)
EXTENDS Purchases, TLC

CONSTANTS p1, p2, t1, t2

\* Every checkout may report every reference: two purchases can share one.
SharedTxns == [p \in Purchases |-> Txns]

\* Every checkout has references of its own.
OwnTxns == [p \in Purchases |-> IF p = p1 THEN {t1} ELSE {t2}]

\* With SharedTxns nothing tells two purchases, references or requests apart.
Symmetry == Permutations(Purchases) \cup Permutations(Txns) \cup Permutations(Handlers)
=============================================================================
