------------------------------- MODULE Lists --------------------------------
(***************************************************************************)
(* What filter, slice and sort do to a list, by the places of its entries, *)
(* and how far a walk gets: the definitions the editors' models use where  *)
(* the provers must see which entries a list keeps, and in which order.    *)
(***************************************************************************)
EXTENDS Integers, Sequences, FiniteSets

\* The members of a finite set of numbers, the least one first.
Ascending(S) ==
  [k \in 1..Cardinality(S) |-> CHOOSE i \in S : Cardinality({j \in S : j < i}) = k - 1]

\* filter, by the places that stay.
Picked(list, places) ==
  LET at == Ascending(places) IN [k \in 1..Cardinality(places) |-> list[at[k]]]

\* filter, by the entries that go.
Omit(list, gone) == Picked(list, {i \in DOMAIN list : list[i] \notin gone})

\* What n steps from c reach, a step leading from x to any member of next[x].
Walk(c, next, n) ==
  LET ring[k \in Nat] ==
        IF k = 0 THEN {c}
        ELSE LET seen == ring[k - 1] IN seen \cup UNION {next[x] : x \in seen}
  IN ring[n]
=============================================================================
