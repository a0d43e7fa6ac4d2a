------------------------------- MODULE MCCatalog -------------------------------
(* Small instances of Catalog for TLC. *)
EXTENDS Catalog, TLC

CONSTANTS manual, film

\* Two providers with one identity each.
MCProvider == [k \in {manual, film} |-> k]

Symmetry == Permutations(Threads) \cup Permutations(Items) \cup Permutations(Tokens) \cup Permutations(Titles)
\* Bound: histories of more than one revision are explored while there is no collection.
ShortHistories ==
    \/ \A x \in Collections : shelf[x] = "none"
    \/ \A i \in Items : Len(revisions[i]) <= 1

================================================================================
