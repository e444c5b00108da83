---------------------------- MODULE MCCatalogJobs ----------------------------
(* Small instances of CatalogJobs for TLC. *)
EXTENDS CatalogJobs, TLC

CONSTANTS a, b

\* One library with two import paths.
OneLibrary == [f \in Folders |-> CHOOSE l \in Libraries : TRUE]

\* The library starts with one of them, with both, or with both and one hidden.
Configurations ==
  {[paths |-> {a}, hidden |-> {}], [paths |-> {a, b}, hidden |-> {}],
   [paths |-> {a, b}, hidden |-> {b}]}

CatalogBudget == [change |-> 1, request |-> 1, trouble |-> 2]

Symmetry == Permutations(Workers)
=============================================================================
