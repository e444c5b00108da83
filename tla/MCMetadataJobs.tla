---------------------------- MODULE MCMetadataJobs ----------------------------
(* Small instances of MetadataJobs for TLC. *)
EXTENDS MetadataJobs, TLC

\* One worker among requests, renders and integrity passes.
ActorsBudget == [change |-> 2, scan |-> 2, fault |-> 0, extra |-> 2]

\* Two workers that claim two files at a time.
BatchBudget == [change |-> 1, scan |-> 2, fault |-> 1, extra |-> 0]

\* Two workers, leases that may expire, two changes of one file, and one
\* fault.
PairBudget == [change |-> 2, scan |-> 1, fault |-> 1, extra |-> 0]

Symmetry == Permutations(Workers) \cup Permutations(Tokens)
BatchSymmetry == Symmetry \cup Permutations(Paths)
=============================================================================
