------------------------------ MODULE MCDbWriter ------------------------------
(* Small instances of DbWriter for TLC. *)
EXTENDS DbWriter, TLC

CONSTANTS o1, o2, o3

\* Two ops share the normal lane, a third has priority: batches, retries, lanes.
MCOps == {o1, o2, o3}
MCLane == [o \in MCOps |-> IF o = o3 THEN "priority" ELSE "normal"]
BatchBudget == [fault |-> 2, lost |-> 1, crash |-> 1, timeout |-> 1, start |-> 1, stop |-> 1, job |-> 0]

\* Two ops of one lane with room for one: the gate, backpressure, lifecycle.
TwoOps == {o1, o2}
TwoLanes == [o \in TwoOps |-> "normal"]
GateBudget == [fault |-> 1, lost |-> 0, crash |-> 1, timeout |-> 1, start |-> 2, stop |-> 1, job |-> 2]

Symmetry == Permutations(Threads)
=============================================================================
