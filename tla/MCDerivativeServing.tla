-------------------------- MODULE MCDerivativeServing --------------------------
(* Small instances of DerivativeServing for TLC. *)
EXTENDS DerivativeServing

OneVariant == <<"small">>
NoOrphans == {}
Symmetry == Permutations(Requests)

\* Requests among a worker, a source change, a scan, a caller and a restart: any
\* three of these four events.
ServeBudget == [change |-> 1, scan |-> 1, call |-> 1, fault |-> 0, expiry |-> 0, audit |-> 0, restart |-> 1]
ServeRemainders == {l \in [DOMAIN ServeBudget -> 0..1] : SumFunction(l) >= 1}
=============================================================================
