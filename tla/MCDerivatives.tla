---------------------------- MODULE MCDerivatives ----------------------------
(* Small instances of Derivatives for TLC. *)
EXTENDS Derivatives

OneVariant == <<"small">>
TwoVariants == <<"large", "small">>
NoOrphans == {}
OneOrphan == Assets \X {"large"}

Symmetry == Permutations(Workers)

\* All but n of the events of budget b may happen.
AllBut(n, b) == {l \in [DOMAIN b -> 0..2] : (\A x \in DOMAIN b : l[x] <= b[x]) /\ SumFunction(l) >= n}

\* Two workers compete for one derivative while a lease expires, the file
\* changes, one render or unlink fails, the process restarts and the integrity pass
\* runs: any four of these eight events, or all of them but a scan and a fault (one
\* loses its lease and renders on through an eviction that a restart cuts off).
RaceBudget == [change |-> 1, scan |-> 1, call |-> 2, fault |-> 1, expiry |-> 1, audit |-> 1, restart |-> 1]

RaceRemainders == AllBut(4, RaceBudget) \cup {l \in AllBut(2, RaceBudget) : l.scan = 1 /\ l.fault = 1}

\* One worker and batches of two, with a restart or an integrity pass: any four of
\* these six events.
LiveBudget == [change |-> 1, scan |-> 1, call |-> 2, fault |-> 0, expiry |-> 0, audit |-> 1, restart |-> 1]
LiveRemainders == AllBut(2, LiveBudget)
=============================================================================
