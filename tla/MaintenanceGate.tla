---------------------------- MODULE MaintenanceGate ----------------------------
(***************************************************************************)
(* The shared gate of backend/catalog_maintenance_gate.py: any number of   *)
(* producers (functions that write to the database) or one destructive     *)
(* maintenance operation.  Producers wait for maintenance to end;          *)
(* maintenance fails at once while a producer is inside.  The maintenance  *)
(* thread itself enters the producer gate freely: it bypasses the count.   *)
(***************************************************************************)
EXTENDS Naturals, Sequences, FiniteSets

CONSTANTS
  Threads,  \* threads of the process
  None      \* no maintenance owner

ASSUME GateAssumption == None \notin Threads /\ IsFiniteSet(Threads)

VARIABLES
  maint,      \* _MAINTENANCE_OWNER, or None when maintenance is not active
  producers,  \* _ACTIVE_PRODUCERS
  held        \* the gates each thread is inside, innermost last: does it bypass the count?

gateVars == <<maint, producers, held>>

GateInit ==
  /\ maint = None
  /\ producers = 0
  /\ held = [t \in Threads |-> <<>>]

\* Mutant: the gate looks at the owner only once it is counted.
MutantMayEnter(t) == TRUE
\* Mutant: the owner of maintenance gets no bypass.
MutantNoBypass(t) == maint = None
MayEnter(t) == maint \in {None, t}

\* producer_gate waits until it may enter; try_acquire_maintenance_gate gives up
\* instead.
EnterProducer(t) ==
  /\ MayEnter(t)
  /\ producers' = IF maint = t THEN producers ELSE producers + 1
  /\ held' = [held EXCEPT ![t] = Append(@, maint = t)]
  /\ maint' = maint

LeaveProducer(t) ==
  LET n == Len(held[t])
  IN /\ n > 0
     /\ producers' = IF held[t][n] THEN producers ELSE producers - 1
     /\ held' = [held EXCEPT ![t] = SubSeq(@, 1, n - 1)]
     /\ maint' = maint

\* Mutant: maintenance only excludes maintenance.
MutantQuiet == maint = None
Quiet == maint = None /\ producers = 0

\* maintenance_gate: MaintenanceGateBusy when it is not quiet.
EnterMaintenance(t) ==
  /\ Quiet
  /\ maint' = t
  /\ UNCHANGED <<producers, held>>

\* The with statements nest, so the owner has left every gate it entered inside.
LeaveMaintenance(t) ==
  /\ maint = t /\ held[t] = <<>>
  /\ maint' = None
  /\ UNCHANGED <<producers, held>>

GateNext ==
  \E t \in Threads :
    EnterProducer(t) \/ LeaveProducer(t) \/ EnterMaintenance(t) \/ LeaveMaintenance(t)

GateSpec == GateInit /\ [][GateNext]_gateVars

-----------------------------------------------------------------------------
\* The gates entered without a bypass.
Counted == {h \in UNION {{t} \X (1..Len(held[t])) : t \in Threads} : ~held[h[1]][h[2]]}

\* The counter is exactly the number of gates entered without a bypass, and
\* while maintenance is active nobody but its owner is inside: a missed or
\* double release would let maintenance delete rows under a running producer,
\* or lock it out for ever.
GateExclusive ==
  /\ producers = Cardinality(Counted)
  /\ maint # None => \A t \in Threads \ {maint} : held[t] = <<>>
=============================================================================
