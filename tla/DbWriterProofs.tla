---------------------------- MODULE DbWriterProofs ----------------------------
(***************************************************************************)
(* The writer's contract, proved for every number of ops, callers, lanes'  *)
(* sizes, batch sizes, retries and faults: an op is applied at most once   *)
(* and in the order of its lane, a result that was seen is durable, what   *)
(* was refused is never applied, and maintenance holds callers back.  The  *)
(* argument is one order: the database, the batch and the queue of a lane, *)
(* one behind the other, are in the order of arrival.                      *)
(***************************************************************************)
EXTENDS DbWriter, FiniteSetTheorems, SequenceTheorems, WellFoundedInduction, TLAPS

-----------------------------------------------------------------------------
(* The gate alone: the count of producers is exact, and maintenance excludes  *)
(* every producer but its own thread, for any finite set of threads and any   *)
(* nesting of gates.                                                          *)

GateType ==
  /\ maint \in Threads \cup {None}
  /\ producers \in Nat
  /\ held \in [Threads -> Seq(BOOLEAN)]

\* Only the owner of maintenance has gates that bypass the count.
BypassIsOwners ==
  \A t \in Threads : \A i \in 1..Len(held[t]) : held[t][i] => maint = t

GateInv == GateType /\ BypassIsOwners /\ IsFiniteSet(Counted) /\ GateExclusive

\* Membership in Counted without the union of products.
Uncounted(h, t, i) == t \in Threads /\ i \in 1..Len(h[t]) /\ ~h[t][i]

\* Counted holds a pair per gate entered without a bypass.
LEMMA CountedPairs ==
  /\ \A x : x \in Counted => x = <<x[1], x[2]>> /\ Uncounted(held, x[1], x[2])
  /\ \A t, i : Uncounted(held, t, i) => <<t, i>> \in Counted
BY DEF Counted, Uncounted

\* The same of the next state.
LEMMA CountedPairsNext ==
  /\ \A x : x \in Counted' => x = <<x[1], x[2]>> /\ Uncounted(held', x[1], x[2])
  /\ \A t, i : Uncounted(held', t, i) => <<t, i>> \in Counted'
BY DEF Counted, Uncounted

\* Nobody is inside at the start.
LEMMA GateInitially == GateInit => GateInv
<1> SUFFICES ASSUME GateInit PROVE GateInv
  OBVIOUS
<1>1. GateType /\ BypassIsOwners
  BY DEF GateInit, GateType, BypassIsOwners
<1>2. Counted = {}
  BY CountedPairs DEF GateInit, Uncounted
<1>3. IsFiniteSet(Counted) /\ Cardinality(Counted) = 0
  BY <1>2, FS_EmptySet
<1> QED
  BY <1>1, <1>3 DEF GateInv, GateExclusive, GateInit

\* A gate entered without a bypass adds one pair, one entered with it none.
LEMMA EnterKeeps ==
  ASSUME GateInv, NEW t \in Threads, EnterProducer(t)
  PROVE  GateInv'
<1> DEFINE n == Len(held[t])
           b == (maint = t)
<1> USE GateAssumption DEF GateInv
<1>1. n \in Nat /\ held[t] \in Seq(BOOLEAN) /\ b \in BOOLEAN
  BY DEF GateType
<1>2. held'[t] = Append(held[t], b) /\ \A u \in Threads \ {t} : held'[u] = held[u]
  BY DEF EnterProducer, GateType
<1>3. Len(held'[t]) = n + 1 /\ held'[t][n + 1] = b /\ \A i \in 1..n : held'[t][i] = held[t][i]
  BY <1>1, <1>2
<1>4. GateType'
  BY <1>1, <1>2 DEF GateType, EnterProducer
<1>5. BypassIsOwners'
  <2> SUFFICES ASSUME NEW u \in Threads, NEW i \in 1..Len(held'[u]), held'[u][i]
               PROVE  maint' = u
    BY DEF BypassIsOwners
  <2>1. CASE u # t
    BY <1>2, <2>1 DEF BypassIsOwners, EnterProducer
  <2>2. CASE u = t /\ i = n + 1
    BY <1>3, <2>2 DEF EnterProducer
  <2>3. CASE u = t /\ i # n + 1
    <3>1. i \in 1..n
      BY <1>1, <1>3, <2>3
    <3> QED
      BY <1>3, <2>3, <3>1 DEF BypassIsOwners, EnterProducer
  <2> QED
    BY <2>1, <2>2, <2>3
<1>6. Counted' = IF b THEN Counted ELSE Counted \cup {<<t, n + 1>>}
  <2>1. ASSUME NEW u \in Threads \ {t}, NEW i
        PROVE  Uncounted(held', u, i) <=> Uncounted(held, u, i)
    BY <1>2 DEF Uncounted
  <2>2. ASSUME NEW i
        PROVE  Uncounted(held', t, i) <=> Uncounted(held, t, i) \/ (i = n + 1 /\ ~b)
    <3>1. i \in 1..(n + 1) <=> i \in 1..n \/ i = n + 1
      BY <1>1
    <3>2. n + 1 \notin 1..n
      BY <1>1
    <3> QED
      BY <1>3, <3>1, <3>2 DEF Uncounted
  <2>3. \A u, i : Uncounted(held', u, i) => Uncounted(held, u, i) \/ (u = t /\ i = n + 1 /\ ~b)
    BY <2>1, <2>2 DEF Uncounted
  <2>4. \A u, i : Uncounted(held, u, i) => Uncounted(held', u, i)
    BY <2>1, <2>2 DEF Uncounted
  <2>5. ~b => Uncounted(held', t, n + 1)
    BY <2>2
  <2>6. Counted \subseteq Counted' /\ (~b => <<t, n + 1>> \in Counted')
    BY <2>4, <2>5, CountedPairs, CountedPairsNext
  <2>7. \A x \in Counted' : x \in Counted \/ (~b /\ x = <<t, n + 1>>)
    BY <2>3, CountedPairs, CountedPairsNext
  <2> QED
    BY <2>6, <2>7
<1>7. <<t, n + 1>> \notin Counted
  BY <1>1, CountedPairs DEF Uncounted
<1>8. IsFiniteSet(Counted') /\ producers' = Cardinality(Counted')
  BY <1>6, <1>7, FS_AddElement DEF EnterProducer, GateExclusive
<1>9. maint' # None => \A u \in Threads \ {maint'} : held'[u] = <<>>
  BY <1>2 DEF EnterProducer, MayEnter, GateExclusive
<1> QED
  BY <1>4, <1>5, <1>8, <1>9 DEF GateExclusive

\* Leaving takes exactly the pair of the innermost gate away.
LEMMA LeaveKeeps ==
  ASSUME GateInv, NEW t \in Threads, LeaveProducer(t)
  PROVE  GateInv'
<1> DEFINE n == Len(held[t])
<1> USE GateAssumption DEF GateInv
<1>1. n \in Nat \ {0} /\ held[t] \in Seq(BOOLEAN) /\ held[t][n] \in BOOLEAN
  BY DEF GateType, LeaveProducer
<1>2. held'[t] = SubSeq(held[t], 1, n - 1) /\ \A u \in Threads \ {t} : held'[u] = held[u]
  BY DEF LeaveProducer, GateType
<1>3. /\ held'[t] \in Seq(BOOLEAN)
      /\ Len(held'[t]) = n - 1
      /\ \A i \in 1..(n - 1) : held'[t][i] = held[t][i]
  BY <1>1, <1>2
<1>4. Counted' = Counted \ {<<t, n>>}
  <2>1. \A u, i : Uncounted(held', u, i) <=> Uncounted(held, u, i) /\ ~(u = t /\ i = n)
    BY <1>1, <1>2, <1>3 DEF Uncounted
  <2> QED
    BY <2>1, CountedPairs, CountedPairsNext
<1>5. <<t, n>> \in Counted <=> ~held[t][n]
  BY <1>1, CountedPairs DEF Uncounted
<1>6. IsFiniteSet(Counted') /\ producers' = Cardinality(Counted')
  BY <1>1, <1>4, <1>5, FS_RemoveElement DEF LeaveProducer, GateExclusive
<1>7. GateType'
  <2>1. producers' \in Nat
    BY <1>6, FS_CardinalityType
  <2> QED
    BY <1>3, <2>1 DEF GateType, LeaveProducer
<1>8. BypassIsOwners'
  BY <1>1, <1>2, <1>3 DEF BypassIsOwners, LeaveProducer
<1>9. maint' # None => \A u \in Threads \ {maint'} : held'[u] = <<>>
  BY <1>1, <1>2 DEF LeaveProducer, GateExclusive
<1> QED
  BY <1>6, <1>7, <1>8, <1>9 DEF GateExclusive

\* Maintenance begins when the count is 0: then no gate is held at all.
LEMMA MaintenanceKeeps ==
  ASSUME GateInv, NEW t \in Threads, EnterMaintenance(t) \/ LeaveMaintenance(t)
  PROVE  GateInv'
<1> USE GateAssumption DEF GateInv
<1>1. held' = held /\ producers' = producers
  BY DEF EnterMaintenance, LeaveMaintenance
<1>2. Counted' = Counted
  BY <1>1 DEF Counted
<1>3. GateType'
  BY <1>1 DEF GateType, EnterMaintenance, LeaveMaintenance
<1>4. CASE EnterMaintenance(t)
  <2>1. Counted = {}
    BY <1>4, FS_EmptySet DEF EnterMaintenance, Quiet, GateExclusive
  <2>2. \A u \in Threads : held[u] = <<>>
    <3> SUFFICES ASSUME NEW u \in Threads, held[u] # <<>> PROVE FALSE
      OBVIOUS
    <3>1. 1 \in 1..Len(held[u])
      BY DEF GateType
    <3>2. ~held[u][1]
      BY <1>4, <3>1 DEF BypassIsOwners, EnterMaintenance, Quiet
    <3> QED
      BY <2>1, <3>1, <3>2, CountedPairs DEF Uncounted
  <2> QED
    BY <1>1, <1>2, <1>3, <2>2 DEF BypassIsOwners, GateExclusive
<1>5. CASE LeaveMaintenance(t)
  <2>1. \A u \in Threads : held[u] = <<>>
    BY <1>5 DEF LeaveMaintenance, GateExclusive
  <2> QED
    BY <1>1, <1>2, <1>3, <1>5, <2>1 DEF BypassIsOwners, GateExclusive, LeaveMaintenance
<1> QED
  BY <1>4, <1>5

\* Every step of every thread, and a stutter, keeps the invariant.
LEMMA GateStep == GateInv /\ [GateNext]_gateVars => GateInv'
<1> SUFFICES ASSUME GateInv, [GateNext]_gateVars PROVE GateInv'
  OBVIOUS
<1>1. CASE GateNext
  BY <1>1, EnterKeeps, LeaveKeeps, MaintenanceKeeps DEF GateNext
<1>2. CASE UNCHANGED gateVars
  BY <1>2 DEF gateVars, GateInv, GateType, BypassIsOwners, GateExclusive, Counted
<1> QED
  BY <1>1, <1>2

\* The counter of catalog_maintenance_gate.py is exact, and while maintenance is
\* active nobody but its owner is inside a producer gate.
THEOREM GateIsExclusive == GateSpec => []GateExclusive
<1>1. GateInv => GateExclusive
  BY DEF GateInv
<1> QED
  BY <1>1, GateInitially, GateStep, PTL DEF GateSpec

-----------------------------------------------------------------------------
(* The writer.                                                                *)

Calls == [pc : {"gate", "directgate", "submit", "wait", "direct", "directtx", "post"}, op : Ops]
         \cup {NoCall}
Answers == {"none", "ok", "error", "closed", "full", "timeout", "active", "posted", "dropped"}
Batch == [pc : {"off", "take", "begin", "run", "dying"}, ops : Seq(Ops), n : Nat \ {0},
          tries : 0..Retries, failed : SUBSET Ops]

Types ==
  /\ state \in {"idle", "running", "stopping", "stopped"} /\ late \in BOOLEAN
  /\ queue \in [Lanes -> Seq(Ops)]
  /\ fut \in [Ops -> Futures]
  /\ writer \in Batch
  /\ txn \in Seq(Ops) /\ db \in Seq(Ops) /\ arrived \in Seq(Ops)
  /\ call \in [Threads -> Calls]
  /\ told \in [Ops -> Answers]
  /\ left \in [Spendings -> Nat]

\* A call has its op to itself, and until the op is queued nobody has heard of it.
Fresh(o) == told[o] = "none" /\ fut[o] = "none" /\ o \notin ToSet(db)
Callers ==
  /\ \A t, u \in Threads : call[t].pc # "idle" /\ call[u].op = call[t].op => u = t
  /\ \A t \in Threads :
       /\ call[t].pc \notin {"idle", "wait"} => Fresh(call[t].op)
       /\ call[t].pc = "wait" => told[call[t].op] = "none" /\ fut[call[t].op] # "none"
  /\ \A o \in Ops : told[o] = "none" /\ (\A t \in Threads : call[t].op # o) => Fresh(o)
\* What was refused has not been applied.
Refused(o) == told[o] \in {"closed", "full", "active", "dropped"}
Dead(o) == fut[o] \in {"closed", "cancelled"}
Refusals ==
  \A o \in Ops : /\ Refused(o) => fut[o] \in {"none", "closed"}
                 /\ Refused(o) \/ Dead(o) => o \notin ToSet(db)
\* What succeeded has been applied.
Durable ==
  /\ left.lost <= Budget.lost
  /\ left.lost = Budget.lost => \A o \in Ops : told[o] = "ok" \/ fut[o] = "ok" => o \in ToSet(db)

\* Where an op is, by the state of its Future.
Places ==
  /\ \A o \in Ops : o \in ToSet(arrived) <=> fut[o] # "none"
  /\ \A l \in Lanes : \A o \in ToSet(queue[l]) :
       Lane[o] = l /\ fut[o] \in {"pending", "running", "cancelled"}
  /\ \A o \in ToSet(writer.ops) : fut[o] = "running"
  /\ \A o \in Ops : fut[o] = "pending" => o \in ToSet(queue[Lane[o]])
  /\ \A o \in Ops : fut[o] = "running" => o \in ToSet(writer.ops) \cup ToSet(queue[Lane[o]])

\* The order of arrival a within a lane: of a sequence, and of all of S before all of T.
Earlier(a, o, p) == o \in ToSet(a) /\ p \in ToSet(a) /\ Lane[o] = Lane[p] => Before(a, o, p)
Sorted(a, s) == \A i, j \in 1..Len(s) : i < j => Earlier(a, s[i], s[j])
Ahead(a, S, T) == \A o \in S, p \in T : Earlier(a, o, p)
From(s, n) == {s[i] : i \in {k \in 1..Len(s) : k >= n}}
Order ==
  /\ IsInjective(arrived) /\ IsInjective(db)
  /\ Sorted(arrived, db) /\ Sorted(arrived, txn) /\ Sorted(arrived, writer.ops)
  /\ \A l \in Lanes : Sorted(arrived, queue[l])
  /\ Ahead(arrived, ToSet(db), ToSet(writer.ops))
  /\ Ahead(arrived, ToSet(txn), From(writer.ops, writer.n))
  /\ \A l \in Lanes : /\ Ahead(arrived, ToSet(db), ToSet(queue[l]))
                       /\ Ahead(arrived, ToSet(writer.ops), ToSet(queue[l]))

\* The attempt: the ops before the next one were applied or failed.
Attempt ==
  /\ state \in {"idle", "stopped"} <=> writer.pc = "off"
  /\ Len(writer.ops) <= BatchMax /\ writer.n <= Len(writer.ops) + 1
  /\ writer.pc \in {"off", "take", "dying"} => writer.ops = <<>>
  /\ writer.pc # "run" => txn = <<>> /\ writer.n = 1 /\ writer.failed = {}
  /\ ToSet(txn) \subseteq ToSet(writer.ops)
  /\ \A i \in 1..Len(writer.ops) : i < writer.n => writer.ops[i] \in writer.failed \cup ToSet(txn)

WriterInv == Types /\ Callers /\ Refusals /\ Durable /\ Places /\ Order /\ Attempt

\* A caller past the gate is inside it.
Inside == \A t \in Threads : call[t].pc \notin {"idle", "gate", "directgate"} => held[t] # <<>>

-----------------------------------------------------------------------------
(* Sequences of ops, and the order of arrival.                             *)

\* A set of numbers up to n has a least one.
LEMMA LeastExists ==
  ASSUME NEW n \in Nat, NEW S, S \subseteq 1..n, S # {}
  PROVE  Min(S) \in S /\ \A y \in S : Min(S) <= y
<1> DEFINE below(x) == {y \in S : y < x}
           D == {below(x) : x \in S}
<1>1. IsFiniteSet(S)
  <2>1. IsFiniteSet(1..n)
    BY FS_Interval
  <2> QED
    BY <2>1, FS_Subset
<1>2. IsWellFoundedOn(StrictSubsetOrdering(S), SUBSET S)
  BY <1>1, FS_StrictSubsetOrderingWellFounded, FS_FiniteSubsetsOfFinite
<1>3. D \subseteq SUBSET S /\ D # {}
  OBVIOUS
<1>4. PICK d \in D : \A e \in D : <<e, d>> \notin StrictSubsetOrdering(S)
  BY <1>2, <1>3, WFMin
<1>5. PICK x \in S : d = below(x)
  OBVIOUS
<1>6. ASSUME NEW y \in S, ~(x <= y) PROVE FALSE
  <2>1. \A z \in S : z < y => z < x
    BY <1>6
  <2>2. y < x /\ ~(y < y)
    BY <1>6
  <2>3. below(y) \subseteq below(x) /\ y \in below(x) /\ y \notin below(y)
    BY <2>1, <2>2
  <2>4. below(y) \in D /\ below(y) \in SUBSET S /\ below(x) \in SUBSET S
    OBVIOUS
  <2> HIDE DEF below, D
  <2>5. <<below(y), below(x)>> \in StrictSubsetOrdering(S)
    BY <2>3, <2>4 DEF StrictSubsetOrdering
  <2> QED
    BY <1>4, <1>5, <2>4, <2>5
<1>7. \E x_1 \in S : \A y \in S : x_1 <= y
  BY <1>6
<1> QED
  BY <1>7 DEF Min

\* The elements of a sequence by their places.
LEMMA Elements ==
  ASSUME NEW S, NEW s \in Seq(S)
  PROVE  /\ Len(s) \in Nat /\ ToSet(s) \subseteq S
         /\ \A i \in 1..Len(s) : s[i] \in ToSet(s) /\ s[i] \in S
         /\ \A o \in ToSet(s) : \E i \in 1..Len(s) : o = s[i]
<1>1. Len(s) \in Nat /\ DOMAIN s = 1..Len(s) /\ \A i \in 1..Len(s) : s[i] \in S
  OBVIOUS
<1> QED
  BY <1>1 DEF ToSet

\* No element.
LEMMA EmptyFacts ==
  /\ <<>> \in Seq(Ops) /\ Len(<<>>) = 0 /\ ToSet(<<>>) = {}
  /\ \A a : Sorted(a, <<>>)
  /\ IsInjective(<<>>)
BY DEF ToSet, Sorted, IsInjective

\* One more at the end.
LEMMA AppendFacts ==
  ASSUME NEW s \in Seq(Ops), NEW o \in Ops
  PROVE  /\ Append(s, o) \in Seq(Ops) /\ ToSet(Append(s, o)) = ToSet(s) \cup {o}
         /\ Len(Append(s, o)) = Len(s) + 1 /\ Append(s, o)[Len(s) + 1] = o
         /\ \A i \in 1..Len(s) : Append(s, o)[i] = s[i]
         /\ IsInjective(s) /\ o \notin ToSet(s) => IsInjective(Append(s, o))
<1> DEFINE t == Append(s, o)
<1>1. /\ Len(s) \in Nat /\ \A i \in 1..Len(s) : s[i] \in ToSet(s)
      /\ \A p \in ToSet(s) : \E i \in 1..Len(s) : p = s[i]
  BY Elements
<1>2. /\ t \in Seq(Ops) /\ Len(t) = Len(s) + 1 /\ t[Len(s) + 1] = o
      /\ \A i \in 1..Len(s) : t[i] = s[i]
  OBVIOUS
<1>3. DOMAIN t = 1..(Len(s) + 1) /\ DOMAIN s = 1..Len(s)
  BY <1>2
<1>4. \A i \in 1..(Len(s) + 1) : i \in 1..Len(s) \/ i = Len(s) + 1
  BY <1>1
<1>5. 1..Len(s) \subseteq 1..(Len(s) + 1) /\ Len(s) + 1 \in 1..(Len(s) + 1)
  BY <1>1
<1> HIDE DEF t
<1>6. ToSet(t) = ToSet(s) \cup {o}
  BY <1>1, <1>2, <1>3, <1>4, <1>5 DEF ToSet
<1>7. ASSUME IsInjective(s), o \notin ToSet(s) PROVE IsInjective(t)
  BY <1>1, <1>2, <1>3, <1>4, <1>7 DEF IsInjective
<1> QED
  BY <1>2, <1>6, <1>7 DEF t

\* It stays in order when all the others are before it.
LEMMA AppendSorted ==
  ASSUME NEW s \in Seq(Ops), NEW o \in Ops, NEW a, Sorted(a, s), Ahead(a, ToSet(s), {o})
  PROVE  Sorted(a, Append(s, o))
<1> PICK t : t = Append(s, o)
  OBVIOUS
<1>1. /\ Len(s) \in Nat /\ \A i \in 1..Len(s) : s[i] \in ToSet(s)
      /\ Len(t) = Len(s) + 1 /\ t[Len(s) + 1] = o /\ \A i \in 1..Len(s) : t[i] = s[i]
  BY Elements, AppendFacts
<1> SUFFICES ASSUME NEW i \in 1..Len(t), NEW j \in 1..Len(t), i < j PROVE Earlier(a, t[i], t[j])
  BY DEF Sorted
<1>2. i \in 1..Len(s) /\ (j \in 1..Len(s) \/ j = Len(s) + 1)
  BY <1>1
<1> QED
  BY <1>1, <1>2 DEF Sorted, Ahead

\* One more in front.
LEMMA PrependFacts ==
  ASSUME NEW s \in Seq(Ops), NEW o \in Ops, NEW a
  PROVE  /\ <<o>> \o s \in Seq(Ops) /\ ToSet(<<o>> \o s) = ToSet(s) \cup {o}
         /\ Sorted(a, s) /\ Ahead(a, {o}, ToSet(s)) => Sorted(a, <<o>> \o s)
<1> DEFINE t == <<o>> \o s
<1>1. /\ Len(s) \in Nat /\ \A i \in 1..Len(s) : s[i] \in ToSet(s)
      /\ \A p \in ToSet(s) : \E i \in 1..Len(s) : p = s[i]
  BY Elements
<1>2. /\ t \in Seq(Ops) /\ Len(t) = Len(s) + 1 /\ t[1] = o
      /\ \A i \in 2..(Len(s) + 1) : t[i] = s[i - 1]
  BY <1>1
<1>3. DOMAIN t = 1..(Len(s) + 1)
  BY <1>2
<1>4. \A i \in 1..(Len(s) + 1) : i = 1 \/ (i \in 2..(Len(s) + 1) /\ i - 1 \in 1..Len(s))
  BY <1>1
<1>5. \A i \in 1..Len(s) : i + 1 \in 2..(Len(s) + 1) /\ t[i + 1] = s[i] /\ i + 1 \in DOMAIN t
  BY <1>1, <1>2, <1>3
<1>9. 1 \in DOMAIN t
  BY <1>1, <1>3
<1> HIDE DEF t
<1>6. ToSet(t) = ToSet(s) \cup {o}
  <2>1. \A i \in DOMAIN t : t[i] \in ToSet(s) \cup {o}
    BY <1>1, <1>2, <1>3, <1>4
  <2>2. \A p \in ToSet(s) : \E i \in DOMAIN t : p = t[i]
    BY <1>1, <1>5
  <2> QED
    BY <1>2, <1>9, <2>1, <2>2 DEF ToSet
<1>7. ASSUME Sorted(a, s), Ahead(a, {o}, ToSet(s)) PROVE Sorted(a, t)
  <2> SUFFICES ASSUME NEW i \in 1..Len(t), NEW j \in 1..Len(t), i < j PROVE Earlier(a, t[i], t[j])
    BY DEF Sorted
  <2>1. j \in 2..(Len(s) + 1) /\ j - 1 \in 1..Len(s) /\ t[j] = s[j - 1]
    BY <1>1, <1>2
  <2>2. CASE i = 1
    BY <1>1, <1>2, <1>7, <2>1, <2>2 DEF Ahead
  <2>3. CASE i # 1
    <3>1. i - 1 \in 1..Len(s) /\ t[i] = s[i - 1] /\ i - 1 < j - 1
      BY <1>1, <1>2, <2>1, <2>3
    <3> QED
      BY <1>7, <2>1, <3>1 DEF Sorted
  <2> QED
    BY <2>2, <2>3
<1> QED
  BY <1>2, <1>6, <1>7 DEF t

\* Two sequences one behind the other.
LEMMA ConcatFacts ==
  ASSUME NEW s \in Seq(Ops), NEW r \in Seq(Ops), NEW a
  PROVE  /\ s \o r \in Seq(Ops) /\ ToSet(s \o r) = ToSet(s) \cup ToSet(r)
         /\ Sorted(a, s) /\ Sorted(a, r) /\ Ahead(a, ToSet(s), ToSet(r)) => Sorted(a, s \o r)
         /\ IsInjective(s) /\ IsInjective(r) /\ ToSet(s) \cap ToSet(r) = {} => IsInjective(s \o r)
<1> DEFINE t == s \o r
           n == Len(s)
           m == Len(r)
<1>1. /\ n \in Nat /\ \A i \in 1..n : s[i] \in ToSet(s)
      /\ \A p \in ToSet(s) : \E i \in 1..n : p = s[i]
      /\ m \in Nat /\ \A i \in 1..m : r[i] \in ToSet(r)
      /\ \A p \in ToSet(r) : \E i \in 1..m : p = r[i]
  BY Elements
<1>2. /\ t \in Seq(Ops) /\ Len(t) = n + m
      /\ \A i \in 1..n : t[i] = s[i]
      /\ \A i \in (n + 1)..(n + m) : t[i] = r[i - n]
  BY <1>1
<1>3. DOMAIN t = 1..(n + m) /\ DOMAIN s = 1..n /\ DOMAIN r = 1..m
  BY <1>2
<1>4. \A i \in 1..(n + m) : i \in 1..n \/ (i \in (n + 1)..(n + m) /\ i - n \in 1..m)
  BY <1>1
<1>5. \A i \in 1..m : i + n \in (n + 1)..(n + m) /\ i + n \in 1..(n + m) /\ t[i + n] = r[i]
  BY <1>1, <1>2
<1>6. \A i \in 1..n : i \in 1..(n + m)
  BY <1>1
<1> HIDE DEF t
<1>7. ToSet(t) = ToSet(s) \cup ToSet(r)
  <2>1. \A i \in DOMAIN t : t[i] \in ToSet(s) \cup ToSet(r)
    BY <1>1, <1>2, <1>3, <1>4
  <2>2. \A p \in ToSet(s) : \E i \in DOMAIN t : p = t[i]
    BY <1>1, <1>2, <1>3, <1>6
  <2>3. \A p \in ToSet(r) : \E i \in DOMAIN t : p = t[i]
    BY <1>1, <1>3, <1>5
  <2>4. \A p \in ToSet(t) : \E i \in DOMAIN t : p = t[i]
    BY DEF ToSet
  <2>5. \A i \in DOMAIN t : t[i] \in ToSet(t)
    BY DEF ToSet
  <2> QED
    BY <2>1, <2>2, <2>3, <2>4, <2>5
<1>8. ASSUME Sorted(a, s), Sorted(a, r), Ahead(a, ToSet(s), ToSet(r)) PROVE Sorted(a, t)
  <2> SUFFICES ASSUME NEW i \in 1..(n + m), NEW j \in 1..(n + m), i < j PROVE Earlier(a, t[i], t[j])
    BY <1>2 DEF Sorted
  <2>1. CASE j \in 1..n
    <3>1. i \in 1..n
      BY <1>1, <2>1
    <3> QED
      BY <1>2, <1>8, <2>1, <3>1 DEF Sorted
  <2>2. CASE i \in 1..n /\ j \in (n + 1)..(n + m)
    BY <1>1, <1>2, <1>4, <1>8, <2>2 DEF Ahead
  <2>3. CASE i \in (n + 1)..(n + m)
    <3>1. j \in (n + 1)..(n + m) /\ i - n \in 1..m /\ j - n \in 1..m /\ i - n < j - n
      BY <1>1, <2>3
    <3> QED
      BY <1>2, <1>8, <2>3, <3>1 DEF Sorted
  <2> QED
    BY <1>4, <2>1, <2>2, <2>3
<1>9. ASSUME IsInjective(s), IsInjective(r), ToSet(s) \cap ToSet(r) = {} PROVE IsInjective(t)
  <2> SUFFICES ASSUME NEW i \in 1..(n + m), NEW j \in 1..(n + m), t[i] = t[j] PROVE i = j
    BY <1>3 DEF IsInjective
  <2>1. CASE i \in 1..n /\ j \in 1..n
    BY <1>2, <1>3, <1>9, <2>1 DEF IsInjective
  <2>2. CASE i \in (n + 1)..(n + m) /\ j \in (n + 1)..(n + m)
    <3>1. i - n \in 1..m /\ j - n \in 1..m
      BY <1>1, <2>2
    <3>2. r[i - n] = r[j - n]
      BY <1>2, <2>2
    <3>3. i - n = j - n
      BY <1>3, <1>9, <3>1, <3>2 DEF IsInjective
    <3> QED
      BY <1>1, <3>3
  <2>3. CASE i \in 1..n /\ j \in (n + 1)..(n + m)
    <3>1. j - n \in 1..m
      BY <1>1, <2>3
    <3> QED
      BY <1>1, <1>2, <1>9, <2>3, <3>1
  <2>4. CASE i \in (n + 1)..(n + m) /\ j \in 1..n
    <3>1. i - n \in 1..m
      BY <1>1, <2>4
    <3> QED
      BY <1>1, <1>2, <1>9, <2>4, <3>1
  <2> QED
    BY <1>4, <2>1, <2>2, <2>3, <2>4
<1> QED
  BY <1>2, <1>7, <1>8, <1>9 DEF t

\* A part of a sequence.
LEMMA PartFacts ==
  ASSUME NEW s \in Seq(Ops), NEW m \in Nat \ {0}, NEW n \in Nat, n <= Len(s), NEW a
  PROVE  /\ SubSeq(s, m, n) \in Seq(Ops)
         /\ ToSet(SubSeq(s, m, n)) = {s[i] : i \in m..n}
         /\ Sorted(a, s) => Sorted(a, SubSeq(s, m, n))
<1> DEFINE t == SubSeq(s, m, n)
           k == IF m <= n THEN n - m + 1 ELSE 0
<1>1. Len(s) \in Nat /\ \A i \in m..n : s[i] \in Ops /\ i \in 1..Len(s)
  BY Elements
<1>2. /\ t \in Seq(Ops) /\ Len(t) = k /\ \A i \in 1..(n - m + 1) : t[i] = s[m + i - 1]
  BY <1>1, SubSeqProperties
<1>3. k \in Nat /\ DOMAIN t = 1..k /\ \A i \in 1..k : t[i] = s[m + i - 1] /\ m + i - 1 \in m..n
  BY <1>2
<1>4. \A i \in m..n : i - m + 1 \in 1..k /\ s[i] = s[m + (i - m + 1) - 1]
  OBVIOUS
<1>5. ToSet(t) = {s[i] : i \in m..n}
  <2> HIDE DEF t, k
  <2>1. \A i \in 1..k : t[i] \in {s[j] : j \in m..n}
    BY <1>3
  <2>2. \A i \in m..n : s[i] = t[i - m + 1]
    BY <1>3, <1>4
  <2> QED
    BY <1>3, <1>4, <2>1, <2>2 DEF ToSet
<1>6. ASSUME Sorted(a, s) PROVE Sorted(a, t)
  <2> SUFFICES ASSUME NEW i \in 1..k, NEW j \in 1..k, i < j PROVE Earlier(a, t[i], t[j])
    BY <1>2 DEF Sorted
  <2> HIDE DEF t, k
  <2>1. m + i - 1 \in 1..Len(s) /\ m + j - 1 \in 1..Len(s) /\ m + i - 1 < m + j - 1
    BY <1>1, <1>3
  <2> QED
    BY <1>3, <1>6, <2>1 DEF Sorted
<1> QED
  BY <1>2, <1>5, <1>6

\* What is ahead of another thing is not that thing.
LEMMA Apart ==
  ASSUME NEW a \in Seq(Ops), IsInjective(a), NEW S, NEW T, Ahead(a, S, T), NEW o \in ToSet(a), o \in S
  PROVE  o \notin T
<1> SUFFICES ASSUME o \in T PROVE FALSE
  OBVIOUS
<1>1. Before(a, o, o)
  BY DEF Ahead, Earlier
<1>2. PICK i, j \in 1..Len(a) : i < j /\ a[i] = o /\ a[j] = o
  BY <1>1 DEF Before
<1>3. i \in DOMAIN a /\ j \in DOMAIN a
  OBVIOUS
<1> QED
  BY <1>2, <1>3 DEF IsInjective

\* A sorted sequence of arrived ops has each of them once.
LEMMA Distinct ==
  ASSUME NEW a \in Seq(Ops), IsInjective(a), NEW s \in Seq(Ops), Sorted(a, s), ToSet(s) \subseteq ToSet(a)
  PROVE  IsInjective(s)
<1>1. ASSUME NEW i \in 1..Len(s), NEW j \in 1..Len(s), i < j, s[i] = s[j] PROVE FALSE
  <2>1. s[i] \in ToSet(a)
    BY Elements
  <2>2. Ahead(a, {s[i]}, {s[j]})
    BY <1>1 DEF Sorted, Ahead
  <2> QED
    BY <1>1, <2>1, <2>2, Apart
<1>2. DOMAIN s = 1..Len(s) /\ Len(s) \in Nat
  OBVIOUS
<1> QED
  BY <1>1, <1>2 DEF IsInjective

\* An op arrives: the order of the others stays, and all of them are before it.
LEMMA Arrives ==
  ASSUME NEW a \in Seq(Ops), NEW x \in Ops, x \notin ToSet(a), IsInjective(a), NEW b, b = Append(a, x)
  PROVE  /\ b \in Seq(Ops) /\ ToSet(b) = ToSet(a) \cup {x} /\ IsInjective(b)
         /\ \A o, p : o # x /\ p # x /\ Earlier(a, o, p) => Earlier(b, o, p)
         /\ \A o : o # x => Earlier(b, o, x)
<1>1. /\ b \in Seq(Ops) /\ ToSet(b) = ToSet(a) \cup {x} /\ IsInjective(b)
      /\ Len(b) = Len(a) + 1 /\ b[Len(a) + 1] = x /\ \A i \in 1..Len(a) : b[i] = a[i]
  BY AppendFacts
<1>2. Len(a) \in Nat /\ \A o \in ToSet(a) : \E i \in 1..Len(a) : o = a[i]
  BY Elements
<1>3. \A i \in 1..Len(a) : i \in 1..Len(b) /\ i < Len(a) + 1 /\ Len(a) + 1 \in 1..Len(b)
  BY <1>1, <1>2
<1>4. \A o, p : Before(a, o, p) => Before(b, o, p)
  BY <1>1, <1>3 DEF Before
<1>5. \A o \in ToSet(a) : Before(b, o, x)
  BY <1>1, <1>2, <1>3 DEF Before
<1> QED
  BY <1>1, <1>4, <1>5 DEF Earlier

\* A place in front of which nothing in the lane is live.
LEMMA FirstFacts ==
  ASSUME Types, NEW l \in Lanes
  PROVE  \/ First(l) = 0 /\ \A i \in 1..Len(queue[l]) : ~Live(queue[l][i])
         \/ /\ First(l) \in 1..Len(queue[l]) /\ Live(queue[l][First(l)])
            /\ \A i \in 1..Len(queue[l]) : i < First(l) => ~Live(queue[l][i])
<1> DEFINE I == {i \in 1..Len(queue[l]) : Live(queue[l][i])}
<1>1. First(l) = IF I # {} THEN Min(I) ELSE 0
  BY DEF First, SelectInSeq
<1>2. queue[l] \in Seq(Ops)
  BY DEF Types
<1>3. Len(queue[l]) \in Nat /\ I \subseteq 1..Len(queue[l])
  BY <1>2
<1>4. CASE I = {}
  BY <1>1, <1>4
<1>5. CASE I # {}
  <2>1. Min(I) \in I /\ \A y \in I : Min(I) <= y
    BY <1>3, <1>5, LeastExists
  <2>2. Min(I) \in 1..Len(queue[l])
    BY <1>3, <2>1
  <2>3. \A i \in 1..Len(queue[l]) : i < Min(I) => i \notin I
    BY <2>1, <2>2
  <2> QED
    BY <1>1, <1>5, <2>1, <2>2, <2>3
<1> QED
  BY <1>4, <1>5

\* What is taken, and what stays in the queue: only cancelled ops leave with it.
LEMMA TakenFacts ==
  ASSUME Types, Places, Order, HasNext
  PROVE  /\ NextLane \in Lanes /\ NextOp \in ToSet(queue[NextLane]) /\ NextOp \in Ops /\ Live(NextOp)
         /\ Popped \in [Lanes -> Seq(Ops)]
         /\ \A l \in Lanes :
              /\ ToSet(Popped[l]) \subseteq ToSet(queue[l]) /\ Sorted(arrived, Popped[l])
              /\ \A o \in ToSet(queue[l]) : Live(o) => o = NextOp \/ o \in ToSet(Popped[l])
              /\ Ahead(arrived, {NextOp}, ToSet(Popped[l]))
<1> DEFINE k == NextLane
           f == First(k)
           q == queue[k]
<1>1. k \in Lanes /\ f # 0 /\ \A l \in Lanes : l = "priority" => l = k \/ First(l) = 0
  BY DEF HasNext, NextLane, Lanes
<1>2. /\ f \in 1..Len(q) /\ Live(q[f]) /\ \A i \in 1..Len(q) : i < f => ~Live(q[i])
  BY <1>1, FirstFacts
<1>3. \A l \in Lanes : queue[l] \in Seq(Ops) /\ Sorted(arrived, queue[l])
  BY DEF Types, Order
<1>4. Len(q) \in Nat /\ q \in Seq(Ops) /\ q[f] \in ToSet(q) /\ q[f] \in Ops
  BY <1>1, <1>2, <1>3, Elements
<1>5. NextOp = q[f]
  BY DEF NextOp
<1> HIDE DEF k, f, q
<1> DEFINE t == SubSeq(q, f + 1, Len(q))
<1>6. /\ t \in Seq(Ops) /\ ToSet(t) = {q[i] : i \in (f + 1)..Len(q)} /\ Sorted(arrived, t)
  <2>1. f + 1 \in Nat \ {0} /\ Sorted(arrived, q)
    BY <1>1, <1>2, <1>3, <1>4 DEF q
  <2> QED
    BY <1>4, <2>1, PartFacts
<1>7. Popped = [l \in Lanes |-> IF l = k THEN t ELSE IF l = "priority" THEN <<>> ELSE queue[l]]
  BY DEF Popped, k, f, q
<1> HIDE DEF t
<1>8. Popped[k] = t
  BY <1>1, <1>7
<1>9. \A l \in Lanes : l # k => Popped[l] = queue[l] \/ (l = "priority" /\ Popped[l] = <<>>)
  BY <1>7
<1>10. Popped \in [Lanes -> Seq(Ops)]
  BY <1>3, <1>6, <1>7, EmptyFacts
<1>11. ASSUME NEW l \in Lanes
       PROVE  /\ ToSet(Popped[l]) \subseteq ToSet(queue[l]) /\ Sorted(arrived, Popped[l])
              /\ \A o \in ToSet(queue[l]) : Live(o) => o = NextOp \/ o \in ToSet(Popped[l])
              /\ Ahead(arrived, {NextOp}, ToSet(Popped[l]))
  <2>1. CASE l = k
    <3>1. \A i \in (f + 1)..Len(q) : i \in 1..Len(q) /\ f < i
      BY <1>2, <1>4
    <3>2. ToSet(t) \subseteq ToSet(q)
      BY <1>4, <1>6, <3>1, Elements
    <3>3. ASSUME NEW o \in ToSet(q), Live(o) PROVE o = NextOp \/ o \in ToSet(t)
      <4>1. PICK i \in 1..Len(q) : o = q[i]
        BY <1>4, Elements
      <4>2. i = f \/ i \in (f + 1)..Len(q)
        BY <1>2, <3>3, <4>1
      <4> QED
        BY <1>5, <1>6, <4>1, <4>2
    <3>4. \A i \in (f + 1)..Len(q) : Earlier(arrived, q[f], q[i])
      BY <1>1, <1>2, <1>3, <3>1 DEF Sorted, q
    <3>5. Ahead(arrived, {NextOp}, ToSet(t))
      BY <1>5, <1>6, <3>4 DEF Ahead
    <3> QED
      BY <1>6, <1>8, <2>1, <3>2, <3>3, <3>5 DEF q
  <2>2. CASE l # k
    <3>1. Lane[NextOp] = k /\ \A o \in ToSet(queue[l]) : Lane[o] = l
      BY <1>1, <1>4, <1>5 DEF Places, q
    <3>2. ToSet(Popped[l]) \subseteq ToSet(queue[l]) /\ Sorted(arrived, Popped[l])
      BY <1>3, <1>9, <2>2, EmptyFacts
    <3>3. Ahead(arrived, {NextOp}, ToSet(Popped[l]))
      BY <2>2, <3>1, <3>2 DEF Ahead, Earlier
    <3>4. CASE Popped[l] = queue[l]
      BY <3>2, <3>3, <3>4
    <3>5. CASE l = "priority"
      <4>1. \A i \in 1..Len(queue[l]) : ~Live(queue[l][i])
        BY <1>1, <2>2, <3>5, FirstFacts
      <4>2. \A o \in ToSet(queue[l]) : ~Live(o)
        BY <1>3, <4>1, Elements
      <4> QED
        BY <3>2, <3>3, <4>2
    <3> QED
      BY <1>9, <2>2, <3>4, <3>5
  <2> QED
    BY <2>1, <2>2
<1> QED
  BY <1>1, <1>2, <1>4, <1>5, <1>10, <1>11 DEF k, q

\* Going back to the front of the lanes: g is what is there after each op.
Back(g, s, n) ==
  g = [i \in 0..n |->
         IF i = 0 THEN queue
         ELSE [g[i - 1] EXCEPT ![Lane[s[Len(s) + 1 - i]]] =
                 <<s[Len(s) + 1 - i]>> \o g[i - 1][Lane[s[Len(s) + 1 - i]]]]]

\* There is such a function.
LEMMA BackExists ==
  ASSUME NEW s \in Seq(Ops), NEW n \in Nat
  PROVE  \E g : Back(g, s, n)
<1> DEFINE Next1(q, i) == [q EXCEPT ![Lane[s[Len(s) + 1 - i]]] =
                             <<s[Len(s) + 1 - i]>> \o q[Lane[s[Len(s) + 1 - i]]]]
<1>1. \A g, m : Back(g, s, m) <=> g = [i \in 0..m |-> IF i = 0 THEN queue ELSE Next1(g[i - 1], i)]
  BY DEF Back
<1> HIDE DEF Next1
<1>2. Back([i \in 0..0 |-> queue], s, 0)
  BY <1>1
<1>3. ASSUME NEW m \in Nat, NEW g, Back(g, s, m) PROVE \E h : Back(h, s, m + 1)
  <2> DEFINE h == [i \in 0..(m + 1) |-> IF i = m + 1 THEN Next1(g[m], m + 1) ELSE g[i]]
  <2>1. \A i \in 0..m : i \in 0..(m + 1) /\ h[i] = g[i]
    OBVIOUS
  <2>2. h[m + 1] = Next1(h[m], m + 1)
    BY <2>1
  <2>3. \A i \in 0..m : g[i] = IF i = 0 THEN queue ELSE Next1(g[i - 1], i)
    BY <1>1, <1>3
  <2>4. ASSUME NEW i \in 0..(m + 1) PROVE h[i] = IF i = 0 THEN queue ELSE Next1(h[i - 1], i)
    <3>1. CASE i = m + 1
      BY <2>2, <3>1
    <3>2. CASE i = 0
      BY <2>1, <2>3, <3>2
    <3>3. CASE i \in 1..m
      <4>1. i \in 0..m /\ i - 1 \in 0..m /\ i # 0
        BY <3>3
      <4> QED
        BY <2>1, <2>3, <4>1
    <3> QED
      BY <3>1, <3>2, <3>3
  <2>5. h = [i \in 0..(m + 1) |-> h[i]]
    OBVIOUS
  <2> HIDE DEF h
  <2>6. h = [i \in 0..(m + 1) |-> IF i = 0 THEN queue ELSE Next1(h[i - 1], i)]
    BY <2>4, <2>5
  <2> QED
    BY <1>1, <2>6
<1> DEFINE Bad == {m \in 1..n : ~\E g : Back(g, s, m)}
<1>4. ASSUME Bad # {} PROVE FALSE
  <2>1. Min(Bad) \in Bad /\ \A y \in Bad : Min(Bad) <= y
    BY <1>4, LeastExists
  <2>2. PICK m \in 1..n : m \in Bad /\ \A y \in Bad : m <= y
    BY <2>1
  <2>3. m - 1 \in Nat /\ (m - 1) + 1 = m /\ (m - 1 = 0 \/ (m - 1 \in 1..n /\ m - 1 \notin Bad))
    BY <2>2
  <2>4. \E g : Back(g, s, m - 1)
    BY <1>2, <2>3
  <2>5. \E g : Back(g, s, (m - 1) + 1)
    BY <1>3, <2>3, <2>4
  <2> QED
    BY <2>2, <2>3, <2>5
<1>5. CASE n = 0
  BY <1>2, <1>5
<1>6. CASE n \in 1..n
  BY <1>4, <1>6
<1> QED
  BY <1>5, <1>6

\* Requeued is the last of them.
LEMMA RequeuedIsBack ==
  ASSUME NEW s \in Seq(Ops)
  PROVE  \E g : Back(g, s, Len(s)) /\ Requeued(s) = g[Len(s)]
<1>1. Len(s) \in Nat
  OBVIOUS
<1>2. \E g : Back(g, s, Len(s))
  BY <1>1, BackExists
<1>3. PICK g : Back(g, s, Len(s))
  BY <1>2
<1> QED
  BY <1>3 DEF Requeued, Back

\* The ops of s that belong in lane l.
Of(s, l) == {o \in ToSet(s) : Lane[o] = l}

\* The ops that go back are in front of their lanes, in their order.
LEMMA RequeuedFacts ==
  ASSUME Types, NEW s \in Seq(Ops), NEW a, Sorted(a, s), NEW l \in Lanes,
         Sorted(a, queue[l]), Ahead(a, ToSet(s), ToSet(queue[l]))
  PROVE  /\ Requeued(s) \in [Lanes -> Seq(Ops)]
         /\ ToSet(Requeued(s)[l]) = ToSet(queue[l]) \cup Of(s, l)
         /\ Sorted(a, Requeued(s)[l])
<1> DEFINE n == Len(s)
           back(i) == {s[j] : j \in {k \in 1..n : k > n - i}}
           Ok(q, i) == /\ q \in [Lanes -> Seq(Ops)] /\ Sorted(a, q[l])
                       /\ ToSet(q[l]) = ToSet(queue[l]) \cup {o \in back(i) : Lane[o] = l}
<1>1. n \in Nat /\ \A i \in 1..n : s[i] \in Ops /\ s[i] \in ToSet(s)
  BY Elements
<1>2. PICK g : Back(g, s, n) /\ Requeued(s) = g[n]
  BY RequeuedIsBack
<1>3. /\ g[0] = queue
      /\ \A i \in 1..n : g[i] = [g[i - 1] EXCEPT ![Lane[s[n + 1 - i]]] =
                                 <<s[n + 1 - i]>> \o g[i - 1][Lane[s[n + 1 - i]]]]
  <2>1. 0 \in 0..n /\ \A i \in 1..n : i \in 0..n /\ i # 0
    BY <1>1
  <2>2. \A i \in 0..n : g[i] = IF i = 0 THEN queue
                             ELSE [g[i - 1] EXCEPT ![Lane[s[n + 1 - i]]] =
                                     <<s[n + 1 - i]>> \o g[i - 1][Lane[s[n + 1 - i]]]]
    BY <1>2 DEF Back
  <2> QED
    BY <2>1, <2>2
<1>4. back(0) = {}
  BY <1>1
<1>5. Ok(g[0], 0)
  BY <1>3, <1>4 DEF Types
<1>6. ASSUME NEW i \in 1..n, Ok(g[i - 1], i - 1) PROVE Ok(g[i], i)
  <2>1. PICK o : o = s[n + 1 - i]
    OBVIOUS
  <2>2. PICK q : q = g[i - 1]
    OBVIOUS
  <2>3. n + 1 - i \in 1..n /\ o \in Ops /\ o \in ToSet(s) /\ Lane[o] \in Lanes
    BY <1>1, <2>1, WriterAssumption
  <2>4. back(i) = back(i - 1) \cup {o}
    <3>1. \A k \in 1..n : k > n - i <=> k > n - (i - 1) \/ k = n + 1 - i
      BY <1>1
    <3> QED
      BY <2>1, <2>3, <3>1
  <2>5. \A p \in back(i - 1) : Earlier(a, o, p)
    <3>1. \A k \in 1..n : k > n - (i - 1) => n + 1 - i < k
      BY <1>1
    <3> QED
      BY <2>1, <2>3, <3>1 DEF Sorted
  <2>6. q \in [Lanes -> Seq(Ops)] /\ Sorted(a, q[l])
        /\ ToSet(q[l]) = ToSet(queue[l]) \cup {p \in back(i - 1) : Lane[p] = l}
    BY <1>6, <2>2
  <2>7. g[i] = [q EXCEPT ![Lane[o]] = <<o>> \o q[Lane[o]]]
    BY <1>3, <2>1, <2>2
  <2> HIDE DEF back
  <2>8. \A r \in Seq(Ops) : <<o>> \o r \in Seq(Ops)
    BY <2>3, PrependFacts
  <2>9. g[i] \in [Lanes -> Seq(Ops)]
    BY <2>3, <2>6, <2>7, <2>8
  <2>10. CASE Lane[o] = l
    <3>1. g[i][l] = <<o>> \o q[l] /\ q[l] \in Seq(Ops)
      BY <2>6, <2>7, <2>10
    <3>2. Ahead(a, {o}, ToSet(q[l]))
      BY <2>3, <2>5, <2>6 DEF Ahead
    <3>3. Sorted(a, <<o>> \o q[l]) /\ ToSet(<<o>> \o q[l]) = ToSet(q[l]) \cup {o}
      BY <2>3, <2>6, <3>1, <3>2, PrependFacts
    <3> QED
      BY <2>4, <2>6, <2>9, <2>10, <3>1, <3>3
  <2>11. CASE Lane[o] # l
    <3>1. g[i][l] = q[l]
      BY <2>6, <2>7, <2>11
    <3> QED
      BY <2>4, <2>6, <2>9, <2>11, <3>1
  <2> QED
    BY <2>10, <2>11
<1> HIDE DEF Ok, back
<1> DEFINE Bad == {i \in 1..n : ~Ok(g[i], i)}
<1>7. ASSUME Bad # {} PROVE FALSE
  <2>1. Min(Bad) \in Bad /\ \A y \in Bad : Min(Bad) <= y
    BY <1>1, <1>7, LeastExists
  <2>2. PICK m \in 1..n : m \in Bad /\ \A y \in Bad : m <= y
    BY <2>1
  <2>3. m - 1 = 0 \/ (m - 1 \in 1..n /\ m - 1 \notin Bad)
    BY <1>1, <2>2
  <2>4. Ok(g[m - 1], m - 1)
    BY <1>5, <2>3
  <2> QED
    BY <1>6, <2>2, <2>4
<1>8. Ok(g[n], n)
  <2>1. CASE n = 0
    BY <1>5, <2>1
  <2>2. CASE n \in 1..n
    BY <1>7, <2>2
  <2> QED
    BY <1>1, <2>1, <2>2
<1>9. back(n) = ToSet(s)
  <2>1. \A k \in 1..n : k > n - n
    BY <1>1
  <2>2. DOMAIN s = 1..n
    OBVIOUS
  <2> QED
    BY <1>1, <2>1, <2>2 DEF back, ToSet
<1> QED
  BY <1>2, <1>8, <1>9 DEF Ok, Of

-----------------------------------------------------------------------------
(* The writer's steps.                                                     *)

\* What has been refused, closed or cancelled, or answered, stays so.
Frozen == \A o \in Ops : /\ Dead(o) => fut'[o] = fut[o]
                         /\ told[o] # "none" => told'[o] = told[o] /\ (fut[o] = "none" => fut'[o] = "none")

\* A step that only settles ops of the batch, commits them, or drops queued ones,
\* leaves what callers know true.
LEMMA CallersStay ==
  ASSUME WriterInv, Types', call' = call, told' = told, left'.lost <= left.lost,
         \A o \in Ops : /\ fut[o] = "none" <=> fut'[o] = "none"
                        /\ Dead(o) => fut'[o] = fut[o]
                        /\ fut'[o] \in {"closed", "cancelled"} => Dead(o) \/ o \notin ToSet(db'),
         ToSet(db) \subseteq ToSet(db'),
         \A o \in ToSet(db') : o \in ToSet(db) \/ fut[o] = "running",
         left'.lost = Budget.lost => \A o \in Ops : fut'[o] = "ok" => fut[o] = "ok" \/ o \in ToSet(db')
  PROVE  Callers' /\ Refusals' /\ Durable' /\ Frozen
<1>1. \A o \in Ops : Fresh(o) => Fresh(o)'
  BY DEF Fresh
<1>2. \A t \in Threads : call[t].pc # "idle" => call[t].op \in Ops
  BY DEF WriterInv, Types, Calls, NoCall
<1>3. \A t \in Threads : call[t].pc \notin {"idle", "wait"} => Fresh(call[t].op)'
  BY <1>1, <1>2 DEF WriterInv, Callers
<1>4. Callers'
  BY <1>1, <1>2, <1>3 DEF WriterInv, Callers
<1>5. Refusals'
  <2> SUFFICES ASSUME NEW o \in Ops
               PROVE  /\ Refused(o)' => fut'[o] \in {"none", "closed"}
                      /\ Refused(o)' \/ Dead(o)' => o \notin ToSet(db')
    BY DEF Refusals
  <2>1. Refused(o)' = Refused(o)
    BY DEF Refused
  <2>2. Refused(o) => fut'[o] \in {"none", "closed"}
    BY DEF WriterInv, Refusals, Dead
  <2>3. Refused(o) \/ Dead(o) => o \notin ToSet(db) /\ fut[o] # "running"
    BY DEF WriterInv, Refusals, Dead
  <2>4. Refused(o) \/ Dead(o) => o \notin ToSet(db')
    BY <2>3
  <2> QED
    BY <2>1, <2>2, <2>4 DEF Dead
<1>6. Durable'
  <2>1. left.lost \in Nat /\ left'.lost \in Nat /\ Budget.lost \in Nat
    BY WriterAssumption DEF WriterInv, Types, Spendings
  <2>2. left'.lost <= Budget.lost /\ (left'.lost = Budget.lost => left.lost = Budget.lost)
    BY <2>1 DEF WriterInv, Durable
  <2> QED
    BY <2>2 DEF WriterInv, Durable
<1> QED
  BY <1>4, <1>5, <1>6 DEF Frozen

\* The sequences and their elements, and what is ahead of what.
LEMMA InvFacts ==
  ASSUME WriterInv
  PROVE  /\ writer.ops \in Seq(Ops) /\ Len(writer.ops) \in Nat /\ writer.n \in Nat \ {0}
         /\ ToSet(arrived) \subseteq Ops /\ ToSet(db) \subseteq Ops
         /\ ToSet(txn) \subseteq ToSet(writer.ops) /\ ToSet(writer.ops) \subseteq ToSet(arrived)
         /\ \A l \in Lanes : ToSet(queue[l]) \subseteq ToSet(arrived)
         /\ \A o \in ToSet(writer.ops) : o \notin ToSet(db) /\ \A l \in Lanes : o \notin ToSet(queue[l])
         /\ \A l \in Lanes : \A o \in ToSet(queue[l]) : o \notin ToSet(db)
<1>1. writer.ops \in Seq(Ops) /\ Len(writer.ops) \in Nat /\ writer.n \in Nat \ {0}
  BY DEF WriterInv, Types, Batch
<1>2. /\ ToSet(arrived) \subseteq Ops /\ ToSet(db) \subseteq Ops /\ ToSet(writer.ops) \subseteq Ops
      /\ \A l \in Lanes : ToSet(queue[l]) \subseteq Ops
  BY <1>1, Elements DEF WriterInv, Types
<1>3. /\ ToSet(writer.ops) \subseteq ToSet(arrived)
      /\ \A l \in Lanes : ToSet(queue[l]) \subseteq ToSet(arrived)
  BY <1>2 DEF WriterInv, Places
<1>4. arrived \in Seq(Ops) /\ IsInjective(arrived)
  BY DEF WriterInv, Types, Order
<1>5. \A o \in ToSet(writer.ops) : o \notin ToSet(db)
  <2> SUFFICES ASSUME NEW o \in ToSet(writer.ops), o \in ToSet(db) PROVE FALSE
    OBVIOUS
  <2> QED
    BY <1>3, <1>4, Apart DEF WriterInv, Order
<1>6. ASSUME NEW l \in Lanes, NEW o \in ToSet(queue[l]) PROVE o \notin ToSet(db) /\ o \notin ToSet(writer.ops)
  <2>1. Ahead(arrived, ToSet(db), ToSet(queue[l])) /\ Ahead(arrived, ToSet(writer.ops), ToSet(queue[l]))
    BY DEF WriterInv, Order
  <2>2. o \in ToSet(arrived)
    BY <1>3
  <2> QED
    BY <1>4, <2>1, <2>2, Apart
<1> QED
  BY <1>1, <1>2, <1>3, <1>5, <1>6 DEF WriterInv, Attempt

\* One more op joins the batch.
LEMMA GrowKeeps ==
  ASSUME WriterInv, HasNext, Taken, writer' \in Batch, writer'.ops = Append(writer.ops, NextOp),
         writer'.n = writer.n, UNCHANGED <<state, late, txn, db, callVars, left>>
  PROVE  Types' /\ Callers' /\ Refusals' /\ Durable' /\ Places' /\ Order' /\ Frozen
<1>0. /\ writer.ops \in Seq(Ops) /\ Len(writer.ops) \in Nat /\ writer.n \in Nat \ {0}
      /\ ToSet(txn) \subseteq ToSet(writer.ops)
  BY InvFacts
<1> PICK o : o = NextOp
  OBVIOUS
<1> PICK q : q = Popped
  OBVIOUS
<1>1. /\ NextLane \in Lanes /\ o \in ToSet(queue[NextLane]) /\ o \in Ops /\ fut[o] \in {"pending", "running"}
      /\ q \in [Lanes -> Seq(Ops)]
      /\ \A l \in Lanes :
           /\ ToSet(q[l]) \subseteq ToSet(queue[l]) /\ Sorted(arrived, q[l])
           /\ \A p \in ToSet(queue[l]) : fut[p] \in {"pending", "running"} => p = o \/ p \in ToSet(q[l])
           /\ Ahead(arrived, {o}, ToSet(q[l]))
  BY TakenFacts DEF WriterInv, Live
<1>2. queue' = q /\ fut' = [fut EXCEPT ![o] = "running"]
  BY DEF Taken
<1>3. writer'.ops = Append(writer.ops, o)
  OBVIOUS
<1>4. ToSet(writer'.ops) = ToSet(writer.ops) \cup {o} /\ writer'.ops \in Seq(Ops)
  BY <1>0, <1>1, <1>3, AppendFacts
<1>5. Types'
  BY <1>1, <1>2 DEF WriterInv, Types, Futures, callVars
<1>6. \A p \in Ops : fut'[p] = IF p = o THEN "running" ELSE fut[p]
  BY <1>1, <1>2 DEF WriterInv, Types
<1>7. call' = call /\ told' = told /\ arrived' = arrived /\ db' = db /\ left' = left /\ txn' = txn
  BY DEF callVars
<1>8. Callers' /\ Refusals' /\ Durable' /\ Frozen
  <2>1. left'.lost <= left.lost
    BY <1>7, <1>5 DEF Types, WriterInv, Spendings
  <2>2. \A p \in Ops : /\ fut[p] = "none" <=> fut'[p] = "none"
                       /\ Dead(p) => fut'[p] = fut[p]
                       /\ fut'[p] \in {"closed", "cancelled"} => Dead(p) \/ p \notin ToSet(db')
                       /\ fut'[p] = "ok" => fut[p] = "ok"
    BY <1>1, <1>6 DEF Dead
  <2> QED
    BY <1>5, <1>7, <2>1, <2>2, CallersStay
<1>9. Places'
  <2>1. \A p \in Ops : p \in ToSet(arrived') <=> fut'[p] # "none"
    BY <1>1, <1>6, <1>7 DEF WriterInv, Places
  <2>2. \A l \in Lanes : \A p \in ToSet(queue'[l]) :
          Lane[p] = l /\ fut'[p] \in {"pending", "running", "cancelled"}
    <3>1. \A l \in Lanes : \A p \in ToSet(queue[l]) : p \in Ops
      BY InvFacts
    <3> QED
      BY <1>1, <1>2, <1>6, <3>1 DEF WriterInv, Places
  <2>3. \A p \in ToSet(writer'.ops) : fut'[p] = "running"
    <3>1. \A p \in ToSet(writer.ops) : p \in Ops /\ fut[p] = "running"
      BY InvFacts DEF WriterInv, Places
    <3> QED
      BY <1>1, <1>4, <1>6, <3>1
  <2>4. \A p \in Ops : fut'[p] = "pending" => p \in ToSet(queue'[Lane[p]])
    BY <1>1, <1>2, <1>6, WriterAssumption DEF WriterInv, Places
  <2>5. \A p \in Ops : fut'[p] = "running" => p \in ToSet(writer'.ops) \cup ToSet(queue'[Lane[p]])
    BY <1>1, <1>2, <1>4, <1>6, WriterAssumption DEF WriterInv, Places
  <2> QED
    BY <2>1, <2>2, <2>3, <2>4, <2>5 DEF Places
<1>10. Order'
  <2>1. Ahead(arrived, ToSet(writer.ops), {o}) /\ Ahead(arrived, ToSet(db), {o})
    BY <1>1 DEF WriterInv, Order, Ahead
  <2>2. Sorted(arrived, writer'.ops)
    BY <1>0, <1>1, <1>3, <2>1, AppendSorted DEF WriterInv, Order
  <2>3. Ahead(arrived, ToSet(db), ToSet(writer'.ops))
    BY <1>4, <2>1 DEF WriterInv, Order, Ahead
  <2>4. From(writer'.ops, writer'.n) \subseteq From(writer.ops, writer.n) \cup {o}
    <3>1. /\ Len(writer'.ops) = Len(writer.ops) + 1 /\ writer'.ops[Len(writer.ops) + 1] = o
          /\ \A i \in 1..Len(writer.ops) : writer'.ops[i] = writer.ops[i]
      BY <1>0, <1>1, <1>3, AppendFacts
    <3>2. \A i \in 1..(Len(writer.ops) + 1) : i \in 1..Len(writer.ops) \/ i = Len(writer.ops) + 1
      BY <1>0
    <3> QED
      BY <3>1, <3>2 DEF From
  <2>5. Ahead(arrived, ToSet(txn), From(writer'.ops, writer'.n))
    BY <1>0, <2>1, <2>4 DEF WriterInv, Order, Ahead
  <2>6. \A l \in Lanes : /\ Sorted(arrived, q[l])
                         /\ Ahead(arrived, ToSet(db), ToSet(q[l]))
                         /\ Ahead(arrived, ToSet(writer'.ops), ToSet(q[l]))
    BY <1>1, <1>4 DEF WriterInv, Order, Ahead
  <2> QED
    BY <1>2, <1>7, <2>2, <2>3, <2>5, <2>6 DEF WriterInv, Order
<1> QED
  BY <1>5, <1>8, <1>9, <1>10

\* A batch begins with the op taken.
LEMMA TakeKeeps ==
  ASSUME WriterInv, Take
  PROVE  WriterInv' /\ Frozen
<1>1. writer \in Batch /\ writer.pc = "take" /\ HasNext /\ Taken
  BY DEF Take, WriterInv, Types
<1>2. writer.ops = <<>> /\ txn = <<>> /\ writer.n = 1
  BY <1>1 DEF WriterInv, Attempt
<1>3. NextOp \in Ops
  BY <1>1, TakenFacts DEF WriterInv
<1>4. writer' = [pc |-> "begin", ops |-> <<NextOp>>, n |-> 1, tries |-> 0, failed |-> {}]
  BY DEF Take, Waiting, Off
<1>5. <<NextOp>> = Append(writer.ops, NextOp) /\ <<NextOp>> \in Seq(Ops) /\ Len(<<NextOp>>) = 1
  BY <1>2, <1>3
<1>6. writer' \in Batch
  BY <1>4, <1>5, WriterAssumption DEF Batch
<1>7. writer'.ops = Append(writer.ops, NextOp) /\ writer'.n = writer.n
      /\ UNCHANGED <<state, late, txn, db, callVars, left>>
  <2>1. UNCHANGED <<state, late, txn, db, callVars, left>>
    BY DEF Take, writerFrame
  <2>2. writer'.ops = <<NextOp>> /\ writer'.n = 1
    BY <1>4
  <2> QED
    BY <1>2, <1>5, <2>1, <2>2
<1>8. Types' /\ Callers' /\ Refusals' /\ Durable' /\ Places' /\ Order' /\ Frozen
  BY <1>1, <1>6, <1>7, GrowKeeps
<1>9. Attempt'
  <2>1. BatchMax \in Nat \ {0}
    BY WriterAssumption
  <2>2. ToSet(txn) = {}
    BY <1>2, EmptyFacts
  <2>3. state' = state /\ txn' = txn /\ ~(state \in {"idle", "stopped"})
    BY <1>1, <1>7 DEF WriterInv, Attempt
  <2> QED
    BY <1>2, <1>4, <1>5, <2>1, <2>2, <2>3 DEF Attempt
<1> QED
  BY <1>8, <1>9 DEF WriterInv

\* An op joins the batch that is open.
LEMMA PullKeeps ==
  ASSUME WriterInv, Pull
  PROVE  WriterInv' /\ Frozen
<1>1. /\ writer \in Batch /\ writer.pc = "run" /\ HasNext /\ Taken /\ writer.n > Len(writer.ops)
      /\ Len(writer.ops) < BatchMax /\ BatchMax \in Nat
  BY WriterAssumption DEF Pull, WriterInv, Types
<1>2. NextOp \in Ops /\ writer.ops \in Seq(Ops) /\ Len(writer.ops) \in Nat /\ writer.n \in Nat \ {0}
  BY <1>1, TakenFacts, InvFacts DEF WriterInv
<1>3. writer' = [writer EXCEPT !.ops = Append(writer.ops, NextOp)]
  BY DEF Pull
<1>4. /\ writer'.ops = Append(writer.ops, NextOp) /\ writer'.n = writer.n /\ writer'.pc = writer.pc
      /\ writer'.failed = writer.failed
  BY <1>1, <1>3 DEF Batch
<1>5. /\ Append(writer.ops, NextOp) \in Seq(Ops)
      /\ Len(Append(writer.ops, NextOp)) = Len(writer.ops) + 1
      /\ \A i \in 1..Len(writer.ops) : Append(writer.ops, NextOp)[i] = writer.ops[i]
      /\ ToSet(writer.ops) \subseteq ToSet(Append(writer.ops, NextOp))
  BY <1>2, AppendFacts
<1>6. writer' \in Batch
  BY <1>1, <1>3, <1>5 DEF Batch
<1>7. UNCHANGED <<state, late, txn, db, callVars, left>>
  BY DEF Pull, writerFrame
<1>8. Types' /\ Callers' /\ Refusals' /\ Durable' /\ Places' /\ Order' /\ Frozen
  BY <1>1, <1>4, <1>6, <1>7, GrowKeeps
<1>9. Attempt'
  <2>1. Len(writer'.ops) <= BatchMax /\ writer'.n <= Len(writer'.ops) + 1
    BY <1>1, <1>2, <1>4, <1>5 DEF WriterInv, Attempt
  <2>2. \A i \in 1..Len(writer'.ops) : i < writer'.n => i \in 1..Len(writer.ops)
    BY <1>1, <1>2, <1>4, <1>5 DEF WriterInv, Attempt
  <2>3. state' = state /\ txn' = txn /\ ~(state \in {"idle", "stopped"})
    BY <1>1, <1>7 DEF WriterInv, Attempt
  <2>4. \A i \in 1..Len(writer'.ops) : i < writer'.n => writer'.ops[i] \in writer'.failed \cup ToSet(txn')
    BY <1>4, <1>5, <1>7, <2>2 DEF WriterInv, Attempt
  <2>5. ToSet(txn') \subseteq ToSet(writer'.ops)
    BY <1>4, <1>5, <1>7 DEF WriterInv, Attempt
  <2> QED
    BY <1>1, <1>4, <2>1, <2>3, <2>4, <2>5 DEF Attempt
<1> QED
  BY <1>8, <1>9 DEF WriterInv

\* What a fault costs.
LEMMA SpendFacts ==
  ASSUME WriterInv, NEW what \in Spendings, Spend(what)
  PROVE  /\ left' \in [Spendings -> Nat] /\ left'.lost <= left.lost
         /\ what # "lost" => left'.lost = left.lost
         /\ what = "lost" => left'.lost # Budget.lost
<1>1. left \in [Spendings -> Nat] /\ left.lost \in Nat /\ left.lost <= Budget.lost /\ Budget.lost \in Nat
  BY WriterAssumption DEF WriterInv, Types, Durable, Spendings
<1>2. left[what] \in Nat /\ left[what] > 0 /\ left' = [left EXCEPT ![what] = left[what] - 1]
  BY <1>1 DEF Spend
<1>3. left' \in [Spendings -> Nat]
  BY <1>1, <1>2
<1>4. CASE what = "lost"
  <2>1. left'.lost = left.lost - 1
    BY <1>1, <1>2, <1>4
  <2> QED
    BY <1>1, <1>3, <1>4, <2>1
<1>5. CASE what # "lost"
  <2>1. left'.lost = left.lost
    BY <1>1, <1>2, <1>5 DEF Spendings
  <2> QED
    BY <1>1, <1>3, <1>5, <2>1
<1> QED
  BY <1>4, <1>5

\* The batch ends: committed, its ops settle by their outcome, or given up with all
\* of them failed.
LEMMA BatchEnds ==
  ASSUME WriterInv, NEW bad, fut' = Settled(writer.ops, bad), db' \in {db, db \o txn},
         \A o \in ToSet(writer.ops) : o \in bad \/ o \in ToSet(db'),
         writer' \in {Waiting, [Waiting EXCEPT !.pc = "dying"]}, txn' = <<>>,
         state \notin {"idle", "stopped"},
         left' \in [Spendings -> Nat], left'.lost = left.lost, UNCHANGED <<state, late, queue, callVars>>
  PROVE  WriterInv' /\ Frozen
<1>1. /\ writer.ops \in Seq(Ops) /\ txn \in Seq(Ops) /\ db \in Seq(Ops)
      /\ arrived \in Seq(Ops) /\ IsInjective(arrived) /\ IsInjective(db) /\ ToSet(db) \subseteq Ops
      /\ ToSet(txn) \subseteq ToSet(writer.ops) /\ ToSet(writer.ops) \subseteq ToSet(arrived)
      /\ ToSet(writer.ops) \subseteq Ops
      /\ \A o \in ToSet(writer.ops) : o \notin ToSet(db) /\ \A l \in Lanes : o \notin ToSet(queue[l])
      /\ \A l \in Lanes : ToSet(queue[l]) \subseteq Ops
  BY InvFacts DEF WriterInv, Types, Order
<1>2. /\ db' \in Seq(Ops) /\ ToSet(db') \subseteq ToSet(db) \cup ToSet(txn) /\ ToSet(db) \subseteq ToSet(db')
      /\ IsInjective(db') /\ Sorted(arrived, db')
  <2>1. CASE db' = db
    BY <1>1, <2>1 DEF WriterInv, Order
  <2>2. CASE db' = db \o txn
    <3>1. Ahead(arrived, ToSet(db), ToSet(txn)) /\ Sorted(arrived, db) /\ Sorted(arrived, txn)
      BY <1>1 DEF WriterInv, Order, Ahead
    <3>2. IsInjective(txn)
      BY <1>1, <3>1, Distinct
    <3>3. ToSet(db) \cap ToSet(txn) = {}
      BY <1>1
    <3>4. ToSet(db \o txn) = ToSet(db) \cup ToSet(txn) /\ Sorted(arrived, db \o txn)
          /\ IsInjective(db \o txn) /\ db \o txn \in Seq(Ops)
      BY <1>1, <3>1, <3>2, <3>3, ConcatFacts
    <3> QED
      BY <2>2, <3>4
  <2> QED
    BY <2>1, <2>2
<1>3. \A o \in Ops : fut'[o] = IF o \notin ToSet(writer.ops) THEN fut[o] ELSE IF o \in bad THEN "error" ELSE "ok"
  BY DEF Settled
<1>4. fut' \in [Ops -> Futures]
  BY DEF Settled, WriterInv, Types, Futures
<1>5. /\ writer' \in Batch /\ writer'.ops = <<>> /\ writer'.n = 1 /\ writer'.pc \in {"take", "dying"}
      /\ writer'.failed = {}
  <2>1. writer' \in {[pc |-> "take", ops |-> <<>>, n |-> 1, tries |-> 0, failed |-> {}],
                     [pc |-> "dying", ops |-> <<>>, n |-> 1, tries |-> 0, failed |-> {}]}
    BY DEF Waiting, Off
  <2>2. <<>> \in Seq(Ops) /\ 0 \in 0..Retries /\ {} \in SUBSET Ops /\ 1 \in Nat \ {0}
    BY WriterAssumption
  <2>3. CASE writer' = [pc |-> "take", ops |-> <<>>, n |-> 1, tries |-> 0, failed |-> {}]
    BY <2>2, <2>3 DEF Batch
  <2>4. CASE writer' = [pc |-> "dying", ops |-> <<>>, n |-> 1, tries |-> 0, failed |-> {}]
    BY <2>2, <2>4 DEF Batch
  <2> QED
    BY <2>1, <2>3, <2>4
<1>6. /\ state' = state /\ late' = late /\ queue' = queue /\ arrived' = arrived /\ call' = call /\ told' = told
  BY DEF callVars
<1>7. <<>> \in Seq(Ops) /\ ToSet(<<>>) = {} /\ Len(<<>>) = 0 /\ \A a : Sorted(a, <<>>)
  BY EmptyFacts
<1>8. Types'
  BY <1>2, <1>4, <1>5, <1>6, <1>7 DEF WriterInv, Types
<1>9. \A o \in ToSet(writer.ops) : fut[o] = "running"
  BY DEF WriterInv, Places
<1>10. Callers' /\ Refusals' /\ Durable' /\ Frozen
  <2>1. \A o \in Ops : /\ fut[o] = "none" <=> fut'[o] = "none"
                       /\ Dead(o) => fut'[o] = fut[o]
                       /\ fut'[o] \in {"closed", "cancelled"} => Dead(o)
    BY <1>3, <1>9 DEF Dead
  <2>2. \A o \in ToSet(db') : o \in ToSet(db) \/ fut[o] = "running"
    BY <1>1, <1>2, <1>9
  <2>3. \A o \in Ops : fut'[o] = "ok" => fut[o] = "ok" \/ o \in ToSet(db')
    BY <1>3
  <2>4. left'.lost <= left.lost
    BY DEF WriterInv, Types, Spendings
  <2> QED
    BY <1>2, <1>6, <1>8, <2>1, <2>2, <2>3, <2>4, CallersStay
<1>11. Places'
  <2>1. \A o \in Ops : o \in ToSet(arrived) <=> fut'[o] # "none"
    <3>1. \A o \in Ops : o \in ToSet(arrived) <=> fut[o] # "none"
      BY DEF WriterInv, Places
    <3>2. \A o \in Ops : fut[o] = "none" <=> fut'[o] = "none"
      BY <1>3, <1>9
    <3> QED
      BY <3>1, <3>2
  <2>2. \A l \in Lanes : \A o \in ToSet(queue[l]) : Lane[o] = l /\ fut'[o] \in {"pending", "running", "cancelled"}
    BY <1>1, <1>3 DEF WriterInv, Places
  <2>3. \A o \in Ops : fut'[o] \in {"pending", "running"} => fut[o] = fut'[o] /\ o \notin ToSet(writer.ops)
    BY <1>3
  <2> QED
    BY <1>5, <1>6, <1>7, <2>1, <2>2, <2>3 DEF WriterInv, Places
<1>12. Order'
  <2>1. \A l \in Lanes : Ahead(arrived, ToSet(db'), ToSet(queue[l]))
    BY <1>1, <1>2 DEF WriterInv, Order, Ahead
  <2>2. Ahead(arrived, ToSet(db'), {}) /\ \A S : Ahead(arrived, {}, S)
    BY DEF Ahead
  <2> QED
    BY <1>1, <1>2, <1>5, <1>6, <1>7, <2>1, <2>2 DEF WriterInv, Order
<1>13. Attempt'
  BY <1>5, <1>6, <1>7, WriterAssumption DEF WriterInv, Attempt
<1> QED
  BY <1>8, <1>10, <1>11, <1>12, <1>13 DEF WriterInv

\* The batch commits: what succeeded is in the database.
LEMMA CommitKeeps ==
  ASSUME WriterInv, Commit
  PROVE  WriterInv' /\ Frozen
<1>1. /\ fut' = Settled(writer.ops, writer.failed) /\ db' = db \o txn /\ writer' = Waiting /\ txn' = <<>>
      /\ left' = left /\ UNCHANGED <<state, late, queue, callVars>> /\ writer.pc = "run"
  BY DEF Commit, writerFrame
<1>2. state \notin {"idle", "stopped"} /\ left' \in [Spendings -> Nat] /\ left'.lost = left.lost
  BY <1>1 DEF WriterInv, Types, Attempt
<1>3. ASSUME NEW o \in ToSet(writer.ops) PROVE o \in writer.failed \/ o \in ToSet(db')
  <2>1. writer.ops \in Seq(Ops) /\ Len(writer.ops) \in Nat /\ writer.n \in Nat
    BY InvFacts
  <2>2. PICK i \in 1..Len(writer.ops) : o = writer.ops[i]
    BY <2>1, Elements
  <2>3. i < writer.n
    BY <2>1 DEF Commit
  <2>4. o \in writer.failed \cup ToSet(txn)
    BY <2>2, <2>3 DEF WriterInv, Attempt
  <2>5. ToSet(db') = ToSet(db) \cup ToSet(txn)
    BY <1>1, ConcatFacts DEF WriterInv, Types
  <2> QED
    BY <2>4, <2>5
<1> QED
  BY <1>1, <1>2, <1>3, BatchEnds

\* The thread ends inside an op: its batch fails.
LEMMA CrashKeeps ==
  ASSUME WriterInv, OpCrashesThread
  PROVE  WriterInv' /\ Frozen
<1>1. /\ fut' = Settled(writer.ops, ToSet(writer.ops)) /\ db' = db
      /\ writer' = [Waiting EXCEPT !.pc = "dying"] /\ txn' = <<>>
      /\ Spend("crash") /\ UNCHANGED <<state, late, queue, callVars>> /\ writer.pc = "run"
  BY DEF OpCrashesThread, writerFrame, InBatch, RolledBack, BatchFailed
<1>2. state \notin {"idle", "stopped"}
  BY <1>1 DEF WriterInv, Types, Attempt
<1>3. left' \in [Spendings -> Nat] /\ left'.lost = left.lost
  BY <1>1, SpendFacts DEF Spendings
<1>4. \A o \in ToSet(writer.ops) : o \in ToSet(writer.ops) \/ o \in ToSet(db')
  OBVIOUS
<1> QED
  BY <1>1, <1>2, <1>3, <1>4, BatchEnds

\* A step inside the batch.
LEMMA BatchGoesOn ==
  ASSUME WriterInv, Attempt', writer' \in Batch, writer'.ops = writer.ops, txn' \in Seq(Ops),
         Sorted(arrived, txn'), Ahead(arrived, ToSet(txn'), From(writer.ops, writer'.n)),
         left' \in [Spendings -> Nat], left'.lost = left.lost,
         UNCHANGED <<state, late, queue, fut, db, callVars>>
  PROVE  WriterInv' /\ Frozen
<1>1. Types'
  BY DEF WriterInv, Types, callVars
<1>2. Callers' /\ Refusals' /\ Durable' /\ Frozen
  BY DEF WriterInv, Callers, Refusals, Durable, Frozen, Fresh, Refused, Dead, callVars
<1>3. Places'
  BY DEF WriterInv, Places, callVars
<1>4. Order'
  BY DEF WriterInv, Order, callVars
<1> QED
  BY <1>1, <1>2, <1>3, <1>4 DEF WriterInv

\* The transaction begins.
LEMMA BeginKeeps ==
  ASSUME WriterInv, Begin
  PROVE  WriterInv' /\ Frozen
<1>1. /\ writer \in Batch /\ writer.pc = "begin" /\ writer' = [writer EXCEPT !.pc = "run"] /\ txn' = txn
      /\ left' = left /\ UNCHANGED <<state, late, queue, fut, db, callVars>>
  BY DEF Begin, writerFrame, WriterInv, Types
<1>2. /\ writer' \in Batch /\ writer'.ops = writer.ops /\ writer'.n = writer.n
      /\ writer'.failed = writer.failed /\ writer'.pc = "run"
  BY <1>1 DEF Batch
<1>3. Attempt'
  BY <1>1, <1>2 DEF WriterInv, Attempt
<1> QED
  BY <1>1, <1>2, <1>3, BatchGoesOn DEF WriterInv, Types, Order

\* The next op of the batch is applied.
LEMMA OpAppliesKeeps ==
  ASSUME WriterInv, OpApplies
  PROVE  WriterInv' /\ Frozen
<1>1. /\ writer \in Batch /\ writer.pc = "run" /\ writer.n <= Len(writer.ops)
      /\ writer' = [writer EXCEPT !.n = writer.n + 1] /\ txn' = Append(txn, Op)
      /\ left' = left /\ UNCHANGED <<state, late, queue, fut, db, callVars>>
  BY DEF OpApplies, InBatch, writerFrame, WriterInv, Types
<1>2. writer.ops \in Seq(Ops) /\ Len(writer.ops) \in Nat /\ writer.n \in Nat \ {0} /\ txn \in Seq(Ops)
  BY InvFacts DEF WriterInv, Types
<1>3. /\ writer' \in Batch /\ writer'.ops = writer.ops /\ writer'.n = writer.n + 1
      /\ writer'.failed = writer.failed /\ writer'.pc = "run"
  <2>1. writer.n + 1 \in Nat \ {0}
    BY <1>2
  <2>2. /\ writer'.ops = writer.ops /\ writer'.n = writer.n + 1
        /\ writer'.failed = writer.failed /\ writer'.pc = "run"
    BY <1>1 DEF Batch
  <2>3. writer' \in Batch
    BY <1>1, <2>1 DEF Batch
  <2> QED
    BY <2>2, <2>3
<1>4. writer.n \in 1..Len(writer.ops) /\ Op = writer.ops[writer.n] /\ Op \in ToSet(writer.ops) /\ Op \in Ops
  <2>1. writer.n \in 1..Len(writer.ops) /\ Op = writer.ops[writer.n]
    BY <1>1, <1>2 DEF Op
  <2> QED
    BY <1>2, <2>1, Elements
<1>5. txn' \in Seq(Ops) /\ ToSet(txn') = ToSet(txn) \cup {Op}
  BY <1>1, <1>2, <1>4, AppendFacts
<1>6. Attempt'
  <2>1. \A i \in 1..Len(writer.ops) : i < writer.n + 1 => i < writer.n \/ i = writer.n
    BY <1>2
  <2>2. \A i \in 1..Len(writer.ops) : i < writer.n + 1 => writer.ops[i] \in writer.failed \cup ToSet(txn')
    BY <1>4, <1>5, <2>1 DEF WriterInv, Attempt
  <2>3. ToSet(txn') \subseteq ToSet(writer.ops) /\ writer.n + 1 <= Len(writer.ops) + 1
    BY <1>1, <1>2, <1>4, <1>5 DEF WriterInv, Attempt
  <2> QED
    BY <1>1, <1>3, <2>2, <2>3 DEF WriterInv, Attempt
<1>7. Op \in From(writer.ops, writer.n) /\ From(writer.ops, writer.n + 1) \subseteq From(writer.ops, writer.n)
  BY <1>2, <1>4 DEF From
<1>8. Ahead(arrived, ToSet(txn), From(writer.ops, writer.n)) /\ Sorted(arrived, txn) /\ Sorted(arrived, writer.ops)
  BY DEF WriterInv, Order
<1>9. Sorted(arrived, txn')
  <2>1. Ahead(arrived, ToSet(txn), {Op})
    BY <1>7, <1>8 DEF Ahead
  <2> QED
    BY <1>1, <1>2, <1>4, <1>8, <2>1, AppendSorted
<1>10. Ahead(arrived, ToSet(txn'), From(writer.ops, writer'.n))
  <2>1. \A i \in 1..Len(writer.ops) : i >= writer.n + 1 => writer.n < i
    BY <1>2
  <2>2. \A p \in From(writer.ops, writer.n + 1) : Earlier(arrived, Op, p)
    BY <1>4, <1>8, <2>1 DEF From, Sorted
  <2> QED
    BY <1>3, <1>5, <1>7, <1>8, <2>2 DEF Ahead
<1> QED
  BY <1>1, <1>3, <1>5, <1>6, <1>9, <1>10, BatchGoesOn DEF WriterInv, Types

\* The next op of the batch fails, and only it.
LEMMA OpFailsKeeps ==
  ASSUME WriterInv, OpFails
  PROVE  WriterInv' /\ Frozen
<1>1. /\ writer \in Batch /\ writer.pc = "run" /\ writer.n <= Len(writer.ops)
      /\ writer' = [writer EXCEPT !.n = writer.n + 1, !.failed = writer.failed \cup {Op}] /\ txn' = txn
      /\ Spend("fault") /\ UNCHANGED <<state, late, queue, fut, db, callVars>>
  BY DEF OpFails, InBatch, writerFrame, WriterInv, Types
<1>2. writer.ops \in Seq(Ops) /\ Len(writer.ops) \in Nat /\ writer.n \in Nat \ {0} /\ txn \in Seq(Ops)
  BY InvFacts DEF WriterInv, Types
<1>3. writer.n \in 1..Len(writer.ops) /\ Op = writer.ops[writer.n] /\ Op \in Ops
  <2>1. writer.n \in 1..Len(writer.ops) /\ Op = writer.ops[writer.n]
    BY <1>1, <1>2 DEF Op
  <2> QED
    BY <1>2, <2>1, Elements
<1>4. /\ writer' \in Batch /\ writer'.ops = writer.ops /\ writer'.n = writer.n + 1
      /\ writer'.failed = writer.failed \cup {Op} /\ writer'.pc = "run"
  <2>1. writer.n + 1 \in Nat \ {0}
    BY <1>2
  <2>2. writer.failed \cup {Op} \in SUBSET Ops
    BY <1>1, <1>3 DEF Batch
  <2>3. /\ writer'.ops = writer.ops /\ writer'.n = writer.n + 1
        /\ writer'.failed = writer.failed \cup {Op} /\ writer'.pc = "run"
    BY <1>1 DEF Batch
  <2> HIDE DEF Op
  <2>4. writer' \in Batch
    BY <1>1, <2>1, <2>2 DEF Batch
  <2> QED
    BY <2>3, <2>4
<1>5. Attempt'
  <2>1. \A i \in 1..Len(writer.ops) : i < writer.n + 1 => i < writer.n \/ i = writer.n
    BY <1>2
  <2>2. \A i \in 1..Len(writer.ops) : i < writer.n + 1 => writer.ops[i] \in writer'.failed \cup ToSet(txn)
    BY <1>3, <1>4, <2>1 DEF WriterInv, Attempt
  <2>3. writer.n + 1 <= Len(writer.ops) + 1
    BY <1>1, <1>2
  <2> QED
    BY <1>1, <1>4, <2>2, <2>3 DEF WriterInv, Attempt
<1>6. From(writer.ops, writer'.n) \subseteq From(writer.ops, writer.n)
  BY <1>2, <1>4 DEF From
<1>7. Sorted(arrived, txn') /\ Ahead(arrived, ToSet(txn'), From(writer.ops, writer'.n))
  BY <1>1, <1>6 DEF WriterInv, Order, Ahead
<1>8. left' \in [Spendings -> Nat] /\ left'.lost = left.lost
  BY <1>1, SpendFacts DEF Spendings
<1> QED
  BY <1>1, <1>2, <1>4, <1>5, <1>7, <1>8, BatchGoesOn

\* The attempt fails: it is tried again from the first op, or given up.
LEMMA AttemptFailsKeeps ==
  ASSUME WriterInv, AttemptFails
  PROVE  WriterInv' /\ Frozen
<1>1. /\ writer \in Batch /\ writer.pc \in {"begin", "run"} /\ txn' = <<>> /\ Spend("fault")
      /\ UNCHANGED <<state, late, queue, db, callVars>>
  BY DEF AttemptFails, writerFrame, RolledBack, WriterInv, Types
<1>2. state \notin {"idle", "stopped"} /\ left' \in [Spendings -> Nat] /\ left'.lost = left.lost
  BY <1>1, SpendFacts DEF WriterInv, Attempt, Spendings
<1>3. CASE writer' = Waiting /\ fut' = BatchFailed
  BY <1>1, <1>2, <1>3, BatchEnds DEF BatchFailed
<1>4. CASE /\ writer.tries < Retries /\ fut' = fut
           /\ writer' = [writer EXCEPT !.pc = "begin", !.n = 1, !.tries = writer.tries + 1, !.failed = {}]
  <2>1. writer.tries + 1 \in 0..Retries
    BY <1>1, <1>4, WriterAssumption DEF Batch
  <2>2. /\ writer' \in Batch /\ writer'.ops = writer.ops /\ writer'.n = 1
        /\ writer'.failed = {} /\ writer'.pc = "begin"
    <3>1. 1 \in Nat \ {0} /\ {} \in SUBSET Ops
      OBVIOUS
    <3>2. /\ writer'.ops = writer.ops /\ writer'.n = 1
          /\ writer'.failed = {} /\ writer'.pc = "begin"
      BY <1>1, <1>4 DEF Batch
    <3>3. writer' \in Batch
      BY <1>1, <1>4, <2>1, <3>1 DEF Batch
    <3> QED
      BY <3>2, <3>3
  <2>3. <<>> \in Seq(Ops) /\ ToSet(<<>>) = {} /\ Sorted(arrived, <<>>)
    BY EmptyFacts
  <2>4. Len(writer.ops) \in Nat
    BY InvFacts
  <2>5. Attempt'
    BY <1>1, <1>2, <2>2, <2>3, <2>4 DEF WriterInv, Attempt
  <2>6. Ahead(arrived, ToSet(txn'), From(writer.ops, writer'.n))
    BY <1>1, <2>3 DEF Ahead
  <2> QED
    BY <1>1, <1>2, <1>4, <2>2, <2>3, <2>5, <2>6, BatchGoesOn
<1> QED
  BY <1>3, <1>4 DEF AttemptFails

\* The transaction ends inside an op: the ops behind it go back to the queue.
LEMMA OpEndsTransactionKeeps ==
  ASSUME WriterInv, OpEndsTransaction
  PROVE  WriterInv' /\ Frozen
<1> PICK rest : rest = SubSeq(writer.ops, writer.n + 1, Len(writer.ops))
  OBVIOUS
<1> PICK run : run = SubSeq(writer.ops, 1, writer.n)
  OBVIOUS
<1> PICK bad : bad = writer.failed \cup {Op}
  OBVIOUS
<1>1. /\ writer.pc = "run" /\ writer.n <= Len(writer.ops) /\ txn' = <<>> /\ Spend("lost")
      /\ queue' = Requeued(rest) /\ fut' = Settled(run, bad) /\ writer' = Waiting
      /\ UNCHANGED <<state, late, db, callVars>>
  BY DEF OpEndsTransaction, InBatch, writerFrame
<1>2. /\ writer.ops \in Seq(Ops) /\ Len(writer.ops) \in Nat /\ writer.n \in Nat \ {0}
      /\ arrived \in Seq(Ops) /\ IsInjective(arrived) /\ ToSet(db) \subseteq Ops
      /\ ToSet(writer.ops) \subseteq ToSet(arrived) /\ ToSet(writer.ops) \subseteq Ops
      /\ \A o \in ToSet(writer.ops) : o \notin ToSet(db) /\ \A l \in Lanes : o \notin ToSet(queue[l])
      /\ \A l \in Lanes : ToSet(queue[l]) \subseteq Ops
  BY InvFacts DEF WriterInv, Types, Order
<1>3. \A o \in ToSet(writer.ops) : fut[o] = "running"
  BY DEF WriterInv, Places
<1>4. /\ rest \in Seq(Ops) /\ run \in Seq(Ops) /\ Sorted(arrived, rest)
      /\ ToSet(rest) = {writer.ops[i] : i \in (writer.n + 1)..Len(writer.ops)}
      /\ ToSet(run) = {writer.ops[i] : i \in 1..writer.n}
  <2>1. writer.n + 1 \in Nat \ {0} /\ 1 \in Nat \ {0} /\ writer.n \in Nat /\ Len(writer.ops) <= Len(writer.ops)
    BY <1>2
  <2>2. rest \in Seq(Ops) /\ Sorted(arrived, rest) /\ ToSet(rest) = {writer.ops[i] : i \in (writer.n + 1)..Len(writer.ops)}
    BY <1>2, <2>1, PartFacts DEF WriterInv, Order
  <2>3. run \in Seq(Ops) /\ ToSet(run) = {writer.ops[i] : i \in 1..writer.n}
    BY <1>1, <1>2, <2>1, PartFacts
  <2> QED
    BY <2>2, <2>3
<1>5. ToSet(rest) \subseteq ToSet(writer.ops) /\ ToSet(run) \subseteq ToSet(writer.ops)
  <2>1. \A i \in 1..Len(writer.ops) : writer.ops[i] \in ToSet(writer.ops)
    BY <1>2, Elements
  <2>2. /\ \A i \in (writer.n + 1)..Len(writer.ops) : i \in 1..Len(writer.ops)
        /\ \A i \in 1..writer.n : i \in 1..Len(writer.ops)
    BY <1>1, <1>2
  <2> QED
    BY <1>4, <2>1, <2>2
<1>6. \A o \in ToSet(writer.ops) : o \in ToSet(rest) <=> o \notin ToSet(run)
  <2>1. IsInjective(writer.ops)
    BY <1>2, Distinct DEF WriterInv, Order
  <2> SUFFICES ASSUME NEW o \in ToSet(writer.ops) PROVE o \in ToSet(rest) <=> o \notin ToSet(run)
    OBVIOUS
  <2>2. PICK i \in 1..Len(writer.ops) : o = writer.ops[i]
    BY <1>2, Elements
  <2>3. i \in (writer.n + 1)..Len(writer.ops) \/ i \in 1..writer.n
    BY <1>2
  <2>4. ASSUME NEW j \in (writer.n + 1)..Len(writer.ops), NEW k \in 1..writer.n PROVE writer.ops[j] # writer.ops[k]
    <3>1. j \in DOMAIN writer.ops /\ k \in DOMAIN writer.ops /\ j # k
      BY <1>1, <1>2
    <3> QED
      BY <2>1, <3>1 DEF IsInjective
  <2> QED
    BY <1>4, <2>2, <2>3, <2>4
<1>7. ASSUME NEW l \in Lanes
      PROVE  /\ queue' \in [Lanes -> Seq(Ops)]
             /\ ToSet(queue'[l]) = ToSet(queue[l]) \cup Of(rest, l)
             /\ Sorted(arrived, queue'[l])
  <2>1. Ahead(arrived, ToSet(rest), ToSet(queue[l])) /\ Sorted(arrived, queue[l])
    BY <1>5 DEF WriterInv, Order, Ahead
  <2>2. Types
    BY DEF WriterInv
  <2>3. /\ Requeued(rest) \in [Lanes -> Seq(Ops)]
        /\ ToSet(Requeued(rest)[l]) = ToSet(queue[l]) \cup Of(rest, l)
        /\ Sorted(arrived, Requeued(rest)[l])
    BY <1>4, <2>1, <2>2, RequeuedFacts
  <2> QED
    BY <1>1, <2>3
<1>8. \A o \in Ops : fut'[o] = IF o \notin ToSet(run) THEN fut[o] ELSE IF o \in bad THEN "error" ELSE "ok"
  BY <1>1 DEF Settled
<1>9. fut' \in [Ops -> Futures]
  BY <1>1 DEF Settled, WriterInv, Types, Futures
<1>10. writer' = [pc |-> "take", ops |-> <<>>, n |-> 1, tries |-> 0, failed |-> {}]
  BY <1>1 DEF Waiting, Off
<1>11. writer' \in Batch /\ writer'.ops = <<>> /\ writer'.n = 1 /\ writer'.pc = "take" /\ writer'.failed = {}
  <2>1. <<>> \in Seq(Ops) /\ 0 \in 0..Retries /\ {} \in SUBSET Ops /\ 1 \in Nat \ {0}
    BY WriterAssumption
  <2> QED
    BY <1>10, <2>1 DEF Batch
<1>12. /\ state' = state /\ late' = late /\ db' = db /\ arrived' = arrived /\ call' = call /\ told' = told
       /\ left' \in [Spendings -> Nat] /\ left'.lost <= left.lost /\ left'.lost # Budget.lost
  BY <1>1, SpendFacts DEF callVars, Spendings
<1>13. <<>> \in Seq(Ops) /\ ToSet(<<>>) = {} /\ Len(<<>>) = 0 /\ \A a : Sorted(a, <<>>)
  BY EmptyFacts
<1>14. queue' \in [Lanes -> Seq(Ops)]
  BY <1>7 DEF Lanes
<1>15. Types'
  BY <1>1, <1>9, <1>11, <1>12, <1>13, <1>14 DEF WriterInv, Types
<1>16. \A o \in Ops : /\ fut[o] = "none" <=> fut'[o] = "none"
                      /\ Dead(o) => fut'[o] = fut[o]
                      /\ fut'[o] \in {"closed", "cancelled"} => Dead(o)
  BY <1>3, <1>5, <1>8 DEF Dead
<1>17. Callers' /\ Refusals' /\ Durable' /\ Frozen
  BY <1>12, <1>15, <1>16, CallersStay
<1>18. Places'
  <2>1. \A o \in Ops : o \in ToSet(arrived) <=> fut'[o] # "none"
    BY <1>16 DEF WriterInv, Places
  <2>2. \A l \in Lanes : \A o \in ToSet(queue'[l]) : Lane[o] = l /\ fut'[o] \in {"pending", "running", "cancelled"}
    <3> SUFFICES ASSUME NEW l \in Lanes, NEW o \in ToSet(queue'[l])
                 PROVE  Lane[o] = l /\ fut'[o] \in {"pending", "running", "cancelled"}
      OBVIOUS
    <3>1. CASE o \in ToSet(queue[l])
      <4>1. o \in Ops /\ o \notin ToSet(run)
        BY <1>2, <1>5, <3>1
      <4> QED
        BY <1>8, <3>1, <4>1 DEF WriterInv, Places
    <3>2. CASE o \in ToSet(rest) /\ Lane[o] = l
      <4>1. o \in Ops /\ o \notin ToSet(run) /\ fut[o] = "running"
        BY <1>2, <1>3, <1>5, <1>6, <3>2
      <4> QED
        BY <1>8, <3>2, <4>1
    <3> QED
      BY <1>7, <3>1, <3>2 DEF Of
  <2>3. \A o \in Ops : fut'[o] \in {"pending", "running"} => fut[o] = fut'[o] /\ o \notin ToSet(run)
    BY <1>8
  <2>4. \A o \in Ops : fut'[o] \in {"pending", "running"} => o \in ToSet(queue'[Lane[o]])
    <3> SUFFICES ASSUME NEW o \in Ops, fut'[o] \in {"pending", "running"} PROVE o \in ToSet(queue'[Lane[o]])
      OBVIOUS
    <3>1. o \in ToSet(writer.ops) \cup ToSet(queue[Lane[o]]) /\ o \notin ToSet(run)
      BY <2>3 DEF WriterInv, Places
    <3>2. o \in ToSet(rest) \/ o \in ToSet(queue[Lane[o]])
      BY <1>6, <3>1
    <3>3. Lane[o] \in Lanes
      BY WriterAssumption
    <3> QED
      BY <1>7, <3>2, <3>3 DEF Of
  <2> QED
    BY <1>11, <1>12, <1>13, <2>1, <2>2, <2>4 DEF Places
<1>19. Order'
  <2>1. \A l \in Lanes : Ahead(arrived, ToSet(db), ToSet(queue'[l])) /\ Sorted(arrived, queue'[l])
    BY <1>5, <1>7 DEF WriterInv, Order, Ahead, Of
  <2>2. Ahead(arrived, ToSet(db), {}) /\ \A S : Ahead(arrived, {}, S)
    BY DEF Ahead
  <2> QED
    BY <1>1, <1>11, <1>12, <1>13, <2>1, <2>2 DEF WriterInv, Order
<1>20. Attempt'
  <2>1. state \notin {"idle", "stopped"}
    BY <1>1 DEF WriterInv, Attempt
  <2> QED
    BY <1>1, <1>11, <1>12, <1>13, <2>1, WriterAssumption DEF Attempt
<1> QED
  BY <1>15, <1>17, <1>18, <1>19, <1>20 DEF WriterInv

\* The queue is dropped.
LEMMA DropKeeps ==
  ASSUME WriterInv, fut' = Dropped, queue' = [l \in Lanes |-> <<>>], Attempt',
         writer' \in Batch, writer'.ops = writer.ops, writer'.n = writer.n, state' \in {"stopping", "stopped"},
         UNCHANGED <<late, txn, db, left, callVars>>
  PROVE  WriterInv' /\ Frozen
<1>1. /\ ToSet(arrived) \subseteq Ops
      /\ ToSet(writer.ops) \subseteq ToSet(arrived)
      /\ \A o \in ToSet(writer.ops) : \A l \in Lanes : o \notin ToSet(queue[l])
      /\ \A l \in Lanes : \A o \in ToSet(queue[l]) : o \notin ToSet(db)
  BY InvFacts
<1>2. late' = late /\ txn' = txn /\ db' = db /\ left' = left /\ call' = call /\ told' = told /\ arrived' = arrived
  BY DEF callVars
<1>3. \A o \in Ops : \/ fut'[o] = fut[o] /\ (Live(o) => \A l \in Lanes : o \notin ToSet(queue[l]))
                     \/ fut'[o] = "closed" /\ Live(o) /\ \E l \in Lanes : o \in ToSet(queue[l])
  BY DEF Dropped
<1>4. fut' \in [Ops -> Futures]
  BY DEF Dropped, WriterInv, Types, Futures
<1>5. <<>> \in Seq(Ops) /\ ToSet(<<>>) = {} /\ \A a : Sorted(a, <<>>)
  BY EmptyFacts
<1>6. queue' \in [Lanes -> Seq(Ops)] /\ \A l \in Lanes : queue'[l] = <<>>
  BY <1>5
<1>7. Types'
  BY <1>2, <1>4, <1>6 DEF WriterInv, Types
<1>8. \A o \in Ops : /\ fut[o] = "none" <=> fut'[o] = "none"
                     /\ Dead(o) => fut'[o] = fut[o]
                     /\ fut'[o] \in {"closed", "cancelled"} => Dead(o) \/ o \notin ToSet(db')
                     /\ fut'[o] = "ok" => fut[o] = "ok"
  BY <1>1, <1>2, <1>3 DEF Dead, Live
<1>9. left'.lost <= left.lost
  BY <1>2 DEF WriterInv, Types, Spendings
<1>10. Callers' /\ Refusals' /\ Durable' /\ Frozen
  BY <1>2, <1>7, <1>8, <1>9, CallersStay
<1>11. Places'
  <2>1. \A o \in Ops : o \in ToSet(arrived) <=> fut'[o] # "none"
    BY <1>8 DEF WriterInv, Places
  <2>2. \A o \in ToSet(writer.ops) : fut'[o] = "running"
    BY <1>1, <1>3 DEF WriterInv, Places
  <2>3. \A o \in Ops : fut'[o] \in {"pending", "running"} =>
                         fut[o] = fut'[o] /\ \A l \in Lanes : o \notin ToSet(queue[l])
    BY <1>3 DEF Live
  <2>4. \A o \in Ops : fut'[o] # "pending" /\ (fut'[o] = "running" => o \in ToSet(writer.ops))
    BY <2>3, WriterAssumption DEF WriterInv, Places
  <2> QED
    BY <1>2, <1>5, <1>6, <2>1, <2>2, <2>4 DEF Places
<1>12. Order'
  <2>1. \A S : Ahead(arrived, S, {})
    BY DEF Ahead
  <2> QED
    BY <1>2, <1>5, <1>6, <2>1 DEF WriterInv, Order
<1> QED
  BY <1>7, <1>10, <1>11, <1>12 DEF WriterInv

\* The thread ends and drops what is queued.
LEMMA FinishKeeps ==
  ASSUME WriterInv, Finish
  PROVE  WriterInv' /\ Frozen
<1>1. /\ writer.pc \in {"take", "dying"} /\ fut' = Dropped /\ queue' = [l \in Lanes |-> <<>>]
      /\ state' = "stopped" /\ UNCHANGED <<late, txn, db, left, callVars>>
      /\ writer' = [pc |-> "off", ops |-> <<>>, n |-> 1, tries |-> 0, failed |-> {}]
  BY DEF Finish, writerFrame, Off
<1>2. writer.ops = <<>> /\ writer.n = 1 /\ txn = <<>>
  BY <1>1 DEF WriterInv, Attempt
<1>3. writer' \in Batch /\ writer'.ops = <<>> /\ writer'.n = 1 /\ writer'.pc = "off" /\ writer'.failed = {}
  <2>1. <<>> \in Seq(Ops) /\ 0 \in 0..Retries /\ {} \in SUBSET Ops /\ 1 \in Nat \ {0}
    BY WriterAssumption
  <2> QED
    BY <1>1, <2>1 DEF Batch
<1>4. Attempt'
  <2>1. Len(<<>>) = 0 /\ ToSet(<<>>) = {}
    BY EmptyFacts
  <2> QED
    BY <1>1, <1>2, <1>3, <2>1, WriterAssumption DEF Attempt
<1> QED
  BY <1>1, <1>2, <1>3, <1>4, DropKeeps

\* stop drops what is queued.
LEMMA StopGivesUpKeeps ==
  ASSUME WriterInv, StopGivesUp
  PROVE  WriterInv' /\ Frozen
<1>1. /\ fut' = Dropped /\ queue' = [l \in Lanes |-> <<>>] /\ state = "stopping"
      /\ UNCHANGED <<state, late, writer, txn, db, left, callVars>>
  BY DEF StopGivesUp
<1>2. Attempt' /\ writer' \in Batch
  BY <1>1 DEF WriterInv, Attempt, Types
<1> QED
  BY <1>1, <1>2, DropKeeps

\* Start, stop, and its deadline.
LEMMA LifecycleKeeps ==
  ASSUME WriterInv, Start \/ Stop \/ DeadlinePasses
  PROVE  WriterInv' /\ Frozen
<1>1. /\ UNCHANGED <<queue, fut, txn, db, callVars>> /\ state' \in {"running", "stopping"} /\ late' \in BOOLEAN
      /\ left' \in [Spendings -> Nat] /\ left'.lost = left.lost
  BY SpendFacts DEF Start, Stop, DeadlinePasses, Spendings, WriterInv, Types
<1>2. CASE Start
  <2>1. writer' = [pc |-> "take", ops |-> <<>>, n |-> 1, tries |-> 0, failed |-> {}] /\ state' = "running"
    BY <1>2 DEF Start, Waiting, Off
  <2>2. writer.ops = <<>> /\ writer.n = 1 /\ txn = <<>>
    BY <1>2 DEF Start, WriterInv, Attempt
  <2>3. <<>> \in Seq(Ops) /\ 0 \in 0..Retries /\ {} \in SUBSET Ops /\ 1 \in Nat \ {0} /\ Len(<<>>) = 0 /\ ToSet(<<>>) = {}
    BY EmptyFacts, WriterAssumption
  <2>4. writer' \in Batch /\ writer'.ops = <<>> /\ writer'.n = 1 /\ writer'.pc = "take" /\ writer'.failed = {}
    BY <2>1, <2>3 DEF Batch
  <2>5. Attempt'
    BY <1>1, <2>1, <2>2, <2>3, <2>4, WriterAssumption DEF Attempt
  <2>6. Types'
    BY <1>1, <2>4 DEF WriterInv, Types, callVars
  <2>7. Callers' /\ Refusals' /\ Durable' /\ Frozen
    BY <1>1 DEF WriterInv, Callers, Refusals, Durable, Frozen, Fresh, Refused, Dead, callVars
  <2>8. Places' /\ Order'
    BY <1>1, <2>2, <2>4 DEF WriterInv, Places, Order, callVars
  <2> QED
    BY <2>5, <2>6, <2>7, <2>8 DEF WriterInv
<1>3. CASE Stop \/ DeadlinePasses
  <2>1. writer' = writer /\ state \notin {"idle", "stopped"}
    BY <1>3 DEF Stop, DeadlinePasses
  <2>2. Types' /\ Attempt'
    BY <1>1, <2>1 DEF WriterInv, Types, Attempt, callVars
  <2>3. Callers' /\ Refusals' /\ Durable' /\ Frozen
    BY <1>1 DEF WriterInv, Callers, Refusals, Durable, Frozen, Fresh, Refused, Dead, callVars
  <2>4. Places' /\ Order'
    BY <1>1, <2>1 DEF WriterInv, Places, Order, callVars
  <2> QED
    BY <2>2, <2>3, <2>4 DEF WriterInv
<1> QED
  BY <1>2, <1>3

-----------------------------------------------------------------------------
(* The callers' steps.                                                     *)

\* A call has an op of its own that nobody has been told of.
LEMMA CallFacts ==
  ASSUME WriterInv, NEW t \in Threads
  PROVE  /\ call[t] = NoCall \/ (call[t].pc # "idle" /\ call[t].op \in Ops /\ told[call[t].op] = "none")
         /\ call[t].pc = "idle" => call[t] = NoCall
         /\ call[t].pc \notin {"idle", "wait"} => Fresh(call[t].op)
         /\ call[t].pc = "wait" => fut[call[t].op] # "none"
         /\ \A u \in Threads : u # t /\ call[t].pc # "idle" => call[u].op # call[t].op
         /\ call[t].pc \in {"idle", "gate", "directgate", "submit", "wait", "direct", "directtx", "post"}
<1>1. call[t] \in Calls
  BY DEF WriterInv, Types
<1>2. CASE call[t] = NoCall
  BY <1>2 DEF NoCall
<1>3. CASE call[t] # NoCall
  <2>1. /\ call[t].pc \in {"gate", "directgate", "submit", "wait", "direct", "directtx", "post"}
        /\ call[t].op \in Ops
    BY <1>1, <1>3 DEF Calls
  <2>2. call[t].pc \notin {"idle", "wait"} => Fresh(call[t].op)
    BY DEF WriterInv, Callers
  <2>3. call[t].pc = "wait" => told[call[t].op] = "none" /\ fut[call[t].op] # "none"
    BY DEF WriterInv, Callers
  <2>4. \A u \in Threads : u # t /\ call[t].pc # "idle" => call[u].op # call[t].op
    BY DEF WriterInv, Callers
  <2> QED
    BY <2>1, <2>2, <2>3, <2>4 DEF Fresh
<1> QED
  BY <1>2, <1>3

\* A call ends with answer r.
LEMMA EndsKeeps ==
  ASSUME WriterInv, NEW t \in Threads, call[t].pc # "idle", NEW r \in Answers \ {"none"}, Ends(t, r),
         NEW o \in Ops, o = call[t].op, left'.lost = left.lost,
         \A p \in Ops : p # o => fut'[p] = fut[p] /\ (p \in ToSet(db') <=> p \in ToSet(db)),
         r \in {"closed", "full", "active", "dropped"} => fut'[o] \in {"none", "closed"} /\ o \notin ToSet(db'),
         fut'[o] \in {"closed", "cancelled"} => o \notin ToSet(db'), Dead(o) => fut'[o] = fut[o],
         (r = "ok" \/ fut'[o] = "ok") /\ left.lost = Budget.lost => o \in ToSet(db')
  PROVE  /\ call' \in [Threads -> Calls] /\ told' \in [Ops -> Answers]
         /\ Callers' /\ Refusals' /\ Durable' /\ Frozen
<1>1. /\ call \in [Threads -> Calls] /\ told \in [Ops -> Answers] /\ told[o] = "none"
      /\ \A u \in Threads : u # t => call[u].op # o
  BY CallFacts DEF WriterInv, Types, NoCall
<1>2. call' = [call EXCEPT ![t] = NoCall] /\ told' = [told EXCEPT ![o] = r]
  BY DEF Ends
<1>3. call' \in [Threads -> Calls] /\ told' \in [Ops -> Answers]
  BY <1>1, <1>2 DEF Calls
<1>4. /\ call'[t] = NoCall /\ \A u \in Threads : u # t => call'[u] = call[u]
      /\ told'[o] = r /\ \A p \in Ops : p # o => told'[p] = told[p]
  BY <1>1, <1>2
<1>5. NoCall.pc = "idle" /\ NoCall.op = None /\ o # None
  BY WriterAssumption DEF NoCall
<1>6. \A p \in Ops : p # o /\ Fresh(p) => Fresh(p)'
  BY <1>4 DEF Fresh
<1>7. Callers'
  <2>1. \A u \in Threads : call'[u].pc # "idle" => u # t /\ call'[u] = call[u] /\ call[u].op \in Ops /\ call[u].op # o
    BY <1>1, <1>4, <1>5, CallFacts DEF NoCall
  <2>2. \A u, v \in Threads : call'[u].pc # "idle" /\ call'[v].op = call'[u].op => v = u
    <3> SUFFICES ASSUME NEW u \in Threads, NEW v \in Threads, call'[u].pc # "idle", call'[v].op = call'[u].op
                 PROVE  v = u
      OBVIOUS
    <3>1. call'[u] = call[u] /\ call[u].op \in Ops /\ None \notin Ops
      BY <2>1, WriterAssumption
    <3>2. v # t
      BY <1>4, <1>5, <3>1
    <3> QED
      BY <1>4, <3>1, <3>2 DEF WriterInv, Callers
  <2>3. \A u \in Threads : call'[u].pc \notin {"idle", "wait"} =>
          told'[call'[u].op] = "none" /\ fut'[call'[u].op] = "none" /\ call'[u].op \notin ToSet(db')
    <3> SUFFICES ASSUME NEW u \in Threads, call'[u].pc \notin {"idle", "wait"}, NEW p, p = call'[u].op
                 PROVE  Fresh(p)'
      BY DEF Fresh
    <3>1. u # t /\ call'[u] = call[u] /\ p \in Ops /\ p # o
      BY <2>1
    <3>2. Fresh(p)
      BY <3>1 DEF WriterInv, Callers
    <3> QED
      BY <1>6, <3>1, <3>2
  <2>4. \A u \in Threads : call'[u].pc = "wait" => told'[call'[u].op] = "none" /\ fut'[call'[u].op] # "none"
    BY <1>4, <2>1 DEF WriterInv, Callers
  <2>5. ASSUME NEW p \in Ops, told'[p] = "none", \A u \in Threads : call'[u].op # p PROVE Fresh(p)'
    <3>1. p # o
      BY <1>4, <2>5
    <3>2. \A u \in Threads : call[u].op # p
      BY <1>4, <2>5, <3>1
    <3> QED
      BY <1>4, <1>6, <2>5, <3>1, <3>2 DEF WriterInv, Callers
  <2> QED
    BY <2>2, <2>3, <2>4, <2>5 DEF Callers, Fresh
<1>8. Refusals'
  <2>1. \A p \in Ops : p # o => (Refused(p)' <=> Refused(p)) /\ (Dead(p)' <=> Dead(p))
    BY <1>4 DEF Refused, Dead
  <2>2. Refused(o)' <=> r \in {"closed", "full", "active", "dropped"}
    BY <1>4 DEF Refused
  <2> QED
    BY <2>1, <2>2 DEF WriterInv, Refusals, Dead
<1>9. Durable'
  BY <1>4 DEF WriterInv, Durable
<1>10. Frozen
  BY <1>1, <1>4 DEF Frozen, Dead
<1> QED
  BY <1>3, <1>7, <1>8, <1>9, <1>10

\* A call begins or goes on, to c.
LEMMA CallGoesOn ==
  ASSUME WriterInv, NEW t \in Threads, call[t].pc # "wait", NEW c \in Calls \ {NoCall}, NEW o \in Ops, c.op = o,
         call' = [call EXCEPT ![t] = c], told' = told, db' = db, left'.lost = left.lost,
         call[t].pc # "idle" => call[t].op = o,
         call[t].pc = "idle" => told[o] = "none" /\ \A u \in Threads : call[u].op # o,
         \A p \in Ops : p # o => fut'[p] = fut[p],
         fut'[o] = IF c.pc = "wait" THEN "pending" ELSE fut[o]
  PROVE  call' \in [Threads -> Calls] /\ Callers' /\ Refusals' /\ Durable' /\ Frozen /\ Fresh(o)
<1>1. call \in [Threads -> Calls] /\ c.pc # "idle"
  BY DEF WriterInv, Types, Calls
<1>2. call'[t] = c /\ \A u \in Threads : u # t => call'[u] = call[u]
  BY <1>1
<1>3. Fresh(o) /\ \A u \in Threads : u # t => call[u].op # o
  BY CallFacts DEF WriterInv, Callers
<1>4. \A p \in Ops : p # o /\ Fresh(p) => Fresh(p)'
  BY DEF Fresh
<1>5. c.pc # "wait" => Fresh(o)'
  BY <1>3 DEF Fresh
<1>6. Callers'
  <2>1. \A u \in Threads : u # t /\ call[u].pc # "idle" => call[u].op \in Ops /\ call[u].op # o
    BY <1>3, CallFacts DEF NoCall
  <2>2. \A u, v \in Threads : call'[u].pc # "idle" /\ call'[v].op = call'[u].op => v = u
    BY <1>2, <1>3, <2>1 DEF WriterInv, Callers
  <2>3. \A u \in Threads : call'[u].pc \notin {"idle", "wait"} =>
          told'[call'[u].op] = "none" /\ fut'[call'[u].op] = "none" /\ call'[u].op \notin ToSet(db')
    <3> SUFFICES ASSUME NEW u \in Threads, call'[u].pc \notin {"idle", "wait"}, NEW p, p = call'[u].op
                 PROVE  Fresh(p)'
      BY DEF Fresh
    <3>1. CASE u = t
      BY <1>2, <1>5, <3>1
    <3>2. CASE u # t
      <4>1. call'[u] = call[u] /\ p \in Ops /\ p # o
        BY <1>2, <2>1, <3>2
      <4>2. Fresh(p)
        BY <4>1 DEF WriterInv, Callers
      <4> QED
        BY <1>4, <4>1, <4>2
    <3> QED
      BY <3>1, <3>2
  <2>4. \A u \in Threads : call'[u].pc = "wait" => told'[call'[u].op] = "none" /\ fut'[call'[u].op] # "none"
    BY <1>2, <1>3, <2>1 DEF WriterInv, Callers, Fresh
  <2>5. ASSUME NEW p \in Ops, told'[p] = "none", \A u \in Threads : call'[u].op # p PROVE Fresh(p)'
    <3>1. p # o
      BY <1>2, <2>5
    <3>2. call[t].op # p
      BY <3>1, CallFacts, WriterAssumption DEF NoCall
    <3>3. \A u \in Threads : call[u].op # p
      BY <1>2, <2>5, <3>2
    <3> QED
      BY <1>4, <2>5, <3>1, <3>3 DEF WriterInv, Callers
  <2> QED
    BY <2>2, <2>3, <2>4, <2>5 DEF Callers, Fresh
<1>7. \A p \in Ops : fut'[p] = fut[p] \/ (p = o /\ fut'[p] = "pending" /\ fut[p] = "none" /\ told[p] = "none")
  BY <1>3 DEF Fresh
<1>8. Refusals'
  <2> SUFFICES ASSUME NEW p \in Ops
               PROVE  /\ Refused(p)' => fut'[p] \in {"none", "closed"}
                      /\ Refused(p)' \/ Dead(p)' => p \notin ToSet(db')
    BY DEF Refusals
  <2>1. Refused(p)' <=> Refused(p)
    BY DEF Refused
  <2>2. CASE fut'[p] = fut[p]
    BY <2>1, <2>2 DEF WriterInv, Refusals, Dead
  <2>3. CASE p = o /\ fut'[p] = "pending" /\ told[p] = "none"
    BY <2>1, <2>3 DEF Dead, Refused
  <2> QED
    BY <1>7, <2>2, <2>3
<1>9. Durable'
  BY <1>7 DEF WriterInv, Durable
<1>10. Frozen
  BY <1>7 DEF Frozen, Dead
<1> QED
  BY <1>1, <1>3, <1>6, <1>8, <1>9, <1>10

\* An op is queued.
LEMMA EnqueueKeeps ==
  ASSUME WriterInv, NEW o \in Ops, Fresh(o), Enqueue(o), UNCHANGED <<writer, txn, db>>
  PROVE  /\ queue' \in [Lanes -> Seq(Ops)] /\ fut' \in [Ops -> Futures] /\ arrived' \in Seq(Ops)
         /\ fut'[o] = "pending" /\ \A p \in Ops : p # o => fut'[p] = fut[p]
         /\ Places' /\ Order'
<1>1. /\ writer.ops \in Seq(Ops)
      /\ ToSet(txn) \subseteq ToSet(writer.ops) /\ ToSet(writer.ops) \subseteq ToSet(arrived)
      /\ \A l \in Lanes : ToSet(queue[l]) \subseteq ToSet(arrived)
      /\ ToSet(arrived) \subseteq Ops
      /\ arrived \in Seq(Ops) /\ IsInjective(arrived) /\ queue \in [Lanes -> Seq(Ops)] /\ fut \in [Ops -> Futures]
  BY InvFacts DEF WriterInv, Order, Types
<1>2. o \notin ToSet(arrived) /\ o \notin ToSet(db) /\ Lane[o] \in Lanes
  BY WriterAssumption DEF Fresh, WriterInv, Places
<1>3. /\ queue' = [queue EXCEPT ![Lane[o]] = Append(queue[Lane[o]], o)]
      /\ fut' = [fut EXCEPT ![o] = "pending"] /\ arrived' = Append(arrived, o)
  BY DEF Enqueue
<1>4. /\ Append(queue[Lane[o]], o) \in Seq(Ops)
      /\ ToSet(Append(queue[Lane[o]], o)) = ToSet(queue[Lane[o]]) \cup {o}
  BY <1>1, <1>2, AppendFacts
<1>5. queue' \in [Lanes -> Seq(Ops)] /\ fut' \in [Ops -> Futures]
  BY <1>1, <1>3, <1>4 DEF Futures
<1>6. /\ queue'[Lane[o]] = Append(queue[Lane[o]], o) /\ \A l \in Lanes : l # Lane[o] => queue'[l] = queue[l]
      /\ fut'[o] = "pending" /\ \A p \in Ops : p # o => fut'[p] = fut[p]
  BY <1>1, <1>2, <1>3
<1>7. /\ arrived' \in Seq(Ops) /\ ToSet(arrived') = ToSet(arrived) \cup {o} /\ IsInjective(arrived')
      /\ \A p, q : p # o /\ q # o /\ Earlier(arrived, p, q) => Earlier(arrived', p, q)
      /\ \A p : p # o => Earlier(arrived', p, o)
  BY <1>1, <1>2, <1>3, Arrives
<1>8. \A l \in Lanes : ToSet(queue'[l]) = IF l = Lane[o] THEN ToSet(queue[l]) \cup {o} ELSE ToSet(queue[l])
  BY <1>4, <1>6
<1>9. Places'
  <2>1. \A p \in Ops : p \in ToSet(arrived') <=> fut'[p] # "none"
    BY <1>6, <1>7 DEF WriterInv, Places
  <2>2. \A l \in Lanes : \A p \in ToSet(queue'[l]) :
          Lane[p] = l /\ fut'[p] \in {"pending", "running", "cancelled"}
    <3>1. \A l \in Lanes : \A p \in ToSet(queue[l]) : p \in Ops /\ p # o
      BY <1>1, <1>2
    <3>2. \A l \in Lanes : \A p \in ToSet(queue[l]) : Lane[p] = l /\ fut[p] \in {"pending", "running", "cancelled"}
      BY DEF WriterInv, Places
    <3>3. \A l \in Lanes : \A p \in ToSet(queue'[l]) : p \in ToSet(queue[l]) \/ (p = o /\ l = Lane[o])
      BY <1>8
    <3> QED
      BY <1>6, <3>1, <3>2, <3>3
  <2>3. \A p \in ToSet(writer.ops) : fut'[p] = "running"
    <3>1. \A p \in ToSet(writer.ops) : p \in Ops /\ p # o
      BY <1>1, <1>2
    <3> QED
      BY <1>6, <3>1 DEF WriterInv, Places
  <2>4. /\ \A p \in Ops : ToSet(queue[Lane[p]]) \subseteq ToSet(queue'[Lane[p]])
        /\ o \in ToSet(queue'[Lane[o]])
    BY <1>8, WriterAssumption
  <2>5. \A p \in Ops : fut'[p] = "pending" => p \in ToSet(queue'[Lane[p]])
    BY <1>6, <2>4 DEF WriterInv, Places
  <2>6. \A p \in Ops : fut'[p] = "running" => p \in ToSet(writer.ops) \cup ToSet(queue'[Lane[p]])
    BY <1>6, <2>4 DEF WriterInv, Places
  <2> QED
    BY <2>1, <2>2, <2>3, <2>5, <2>6 DEF Places
<1>10. Order'
  <2>1. \A s : (\A i \in 1..Len(s) : s[i] # o) /\ Sorted(arrived, s) => Sorted(arrived', s)
    BY <1>7 DEF Sorted
  <2>2. \A S, T : Ahead(arrived, S, T) /\ o \notin S /\ o \notin T => Ahead(arrived', S, T)
    BY <1>7 DEF Ahead
  <2>3. \A S, T : Ahead(arrived', S, T) /\ o \notin S => Ahead(arrived', S, T \cup {o})
    BY <1>7 DEF Ahead
  <2>4. \A s \in Seq(Ops) : o \notin ToSet(s) => \A i \in 1..Len(s) : s[i] # o
    BY Elements
  <2>5. o \notin ToSet(txn) /\ o \notin ToSet(writer.ops) /\ \A l \in Lanes : o \notin ToSet(queue[l])
    BY <1>1, <1>2
  <2>6. Sorted(arrived', db) /\ Sorted(arrived', txn) /\ Sorted(arrived', writer.ops)
    BY <1>1, <1>2, <2>1, <2>4, <2>5 DEF WriterInv, Order, Types
  <2>7. From(writer.ops, writer.n) \subseteq ToSet(writer.ops)
    BY <1>1, Elements DEF From
  <2>8. Ahead(arrived', ToSet(db), ToSet(writer.ops)) /\ Ahead(arrived', ToSet(txn), From(writer.ops, writer.n))
    BY <1>2, <2>2, <2>5, <2>7 DEF WriterInv, Order
  <2>9. ASSUME NEW l \in Lanes
        PROVE  /\ Sorted(arrived', queue'[l])
               /\ Ahead(arrived', ToSet(db), ToSet(queue'[l]))
               /\ Ahead(arrived', ToSet(writer.ops), ToSet(queue'[l]))
    <3>1. Sorted(arrived', queue[l]) /\ queue[l] \in Seq(Ops)
      BY <1>1, <2>1, <2>4, <2>5 DEF WriterInv, Order
    <3>2. Ahead(arrived', ToSet(db), ToSet(queue[l])) /\ Ahead(arrived', ToSet(writer.ops), ToSet(queue[l]))
      BY <1>2, <2>2, <2>5 DEF WriterInv, Order
    <3>3. CASE l # Lane[o]
      BY <1>6, <3>1, <3>2, <3>3
    <3>4. CASE l = Lane[o]
      <4>1. Ahead(arrived', ToSet(queue[l]), {o})
        BY <1>7, <2>5 DEF Ahead
      <4>2. Sorted(arrived', queue'[l])
        BY <1>6, <3>1, <3>4, <4>1, AppendSorted
      <4>3. ToSet(queue'[l]) = ToSet(queue[l]) \cup {o}
        BY <1>8, <3>4
      <4> QED
        BY <1>2, <2>3, <2>5, <3>2, <4>2, <4>3
    <3> QED
      BY <3>3, <3>4
  <2> QED
    BY <1>7, <2>6, <2>8, <2>9 DEF WriterInv, Order
<1> QED
  BY <1>5, <1>6, <1>7, <1>9, <1>10

\* An op that was never queued is applied directly: it has no place in the order.
LEMMA DirectKeeps ==
  ASSUME WriterInv, NEW o \in Ops, Fresh(o), db' = Append(db, o), UNCHANGED <<queue, fut, writer, txn, arrived>>
  PROVE  /\ db' \in Seq(Ops) /\ ToSet(db') = ToSet(db) \cup {o}
         /\ Places' /\ Order'
<1>1. o \notin ToSet(arrived) /\ o \notin ToSet(db)
  BY DEF Fresh, WriterInv, Places
<1>2. db \in Seq(Ops) /\ IsInjective(db) /\ Sorted(arrived, db)
  BY DEF WriterInv, Types, Order
<1>3. db' \in Seq(Ops) /\ ToSet(db') = ToSet(db) \cup {o} /\ IsInjective(db')
  BY <1>1, <1>2, AppendFacts
<1>4. \A p : Earlier(arrived, o, p) /\ Earlier(arrived, p, o)
  BY <1>1 DEF Earlier
<1>5. Sorted(arrived, db')
  BY <1>2, <1>4, AppendSorted DEF Ahead
<1>6. \A T : Ahead(arrived, ToSet(db), T) => Ahead(arrived, ToSet(db'), T)
  BY <1>3, <1>4 DEF Ahead
<1>7. Places'
  BY DEF WriterInv, Places
<1>8. Order'
  BY <1>3, <1>5, <1>6 DEF WriterInv, Order
<1> QED
  BY <1>3, <1>7, <1>8

\* Nothing moves.
LEMMA NothingMoves ==
  ASSUME WriterInv, UNCHANGED <<queue, writer, txn, db, arrived>>
  PROVE  /\ Order'
         /\ UNCHANGED fut => Places'
         /\ UNCHANGED state => Attempt'
BY DEF WriterInv, Order, Places, Attempt

\* A post without a writer, and one that the gate turns away.
LEMMA ToldKeeps ==
  ASSUME WriterInv, NEW o \in Ops, told[o] = "none", \A t \in Threads : call[t].op # o,
         NEW r \in {"posted", "dropped"}, told' = [told EXCEPT ![o] = r], UNCHANGED <<call, fut, left>>,
         ToSet(db) \subseteq ToSet(db'), ToSet(db') \subseteq ToSet(db) \cup {o}, r = "dropped" => db' = db
  PROVE  told' \in [Ops -> Answers] /\ Callers' /\ Refusals' /\ Durable' /\ Frozen /\ Fresh(o)
<1>1. told \in [Ops -> Answers] /\ Fresh(o)
  BY DEF WriterInv, Types, Callers
<1>2. told' \in [Ops -> Answers]
  BY <1>1 DEF Answers
<1>3. told'[o] = r /\ \A p \in Ops : p # o => told'[p] = told[p] /\ (p \in ToSet(db') <=> p \in ToSet(db))
  BY <1>1
<1>4. \A p \in Ops : p # o /\ Fresh(p) => Fresh(p)'
  BY <1>3 DEF Fresh
<1>5. \A t \in Threads : call[t].pc # "idle" => call[t].op \in Ops /\ call[t].op # o
  BY CallFacts DEF NoCall
<1>6. Callers'
  <2>1. \A t \in Threads : call[t].pc \notin {"idle", "wait"} => Fresh(call[t].op)'
    BY <1>4, <1>5 DEF WriterInv, Callers
  <2>2. \A p \in Ops : told'[p] = "none" /\ (\A t \in Threads : call[t].op # p) => Fresh(p)'
    BY <1>3, <1>4 DEF WriterInv, Callers
  <2>3. \A t \in Threads : call[t].pc = "wait" => told'[call[t].op] = "none" /\ fut[call[t].op] # "none"
    BY <1>3, <1>5 DEF WriterInv, Callers
  <2> QED
    BY <2>1, <2>2, <2>3 DEF WriterInv, Callers
<1>7. Refusals'
  <2> SUFFICES ASSUME NEW p \in Ops
               PROVE  /\ Refused(p)' => fut'[p] \in {"none", "closed"}
                      /\ Refused(p)' \/ Dead(p)' => p \notin ToSet(db')
    BY DEF Refusals
  <2>1. CASE p = o
    BY <1>1, <1>3, <2>1 DEF Refused, Dead, Fresh
  <2>2. CASE p # o
    BY <1>3, <2>2 DEF WriterInv, Refusals, Refused, Dead
  <2> QED
    BY <2>1, <2>2
<1>8. Durable'
  BY <1>3 DEF WriterInv, Durable
<1>9. Frozen
  BY <1>3 DEF Frozen, Dead
<1> QED
  BY <1>1, <1>2, <1>6, <1>7, <1>8, <1>9

\* A call begins.
LEMMA CallWriteKeeps ==
  ASSUME WriterInv, NEW t \in Threads, NEW o \in Ops, CallWrite(t, o)
  PROVE  WriterInv' /\ Frozen
<1> PICK c : c = [pc |-> IF Active THEN "gate" ELSE "directgate", op |-> o]
  OBVIOUS
<1>1. /\ call[t].pc = "idle" /\ told[o] = "none" /\ \A u \in Threads : call[u].op # o
      /\ call' = [call EXCEPT ![t] = c] /\ UNCHANGED <<writerVars, told, arrived, left>>
  BY DEF CallWrite
<1>2. c \in Calls \ {NoCall} /\ c.op = o /\ c.pc # "wait"
  BY WriterAssumption DEF Calls, NoCall
<1>3. /\ UNCHANGED <<state, late, queue, fut, writer, txn, db>> /\ told' = told /\ arrived' = arrived /\ left' = left
  BY <1>1 DEF writerVars
<1>4. call' \in [Threads -> Calls] /\ Callers' /\ Refusals' /\ Durable' /\ Frozen
  BY <1>1, <1>2, <1>3, CallGoesOn
<1>5. Places' /\ Order' /\ Attempt'
  BY <1>3, NothingMoves
<1>6. Types'
  BY <1>3, <1>4 DEF WriterInv, Types
<1> QED
  BY <1>4, <1>5, <1>6 DEF WriterInv

\* The call goes on to s.
LEMMA ToCallKeeps ==
  ASSUME WriterInv, NEW t \in Threads, NEW s \in {"submit", "direct", "directtx"},
         call[t].pc \notin {"idle", "wait"}, ToCall(t, s), UNCHANGED <<writerVars, told, arrived, left>>
  PROVE  WriterInv' /\ Frozen
<1> PICK o : o = call[t].op
  OBVIOUS
<1> PICK c : c = [pc |-> s, op |-> o]
  OBVIOUS
<1>1. call \in [Threads -> Calls] /\ o \in Ops /\ call[t] \in Calls \ {NoCall}
  BY CallFacts DEF WriterInv, Types, NoCall
<1>2. call' = [call EXCEPT ![t] = c]
  <2>1. call[t] = [pc |-> call[t].pc, op |-> o]
    BY <1>1 DEF Calls
  <2>2. [call[t] EXCEPT !.pc = s] = c
    BY <2>1
  <2>3. call' = [call EXCEPT ![t] = [call[t] EXCEPT !.pc = s]]
    BY DEF ToCall
  <2> QED
    BY <2>2, <2>3
<1>3. c \in Calls \ {NoCall} /\ c.op = o /\ c.pc # "wait"
  BY <1>1, WriterAssumption DEF Calls, NoCall
<1>4. /\ UNCHANGED <<state, late, queue, fut, writer, txn, db>> /\ told' = told /\ arrived' = arrived /\ left' = left
  BY DEF writerVars
<1>5. call' \in [Threads -> Calls] /\ Callers' /\ Refusals' /\ Durable' /\ Frozen
  BY <1>1, <1>2, <1>3, <1>4, CallGoesOn
<1>6. Places' /\ Order' /\ Attempt'
  BY <1>4, NothingMoves
<1>7. Types'
  BY <1>4, <1>5 DEF WriterInv, Types
<1> QED
  BY <1>5, <1>6, <1>7 DEF WriterInv

\* It passes the gate.
LEMMA PassGateKeeps ==
  ASSUME WriterInv, NEW t \in Threads, PassGate(t)
  PROVE  WriterInv' /\ Frozen
<1>1. CASE call[t].pc = "gate"
  BY <1>1, ToCallKeeps DEF PassGate
<1>2. CASE call[t].pc = "directgate"
  BY <1>2, ToCallKeeps DEF PassGate
<1> QED
  BY <1>1, <1>2 DEF PassGate

\* A call ends without having queued or applied anything.
LEMMA RefusedKeeps ==
  ASSUME WriterInv, NEW t \in Threads, call[t].pc \notin {"idle", "wait"},
         NEW r \in {"closed", "full", "active", "dropped", "error"}, Ends(t, r), left' \in [Spendings -> Nat],
         left'.lost = left.lost, UNCHANGED <<writerVars, arrived>>
  PROVE  WriterInv' /\ Frozen
<1> PICK o : o = call[t].op
  OBVIOUS
<1>1. o \in Ops /\ Fresh(o)
  BY CallFacts DEF NoCall
<1>2. /\ UNCHANGED <<state, late, queue, fut, writer, txn, db>> /\ arrived' = arrived
  BY DEF writerVars
<1>3. r \in Answers \ {"none"}
  BY DEF Answers
<1>4. fut'[o] = "none" /\ fut[o] = "none" /\ o \notin ToSet(db') /\ fut' = fut /\ db' = db /\ r # "ok"
  BY <1>1, <1>2 DEF Fresh
<1>5. call' \in [Threads -> Calls] /\ told' \in [Ops -> Answers] /\ Callers' /\ Refusals' /\ Durable' /\ Frozen
  BY <1>1, <1>3, <1>4, EndsKeeps
<1>6. Places' /\ Order' /\ Attempt'
  BY <1>2, NothingMoves
<1>7. Types'
  BY <1>2, <1>5 DEF WriterInv, Types
<1> QED
  BY <1>5, <1>6, <1>7 DEF WriterInv

\* A direct call looks for an active writer.
LEMMA DirectCheckKeeps ==
  ASSUME WriterInv, NEW t \in Threads, DirectCheck(t)
  PROVE  WriterInv' /\ Frozen
<1>1. left' = left /\ left' \in [Spendings -> Nat] /\ UNCHANGED <<writerVars, arrived>> /\ call[t].pc = "direct"
  BY DEF DirectCheck, WriterInv, Types
<1>2. CASE Active
  <2>1. Ends(t, "active")
    BY <1>2 DEF DirectCheck
  <2> QED
    BY <1>1, <2>1, RefusedKeeps
<1>3. CASE ~Active
  BY <1>1, <1>3, ToCallKeeps DEF DirectCheck
<1> QED
  BY <1>2, <1>3

\* A direct call commits or fails.
LEMMA DirectCommitKeeps ==
  ASSUME WriterInv, NEW t \in Threads, DirectCommit(t)
  PROVE  WriterInv' /\ Frozen
<1> PICK o : o = call[t].op
  OBVIOUS
<1>1. o \in Ops /\ Fresh(o) /\ call[t].pc = "directtx" /\ UNCHANGED <<state, late, queue, fut, writer, txn, arrived>>
  BY CallFacts DEF DirectCommit, NoCall
<1>2. CASE db' = Append(db, o) /\ Ends(t, "ok") /\ left' = left
  <2>1. db' \in Seq(Ops) /\ ToSet(db') = ToSet(db) \cup {o} /\ Places' /\ Order'
    BY <1>1, <1>2, DirectKeeps
  <2>2. fut'[o] = "none" /\ fut[o] = "none" /\ "ok" \in Answers \ {"none"}
    BY <1>1 DEF Fresh, Answers
  <2>3. \A p \in Ops : p # o => fut'[p] = fut[p] /\ (p \in ToSet(db') <=> p \in ToSet(db))
    BY <1>1, <2>1
  <2>4. call' \in [Threads -> Calls] /\ told' \in [Ops -> Answers] /\ Callers' /\ Refusals' /\ Durable' /\ Frozen
    BY <1>1, <1>2, <2>1, <2>2, <2>3, EndsKeeps
  <2>5. Attempt'
    BY <1>1 DEF WriterInv, Attempt
  <2>6. Types'
    BY <1>1, <1>2, <2>1, <2>4 DEF WriterInv, Types
  <2> QED
    BY <2>1, <2>4, <2>5, <2>6 DEF WriterInv
<1>3. CASE db' = db /\ Ends(t, "error") /\ Spend("fault")
  <2>1. left' \in [Spendings -> Nat] /\ left'.lost = left.lost
    BY <1>3, SpendFacts DEF Spendings
  <2>2. UNCHANGED <<writerVars, arrived>> /\ Ends(t, "error")
    BY <1>1, <1>3 DEF writerVars
  <2> QED
    BY <1>1, <2>1, <2>2, RefusedKeeps
<1> QED
  BY <1>2, <1>3 DEF DirectCommit

\* A call hears what became of its op.
LEMMA ReturnKeeps ==
  ASSUME WriterInv, NEW t \in Threads, Return(t)
  PROVE  WriterInv' /\ Frozen
<1> PICK o : o = call[t].op
  OBVIOUS
<1> PICK r : r = fut[o]
  OBVIOUS
<1>1. /\ o \in Ops /\ call[t].pc = "wait" /\ r \in {"ok", "error", "closed"} /\ Ends(t, r)
      /\ UNCHANGED <<writerVars, arrived, left>>
  BY CallFacts DEF Return, NoCall
<1>2. UNCHANGED <<state, late, queue, fut, writer, txn, db>> /\ arrived' = arrived /\ left' = left
  BY <1>1 DEF writerVars
<1>3. r \in Answers \ {"none"} /\ fut'[o] = r /\ fut' = fut /\ db' = db
  BY <1>1, <1>2 DEF Answers
<1>4. r = "closed" => o \notin ToSet(db')
  BY <1>1, <1>3 DEF WriterInv, Refusals, Dead
<1>5. r = "ok" /\ left.lost = Budget.lost => o \in ToSet(db')
  BY <1>1, <1>3 DEF WriterInv, Durable
<1>6. call' \in [Threads -> Calls] /\ told' \in [Ops -> Answers] /\ Callers' /\ Refusals' /\ Durable' /\ Frozen
  BY <1>1, <1>2, <1>3, <1>4, <1>5, EndsKeeps
<1>7. Places' /\ Order' /\ Attempt'
  BY <1>2, NothingMoves
<1>8. Types'
  BY <1>2, <1>6 DEF WriterInv, Types
<1> QED
  BY <1>6, <1>7, <1>8 DEF WriterInv

\* A call stops waiting: an op still queued is cancelled.
LEMMA TimeOutKeeps ==
  ASSUME WriterInv, NEW t \in Threads, TimeOut(t)
  PROVE  WriterInv' /\ Frozen
<1> PICK o : o = call[t].op
  OBVIOUS
<1>1. /\ o \in Ops /\ call[t].pc = "wait" /\ Live(o) /\ Ends(t, "timeout") /\ Spend("timeout")
      /\ fut' = IF fut[o] = "pending" THEN [fut EXCEPT ![o] = "cancelled"] ELSE fut
      /\ UNCHANGED <<state, late, queue, writer, txn, db, arrived>>
  BY CallFacts DEF TimeOut, NoCall
<1>2. left' \in [Spendings -> Nat] /\ left'.lost = left.lost
  BY <1>1, SpendFacts DEF Spendings
<1>3. fut \in [Ops -> Futures]
  BY DEF WriterInv, Types
<1>4. /\ fut' \in [Ops -> Futures] /\ \A p \in Ops : p # o => fut'[p] = fut[p]
      /\ fut[o] = "pending" => fut'[o] = "cancelled"
      /\ fut[o] # "pending" => fut' = fut /\ fut'[o] = "running"
  BY <1>1, <1>3 DEF Futures, Live
<1>5. fut[o] = "pending" => o \notin ToSet(db) /\ o \in ToSet(queue[Lane[o]])
  <2>1. fut[o] = "pending" => o \in ToSet(queue[Lane[o]])
    BY <1>1 DEF WriterInv, Places
  <2> QED
    BY <1>1, <2>1, InvFacts, WriterAssumption
<1>6. "timeout" \in Answers \ {"none"} /\ ~Dead(o) /\ fut'[o] # "ok" /\ db' = db
  BY <1>1, <1>4 DEF Answers, Dead, Live
<1>7. fut'[o] \in {"closed", "cancelled"} => o \notin ToSet(db')
  BY <1>4, <1>5, <1>6
<1>8. call' \in [Threads -> Calls] /\ told' \in [Ops -> Answers] /\ Callers' /\ Refusals' /\ Durable' /\ Frozen
  BY <1>1, <1>2, <1>4, <1>6, <1>7, EndsKeeps
<1>9. Places'
  <2>1. \A p \in Ops : p \in ToSet(arrived) <=> fut'[p] # "none"
    BY <1>1, <1>4 DEF WriterInv, Places, Live
  <2>2. \A l \in Lanes : \A p \in ToSet(queue[l]) :
          Lane[p] = l /\ fut'[p] \in {"pending", "running", "cancelled"}
    <3>1. \A l \in Lanes : \A p \in ToSet(queue[l]) :
            p \in Ops /\ Lane[p] = l /\ fut[p] \in {"pending", "running", "cancelled"}
      BY InvFacts DEF WriterInv, Places
    <3> QED
      BY <1>4, <3>1
  <2>3. \A p \in ToSet(writer.ops) : fut'[p] = "running"
    <3>1. \A p \in ToSet(writer.ops) : p \in Ops /\ fut[p] = "running"
      BY InvFacts DEF WriterInv, Places
    <3> QED
      BY <1>4, <3>1
  <2>4. \A p \in Ops : fut'[p] \in {"pending", "running"} => fut'[p] = fut[p]
    BY <1>4
  <2> QED
    BY <1>1, <2>1, <2>2, <2>3, <2>4 DEF WriterInv, Places
<1>10. Order' /\ Attempt'
  BY <1>1, NothingMoves
<1>11. Types'
  BY <1>1, <1>2, <1>4, <1>8 DEF WriterInv, Types
<1> QED
  BY <1>8, <1>9, <1>10, <1>11 DEF WriterInv

\* A call is refused, or its op queued.
LEMMA SubmitKeeps ==
  ASSUME WriterInv, NEW t \in Threads, Submit(t)
  PROVE  WriterInv' /\ Frozen
<1> PICK o : o = call[t].op
  OBVIOUS
<1>1. /\ o \in Ops /\ Fresh(o) /\ call[t].pc = "submit" /\ call[t] = [pc |-> "submit", op |-> o]
      /\ UNCHANGED <<state, late, writer, txn, db, left>>
  <2>1. call[t] \in Calls \ {NoCall} /\ call[t].pc = "submit"
    BY DEF Submit, WriterInv, Types, NoCall
  <2>2. call[t] = [pc |-> "submit", op |-> o]
    BY <2>1 DEF Calls
  <2> QED
    BY <2>1, <2>2, CallFacts DEF Submit, NoCall
<1>2. left' = left /\ left' \in [Spendings -> Nat]
  BY <1>1 DEF WriterInv, Types
<1>3. CASE Ends(t, "closed") /\ UNCHANGED <<queue, fut, arrived>>
  BY <1>1, <1>2, <1>3, RefusedKeeps DEF writerVars
<1>4. CASE Ends(t, "full") /\ UNCHANGED <<queue, fut, arrived>>
  BY <1>1, <1>2, <1>4, RefusedKeeps DEF writerVars
<1>5. CASE Enqueue(o) /\ ToCall(t, "wait") /\ told' = told
  <2> PICK c : c = [pc |-> "wait", op |-> o]
    OBVIOUS
  <2>1. call' = [call EXCEPT ![t] = c]
    <3>1. [call[t] EXCEPT !.pc = "wait"] = c
      BY <1>1
    <3>2. call' = [call EXCEPT ![t] = [call[t] EXCEPT !.pc = "wait"]]
      BY <1>5 DEF ToCall
    <3> QED
      BY <3>1, <3>2
  <2>2. c \in Calls \ {NoCall} /\ c.op = o /\ c.pc = "wait"
    BY <1>1, WriterAssumption DEF Calls, NoCall
  <2>3. /\ queue' \in [Lanes -> Seq(Ops)] /\ fut' \in [Ops -> Futures] /\ arrived' \in Seq(Ops)
        /\ fut'[o] = "pending" /\ \A p \in Ops : p # o => fut'[p] = fut[p]
        /\ Places' /\ Order'
    BY <1>1, <1>5, EnqueueKeeps
  <2>4. call' \in [Threads -> Calls] /\ Callers' /\ Refusals' /\ Durable' /\ Frozen
    BY <1>1, <1>5, <2>1, <2>2, <2>3, CallGoesOn
  <2>5. Attempt'
    BY <1>1 DEF WriterInv, Attempt
  <2>6. Types'
    BY <1>1, <1>5, <2>3, <2>4 DEF WriterInv, Types
  <2> QED
    BY <2>3, <2>4, <2>5, <2>6 DEF WriterInv
<1> QED
  BY <1>3, <1>4, <1>5 DEF Submit

\* A post is dropped, or its op queued.
LEMMA PostSubmitKeeps ==
  ASSUME WriterInv, NEW t \in Threads, PostSubmit(t)
  PROVE  WriterInv' /\ Frozen
<1> PICK o : o = call[t].op
  OBVIOUS
<1>1. /\ o \in Ops /\ Fresh(o) /\ call[t].pc = "post" /\ UNCHANGED <<state, late, writer, txn, db, left>>
  BY CallFacts DEF PostSubmit, NoCall
<1>2. left' = left /\ left' \in [Spendings -> Nat]
  BY <1>1 DEF WriterInv, Types
<1>3. CASE Ends(t, "dropped") /\ UNCHANGED <<queue, fut, arrived>>
  BY <1>1, <1>2, <1>3, RefusedKeeps DEF writerVars
<1>4. CASE Ends(t, "posted") /\ Enqueue(o)
  <2>1. /\ queue' \in [Lanes -> Seq(Ops)] /\ fut' \in [Ops -> Futures] /\ arrived' \in Seq(Ops)
        /\ fut'[o] = "pending" /\ \A p \in Ops : p # o => fut'[p] = fut[p]
        /\ Places' /\ Order'
    BY <1>1, <1>4, EnqueueKeeps
  <2>2. /\ "posted" \in Answers \ {"none"} /\ ~Dead(o) /\ db' = db
        /\ fut'[o] \notin {"closed", "cancelled", "ok"}
    BY <1>1, <2>1 DEF Answers, Dead, Fresh
  <2> PICK r : r = "posted"
    OBVIOUS
  <2>3. /\ r \in Answers \ {"none"} /\ r \notin {"closed", "full", "active", "dropped", "ok"}
        /\ Ends(t, r) /\ call[t].pc # "idle" /\ left'.lost = left.lost
    BY <1>1, <1>2, <1>4, <2>2
  <2>4. \A p \in Ops : p # o => fut'[p] = fut[p] /\ (p \in ToSet(db') <=> p \in ToSet(db))
    BY <2>1, <2>2
  <2>5. call' \in [Threads -> Calls] /\ told' \in [Ops -> Answers] /\ Callers' /\ Refusals' /\ Durable' /\ Frozen
    BY <1>1, <2>2, <2>3, <2>4, EndsKeeps
  <2>6. Attempt'
    BY <1>1 DEF WriterInv, Attempt
  <2>7. Types'
    BY <1>1, <2>1, <2>5 DEF WriterInv, Types
  <2> QED
    BY <2>1, <2>5, <2>6, <2>7 DEF WriterInv
<1> QED
  BY <1>3, <1>4 DEF PostSubmit

\* A post is applied directly, begins, or is turned away at the gate.
LEMMA PostKeeps ==
  ASSUME WriterInv, NEW t \in Threads, NEW o \in Ops, Post(t, o)
  PROVE  WriterInv' /\ Frozen
<1>1. /\ call[t].pc = "idle" /\ told[o] = "none" /\ \A u \in Threads : call[u].op # o
      /\ UNCHANGED <<state, late, queue, fut, writer, txn, arrived, left>>
  BY DEF Post
<1>2. Attempt' /\ told \in [Ops -> Answers] /\ Fresh(o)
  BY <1>1 DEF WriterInv, Types, Attempt, Callers
<1>3. CASE db' = Append(db, o) /\ told' = [told EXCEPT ![o] = "posted"] /\ call' = call
  <2>1. db' \in Seq(Ops) /\ ToSet(db') = ToSet(db) \cup {o} /\ Places' /\ Order'
    BY <1>1, <1>2, <1>3, DirectKeeps
  <2>2. told' \in [Ops -> Answers] /\ Callers' /\ Refusals' /\ Durable' /\ Frozen
    BY <1>1, <1>3, <2>1, ToldKeeps
  <2>3. Types'
    BY <1>1, <1>3, <2>1, <2>2 DEF WriterInv, Types
  <2> QED
    BY <1>2, <2>1, <2>2, <2>3 DEF WriterInv
<1>4. CASE call' = [call EXCEPT ![t] = [pc |-> "post", op |-> o]] /\ UNCHANGED <<db, told>>
  <2> PICK c : c = [pc |-> "post", op |-> o]
    OBVIOUS
  <2>1. c \in Calls \ {NoCall} /\ c.op = o /\ c.pc # "wait"
    BY WriterAssumption DEF Calls, NoCall
  <2>2. call' \in [Threads -> Calls] /\ Callers' /\ Refusals' /\ Durable' /\ Frozen
    BY <1>1, <1>4, <2>1, CallGoesOn
  <2>3. Places' /\ Order'
    BY <1>1, <1>4, NothingMoves
  <2>4. Types'
    BY <1>1, <1>4, <2>2 DEF WriterInv, Types
  <2> QED
    BY <1>2, <2>2, <2>3, <2>4 DEF WriterInv
<1>5. CASE told' = [told EXCEPT ![o] = "dropped"] /\ UNCHANGED <<db, call>>
  <2>1. told' \in [Ops -> Answers] /\ Callers' /\ Refusals' /\ Durable' /\ Frozen
    BY <1>1, <1>5, ToldKeeps
  <2>2. Places' /\ Order'
    BY <1>1, <1>5, NothingMoves
  <2>3. Types'
    BY <1>1, <1>5, <2>1 DEF WriterInv, Types
  <2> QED
    BY <1>2, <2>1, <2>2, <2>3 DEF WriterInv
<1> QED
  BY <1>3, <1>4, <1>5 DEF Post

-----------------------------------------------------------------------------
(* Every step.                                                             *)

\* Nothing has happened at the start.
LEMMA WriterInitially == Init => WriterInv
<1> SUFFICES ASSUME Init PROVE WriterInv
  OBVIOUS
<1>1. /\ state = "idle" /\ late = FALSE /\ queue = [l \in Lanes |-> <<>>] /\ fut = [o \in Ops |-> "none"]
      /\ writer = [pc |-> "off", ops |-> <<>>, n |-> 1, tries |-> 0, failed |-> {}]
      /\ txn = <<>> /\ db = <<>> /\ arrived = <<>> /\ call = [t \in Threads |-> NoCall]
      /\ told = [o \in Ops |-> "none"] /\ left = Budget
  BY DEF Init, Off
<1>2. <<>> \in Seq(Ops) /\ Len(<<>>) = 0 /\ ToSet(<<>>) = {} /\ IsInjective(<<>>) /\ \A a : Sorted(a, <<>>)
  BY EmptyFacts
<1>3. writer \in Batch /\ writer.ops = <<>> /\ writer.n = 1 /\ writer.pc = "off" /\ writer.failed = {}
  <2>1. 0 \in 0..Retries /\ {} \in SUBSET Ops /\ 1 \in Nat \ {0}
    BY WriterAssumption
  <2> QED
    BY <1>1, <1>2, <2>1 DEF Batch
<1>4. call \in [Threads -> Calls] /\ told \in [Ops -> Answers] /\ fut \in [Ops -> Futures]
  BY <1>1 DEF Calls, Answers, Futures
<1>5. Types
  BY <1>1, <1>2, <1>3, <1>4, WriterAssumption DEF Types
<1>6. Callers /\ Refusals
  BY <1>1, <1>2 DEF Callers, Refusals, Fresh, Refused, Dead, NoCall
<1>7. Durable
  BY <1>1, WriterAssumption DEF Durable, Spendings
<1>8. Places
  BY <1>1, <1>2, <1>3 DEF Places
<1>9. Order
  <2>1. \A a, S : Ahead(a, {}, S) /\ Ahead(a, S, {})
    BY DEF Ahead
  <2> QED
    BY <1>1, <1>2, <1>3, <2>1 DEF Order
<1>10. Attempt
  BY <1>1, <1>2, <1>3, WriterAssumption DEF Attempt
<1> QED
  BY <1>5, <1>6, <1>7, <1>8, <1>9, <1>10 DEF WriterInv

\* No step breaks the invariant, and none takes back a refusal or an answer.
LEMMA WriterStepKeeps ==
  ASSUME WriterInv, [Next]_vars
  PROVE  WriterInv' /\ Frozen
<1>1. CASE UNCHANGED <<writerVars, callVars, left>>
  <2>1. /\ UNCHANGED <<state, late, queue, fut, writer, txn, db>> /\ UNCHANGED <<call, told, arrived, left>>
    BY <1>1 DEF writerVars, callVars
  <2>2. Types'
    BY <2>1 DEF WriterInv, Types
  <2>3. Callers' /\ Refusals' /\ Durable' /\ Frozen
    BY <2>1 DEF WriterInv, Callers, Refusals, Durable, Frozen, Fresh, Refused, Dead
  <2>4. Places' /\ Order' /\ Attempt'
    BY <2>1, NothingMoves
  <2> QED
    BY <2>2, <2>3, <2>4 DEF WriterInv
<1>2. CASE Start \/ Stop \/ DeadlinePasses \/ StopGivesUp
  BY <1>2, LifecycleKeeps, StopGivesUpKeeps
<1>3. CASE WriterStep
  BY <1>3, TakeKeeps, BeginKeeps, AttemptFailsKeeps, OpAppliesKeeps, OpFailsKeeps, OpEndsTransactionKeeps,
     CrashKeeps, PullKeeps, CommitKeeps, FinishKeeps DEF WriterStep
<1>4. ASSUME NEW t \in Threads, StartJob(t) PROVE WriterInv' /\ Frozen
  <2>1. UNCHANGED <<writerVars, callVars>> /\ Spend("job")
    BY <1>4 DEF StartJob
  <2>2. left' \in [Spendings -> Nat] /\ left'.lost = left.lost
    BY <2>1, SpendFacts DEF Spendings
  <2>3. /\ UNCHANGED <<state, late, queue, fut, writer, txn, db>> /\ UNCHANGED <<call, told, arrived>>
    BY <2>1 DEF writerVars, callVars
  <2>4. Types'
    BY <2>2, <2>3 DEF WriterInv, Types
  <2>5. Callers' /\ Refusals' /\ Durable' /\ Frozen
    BY <2>2, <2>3 DEF WriterInv, Callers, Refusals, Durable, Frozen, Fresh, Refused, Dead
  <2>6. Places' /\ Order' /\ Attempt'
    BY <2>3, NothingMoves
  <2> QED
    BY <2>4, <2>5, <2>6 DEF WriterInv
<1>5. ASSUME NEW t \in Threads, CallerStep(t) \/ TimeOut(t) PROVE WriterInv' /\ Frozen
  <2>1. CASE EndJob(t)
    BY <1>1, <2>1 DEF EndJob
  <2> QED
    BY <1>5, <2>1, PassGateKeeps, SubmitKeeps, ReturnKeeps, DirectCheckKeeps, DirectCommitKeeps,
       PostSubmitKeeps, TimeOutKeeps DEF CallerStep
<1>6. ASSUME NEW t \in Threads, NEW o \in Ops, CallWrite(t, o) \/ Post(t, o) PROVE WriterInv' /\ Frozen
  BY <1>6, CallWriteKeeps, PostKeeps
<1> QED
  BY <1>1, <1>2, <1>3, <1>4, <1>5, <1>6 DEF Next, vars

\* The gate's steps are those of its own specification.
LEMMA GateOfNext == [Next]_vars => [GateNext]_gateVars
<1> SUFFICES ASSUME [Next]_vars PROVE [GateNext]_gateVars
  OBVIOUS
<1>1. CASE UNCHANGED vars
  BY <1>1 DEF vars
<1>2. CASE Start \/ Stop \/ DeadlinePasses \/ StopGivesUp
  BY <1>2 DEF Start, Stop, DeadlinePasses, StopGivesUp
<1>3. CASE WriterStep
  BY <1>3 DEF WriterStep, Take, Begin, AttemptFails, OpApplies, OpFails, OpEndsTransaction,
     OpCrashesThread, Pull, Commit, Finish, writerFrame
<1>4. ASSUME NEW t \in Threads, StartJob(t) \/ CallerStep(t) \/ TimeOut(t) PROVE [GateNext]_gateVars
  BY <1>4 DEF StartJob, CallerStep, TimeOut, PassGate, Submit, Return, DirectCheck, DirectCommit, PostSubmit,
     EndJob, Ends, GateNext
<1>5. ASSUME NEW t \in Threads, NEW o \in Ops, CallWrite(t, o) \/ Post(t, o) PROVE [GateNext]_gateVars
  BY <1>5 DEF CallWrite, Post, GateNext
<1> QED
  BY <1>1, <1>2, <1>3, <1>4, <1>5 DEF Next

\* Who is past the gate stays inside it.
LEMMA InsideKeeps ==
  ASSUME WriterInv, GateInv, Inside, [Next]_vars
  PROVE  Inside'
<1>1. held \in [Threads -> Seq(BOOLEAN)] /\ call \in [Threads -> Calls]
  BY DEF GateInv, GateType, WriterInv, Types
<1>2. ASSUME UNCHANGED call, UNCHANGED held PROVE Inside'
  BY <1>2 DEF Inside
<1>3. ASSUME NEW t \in Threads, EnterProducer(t), \A u \in Threads : u # t => call'[u] = call[u] PROVE Inside'
  <2>1. held' = [held EXCEPT ![t] = Append(held[t], maint = t)]
    BY <1>3 DEF EnterProducer
  <2>2. held'[t] = Append(held[t], maint = t) /\ \A u \in Threads : u # t => held'[u] = held[u]
    BY <1>1, <2>1
  <2>3. \A s \in Seq(BOOLEAN) : \A b : Append(s, b) # <<>>
    OBVIOUS
  <2> QED
    BY <1>1, <1>3, <2>2, <2>3 DEF Inside
<1>4. ASSUME NEW t \in Threads, LeaveProducer(t) \/ EnterMaintenance(t) \/ LeaveMaintenance(t),
             call'[t].pc = "idle", \A u \in Threads : u # t => call'[u] = call[u]
      PROVE  Inside'
  <2>1. \A u \in Threads : u # t => held'[u] = held[u]
    BY <1>1, <1>4 DEF LeaveProducer, EnterMaintenance, LeaveMaintenance
  <2> QED
    BY <1>4, <2>1 DEF Inside
<1>5. ASSUME NEW t \in Threads, NEW r, Ends(t, r) PROVE Inside'
  <2>1. call' = [call EXCEPT ![t] = NoCall] /\ LeaveProducer(t)
    BY <1>5 DEF Ends
  <2>2. call'[t].pc = "idle" /\ \A u \in Threads : u # t => call'[u] = call[u]
    BY <1>1, <2>1 DEF NoCall
  <2> QED
    BY <1>4, <2>1, <2>2
<1>6. CASE UNCHANGED vars \/ Start \/ Stop \/ DeadlinePasses \/ StopGivesUp
  BY <1>2, <1>6 DEF Start, Stop, DeadlinePasses, StopGivesUp, vars, callVars, gateVars
<1>7. CASE WriterStep
  BY <1>2, <1>7 DEF WriterStep, Take, Begin, AttemptFails, OpApplies, OpFails, OpEndsTransaction,
     OpCrashesThread, Pull, Commit, Finish, writerFrame, callVars, gateVars
<1>8. ASSUME NEW t \in Threads, StartJob(t) \/ EndJob(t) PROVE Inside'
  <2>1. call' = call /\ call[t].pc = "idle"
    BY <1>8 DEF StartJob, EndJob, callVars
  <2>2. EnterProducer(t) \/ LeaveProducer(t) \/ EnterMaintenance(t) \/ LeaveMaintenance(t)
    BY <1>8 DEF StartJob, EndJob
  <2> QED
    BY <1>3, <1>4, <2>1, <2>2
<1>9. ASSUME NEW t \in Threads, ToCall(t, "wait") \/ ToCall(t, "directtx"), UNCHANGED gateVars,
             call[t].pc \in {"submit", "direct"}
      PROVE  Inside'
  <2>1. held' = held /\ \A u \in Threads : u # t => call'[u] = call[u]
    BY <1>1, <1>9 DEF ToCall, gateVars
  <2>2. held[t] # <<>>
    BY <1>9 DEF Inside
  <2> QED
    BY <2>1, <2>2 DEF Inside
<1>10. ASSUME NEW t \in Threads, CallerStep(t) \/ TimeOut(t) PROVE Inside'
  <2>1. CASE PassGate(t)
    BY <1>1, <1>3, <2>1 DEF PassGate, ToCall
  <2>2. CASE Submit(t)
    BY <1>5, <1>9, <2>2 DEF Submit
  <2>3. CASE DirectCheck(t)
    BY <1>5, <1>9, <2>3 DEF DirectCheck
  <2>4. CASE Return(t) \/ DirectCommit(t) \/ PostSubmit(t) \/ TimeOut(t)
    BY <1>5, <2>4 DEF Return, DirectCommit, PostSubmit, TimeOut
  <2> QED
    BY <1>8, <1>10, <2>1, <2>2, <2>3, <2>4 DEF CallerStep
<1>11. ASSUME NEW t \in Threads, NEW o \in Ops, CallWrite(t, o) PROVE Inside'
  <2>1. /\ call'[t].pc \in {"gate", "directgate"} /\ \A u \in Threads : u # t => call'[u] = call[u]
        /\ held' = held
    BY <1>1, <1>11 DEF CallWrite, gateVars
  <2> QED
    BY <2>1 DEF Inside
<1>12. ASSUME NEW t \in Threads, NEW o \in Ops, Post(t, o) PROVE Inside'
  <2>1. CASE UNCHANGED <<call, gateVars>>
    BY <1>2, <2>1 DEF gateVars
  <2>2. CASE EnterProducer(t) /\ call' = [call EXCEPT ![t] = [pc |-> "post", op |-> o]]
    BY <1>1, <1>3, <2>2
  <2> QED
    BY <1>12, <2>1, <2>2 DEF Post
<1> QED
  BY <1>6, <1>7, <1>8, <1>10, <1>11, <1>12 DEF Next

\* Only a caller that is past the gate queues an op.
LEMMA QueuedByCaller ==
  ASSUME WriterInv, [Next]_vars, NEW o \in Ops, fut[o] = "none", fut'[o] = "pending"
  PROVE  \E t \in Threads : call[t].pc \in {"submit", "post"} /\ call[t].op = o
<1>1. fut \in [Ops -> Futures] /\ fut' # fut
  BY DEF WriterInv, Types
<1>2. ~UNCHANGED vars /\ ~Start /\ ~Stop /\ ~DeadlinePasses
  BY <1>1 DEF vars, writerVars, Start, Stop, DeadlinePasses
<1>3. fut' # Dropped /\ \A s, bad : fut' # Settled(s, bad)
  BY DEF Dropped, Settled
<1>4. ~StopGivesUp /\ ~Finish
  BY <1>3 DEF StopGivesUp, Finish
<1>5. ~Begin /\ ~OpApplies /\ ~OpFails /\ ~AttemptFails /\ ~OpCrashesThread /\ ~OpEndsTransaction /\ ~Commit
  BY <1>1, <1>3 DEF Begin, OpApplies, OpFails, AttemptFails, OpCrashesThread, OpEndsTransaction, Commit,
     BatchFailed
<1>6. ~Taken
  BY <1>1 DEF Taken
<1>7. ~Take /\ ~Pull
  BY <1>6 DEF Take, Pull
<1>8. ASSUME NEW t \in Threads, StartJob(t) \/ EndJob(t) \/ PassGate(t) \/ Return(t) \/ DirectCheck(t)
                                \/ DirectCommit(t)
      PROVE  FALSE
  BY <1>1, <1>8 DEF StartJob, EndJob, PassGate, Return, DirectCheck, DirectCommit, writerVars
<1>9. ASSUME NEW t \in Threads, TimeOut(t) PROVE FALSE
  BY <1>1, <1>9 DEF TimeOut
<1>10. ASSUME NEW t \in Threads, NEW p \in Ops, CallWrite(t, p) \/ Post(t, p) PROVE FALSE
  BY <1>1, <1>10 DEF CallWrite, Post, writerVars
<1>11. ASSUME NEW p, Enqueue(p) PROVE p = o
  BY <1>1, <1>11 DEF Enqueue
<1>12. ASSUME NEW t \in Threads, Submit(t) \/ PostSubmit(t) PROVE call[t].pc \in {"submit", "post"} /\ call[t].op = o
  BY <1>1, <1>11, <1>12 DEF Submit, PostSubmit
<1> QED
  BY <1>2, <1>4, <1>5, <1>7, <1>8, <1>9, <1>10, <1>12 DEF Next, WriterStep, CallerStep

-----------------------------------------------------------------------------
(* The writer's contract.                                                  *)

\* The whole invariant: the writer's, the gate's, and who is inside.
WholeInv == WriterInv /\ GateInv /\ Inside

\* It holds at the start.
LEMMA WholeInitially == Init => WholeInv
<1> SUFFICES ASSUME Init PROVE WholeInv
  OBVIOUS
<1>1. WriterInv /\ GateInv
  BY WriterInitially, GateInitially DEF Init
<1>2. Inside
  BY DEF Init, Inside, NoCall
<1> QED
  BY <1>1, <1>2 DEF WholeInv

\* Every step keeps it.
LEMMA WholeStep == WholeInv /\ [Next]_vars => WholeInv' /\ Frozen
BY WriterStepKeeps, GateOfNext, GateStep, InsideKeeps DEF WholeInv

\* It always holds.
LEMMA WholeInvariant == Spec => []WholeInv
<1>1. WholeInv /\ [Next]_vars => WholeInv'
  BY WholeStep
<1> QED
  BY <1>1, WholeInitially, PTL DEF Spec

\* What is committed and what is about to be, one behind the other: each op once,
\* the ops of a lane in the order they arrived.
LEMMA Applied ==
  ASSUME WriterInv
  PROVE  IsInjective(db \o txn) /\ Sorted(arrived, db \o txn) /\ ToSet(db \o txn) = ToSet(db) \cup ToSet(txn)
<1>1. /\ txn \in Seq(Ops) /\ db \in Seq(Ops) /\ arrived \in Seq(Ops) /\ IsInjective(arrived) /\ IsInjective(db)
      /\ ToSet(txn) \subseteq ToSet(writer.ops) /\ ToSet(txn) \subseteq ToSet(arrived)
      /\ ToSet(db) \cap ToSet(txn) = {} /\ Sorted(arrived, db) /\ Sorted(arrived, txn)
  BY InvFacts DEF WriterInv, Types, Order
<1>2. Ahead(arrived, ToSet(db), ToSet(txn))
  BY <1>1 DEF WriterInv, Order, Ahead
<1>3. IsInjective(txn)
  BY <1>1, Distinct
<1> QED
  BY <1>1, <1>2, <1>3, ConcatFacts

\* Every variable of the writer keeps its type, and no Future is left unsettled
\* outside the queue and the batch.
THEOREM WriterTypeCorrect == Spec => []TypeOK
<1>1. WholeInv => TypeOK
  BY DEF WholeInv, WriterInv, Types, Places, Attempt, TypeOK, Batch, Calls, Answers
<1> QED
  BY <1>1, WholeInvariant, PTL

\* A result that a caller saw is committed (as long as no op lost the transaction),
\* whatever failed or was retried in its batch.
THEOREM SeenIsDurable == Spec => []OkIsDurable
<1>1. WholeInv => OkIsDurable
  BY DEF WholeInv, WriterInv, Durable, OkIsDurable
<1> QED
  BY <1>1, WholeInvariant, PTL

\* No op is applied twice, however often its batch is tried.
THEOREM OpsApplyOnce == Spec => []AppliedOnce
<1>1. WholeInv => AppliedOnce
  BY Applied DEF WholeInv, AppliedOnce
<1> QED
  BY <1>1, WholeInvariant, PTL

\* The ops of a lane are applied in the order they were queued, across batches,
\* retries and requeues.
THEOREM LanesKeepOrder == Spec => []LaneOrder
<1>1. WholeInv => LaneOrder
  <2> SUFFICES ASSUME WholeInv, NEW o \in ToSet(arrived), NEW p \in ToSet(arrived), Lane[o] = Lane[p],
                      Before(db \o txn, o, p)
               PROVE  Before(arrived, o, p)
    BY DEF LaneOrder
  <2>1. PICK i, j \in 1..Len(db \o txn) : i < j /\ (db \o txn)[i] = o /\ (db \o txn)[j] = p
    BY DEF Before
  <2>2. Sorted(arrived, db \o txn)
    BY Applied DEF WholeInv
  <2> QED
    BY <2>1, <2>2 DEF Sorted, Earlier
<1> QED
  BY <1>1, WholeInvariant, PTL

\* What a caller was told is refused, dropped or closed, or was cancelled before it
\* ran, is never applied, however late the writer meets it.
THEOREM RefusedStaysOut == Spec => RefusedNeverApplied
<1>1. WholeInv /\ WholeInv' /\ [Next]_vars =>
        [\A o \in Ops :
           told[o] \in {"closed", "full", "active", "dropped"} \/ fut[o] \in {"closed", "cancelled"}
           => fut'[o] = fut[o] /\ o \notin ToSet(db' \o txn')]_vars
  <2> SUFFICES ASSUME WholeInv, WholeInv', [Next]_vars, NEW o \in Ops, Refused(o) \/ Dead(o)
               PROVE  fut'[o] = fut[o] /\ o \notin ToSet(db' \o txn')
    BY DEF Refused, Dead
  <2>1. Frozen
    BY WholeStep
  <2>2. fut'[o] = fut[o] /\ (Refused(o)' \/ Dead(o)')
    BY <2>1 DEF WholeInv, WriterInv, Refusals, Frozen, Refused, Dead
  <2>3. o \notin ToSet(db')
    BY <2>2 DEF WholeInv, WriterInv, Refusals
  <2>4. fut'[o] # "running"
    BY <2>2 DEF WholeInv, WriterInv, Refusals, Dead
  <2>5. o \notin ToSet(txn')
    BY <2>4 DEF WholeInv, WriterInv, Places, Attempt
  <2>6. ToSet(db \o txn)' = ToSet(db)' \cup ToSet(txn)'
    BY ConcatFacts DEF WholeInv, WriterInv, Types
  <2> QED
    BY <2>2, <2>3, <2>5, <2>6
<1> QED
  BY <1>1, WholeInvariant, PTL DEF Spec, RefusedNeverApplied

\* While maintenance is active, only its owner gets an op queued: everybody else
\* that is past the gate would have kept maintenance out.
THEOREM MaintenanceHolds == Spec => MaintenanceHoldsBack
<1>1. WholeInv /\ [Next]_vars =>
        [\A o \in Ops :
           fut[o] = "none" /\ fut'[o] = "pending" /\ maint # None => call[maint].op = o]_vars
  <2> SUFFICES ASSUME WholeInv, [Next]_vars, NEW o \in Ops, fut[o] = "none", fut'[o] = "pending", maint # None
               PROVE  call[maint].op = o
    OBVIOUS
  <2>1. PICK t \in Threads : call[t].pc \in {"submit", "post"} /\ call[t].op = o
    BY QueuedByCaller DEF WholeInv
  <2>2. held[t] # <<>>
    BY <2>1 DEF WholeInv, Inside
  <2>3. GateExclusive
    BY DEF WholeInv, GateInv
  <2>4. t = maint
    BY <2>2, <2>3 DEF GateExclusive
  <2> QED
    BY <2>1, <2>4
<1> QED
  BY <1>1, WholeInvariant, PTL DEF Spec, MaintenanceHoldsBack

\* In the composition too, the gate counts exactly and excludes.
THEOREM GateHolds == Spec => []GateExclusive
<1>1. WholeInv => GateExclusive
  BY DEF WholeInv, GateInv
<1> QED
  BY <1>1, WholeInvariant, PTL
=============================================================================
