--------------------------- MODULE SearchIndexProofs ---------------------------
(***************************************************************************)
(* What a search index claims, proved for every number of assets and jobs, *)
(* every batch size and every number of disturbances: the state row names  *)
(* the one active job, a signature describes the metadata that is stored,  *)
(* and an index that is ready and has nothing left to do covers every      *)
(* active asset as it is now.  The last is about the whole life of a job:  *)
(* what its cursor has passed has a row of its present identity, or some   *)
(* metadata work or request after it is still to come or came to nothing.  *)
(***************************************************************************)
EXTENDS SearchIndex, FiniteSetTheorems, WellFoundedInduction, TLAPS

Ids == 1..MaxJobs
Modes == {"missing", "full"}
Asset == [src : Nat, on : BOOLEAN, meta : Nat, of : Nat]
Row == [st : Indexed \cup {"none", "failed"}, src : Nat, meta : Nat, late : BOOLEAN]
Extracted == [st : Indexed \cup {"failed"}, src : Nat, meta : Nat, late : BOOLEAN]
Job == [st : ActiveStates \cup {"none", "succeeded", "cancelled", "failed"}, mode : Modes,
        cursor : Assets \cup {0}, failed : BOOLEAN, lease : BOOLEAN]
State == [st : {"pending", "building", "ready", "degraded", "failed"}, indexed : Nat,
          active : Ids \cup {0}]
Batches == UNION {[S -> Nat] : S \in SUBSET Assets}
Steps == {"batch", "asset", "record", "finish"}
Worker == [step : Steps \cup {"idle", "dead"}, job : Ids \cup {0}, mode : Modes,
           cursor : Assets \cup {0}, batch : Batches, snap : Row, repaired : BOOLEAN,
           outcome : {"none", "succeeded", "cancelled", "failed"}]

Types ==
    /\ kind \in {"prompt", "signature"}
    /\ asset \in [Assets -> Asset] /\ \A a \in Live : asset[a].src > 0
    /\ todo \subseteq Assets /\ due \subseteq Assets /\ owed \subseteq Assets
    /\ row \in [Assets -> Row]
    /\ idx \in State /\ idx.indexed <= Cardinality(Assets)
    /\ job \in [Ids -> Job]
    /\ worker \in Worker
    /\ used \in Nat

(* The state row names the one active job, a lease is of a job that runs,   *)
(* and no index is ready while its job is being worked on.                  *)
OneActive ==
    /\ Active = (IF idx.active = 0 THEN {} ELSE {idx.active})
    /\ \A j \in Ids : job[j].lease => job[j].st \in Claimed
    /\ \A j \in Ids : job[j].st \in Claimed \cup {"interrupted"} => idx.st # "ready"

(* What the thread holds at each of its steps.                              *)
WorkerOK ==
    /\ worker.step \in Steps => worker.job \in Ids
    /\ worker.step \in {"asset", "record"} => DOMAIN worker.batch # {}
    /\ worker.step = "batch" => DOMAIN worker.batch = {}
    /\ worker.step = "record" => worker.snap \in Extracted
    /\ worker.step = "finish" => worker.outcome # "none"

(* Metadata work or a request for asset a is to come, or came to nothing;   *)
(* or a is not active, and what happens when it returns is seen then.       *)
Promised(a) == a \in todo \cup due \cup owed \/ a \notin Live
Kept(a)     == ~Missing(a) \/ Promised(a)

(* Every asset the cursor of an active job has passed is kept, unless one   *)
(* failed; and so is every asset the thread has passed and that is not in   *)
(* its batch.                                                               *)
Cursors ==
    \A j \in Active : ~job[j].failed =>
        \A a \in Assets : a <= job[j].cursor => Kept(a)
Ahead(a) ==
    \/ a \in DOMAIN worker.batch
    \/ a > worker.cursor /\ \A b \in DOMAIN worker.batch : b < a
Passed ==
    worker.step \in Steps /\ ~Lost /\ ~Mine.failed =>
        \A a \in Assets : \/ Kept(a)
                          \/ worker.step # "finish" /\ Ahead(a)
                          \/ worker.step = "finish" /\ worker.outcome # "succeeded"

(* The identity an asset was listed with is its present one, or the asset   *)
(* has changed since and neither has a row of it nor is forgotten.          *)
Snapped(a) ==
    /\ worker.batch[a] <= asset[a].src
    /\ \/ worker.batch[a] = asset[a].src
       \/ row[a].src # asset[a].src /\ Promised(a)

(* A row that is not late tells the stored metadata.                        *)
Told(r, a) == r.st \in Indexed /\ ~r.late => r.meta = asset[a].meta
Held ==
    /\ worker.step \in {"asset", "record"} /\ ~Lost => \A a \in DOMAIN worker.batch : Snapped(a)
    /\ worker.step = "record" =>
          /\ worker.snap.src = worker.batch[Current]
          /\ Told(worker.snap, Current)
Truthful ==
    \A a \in Assets :
        /\ row[a].src <= asset[a].src
        /\ Told(row[a], a)
        /\ kind = "signature" /\ row[a].st = "ready" => row[a].meta = asset[a].meta

(* An index that is ready while no job is active covers what is kept.       *)
Covered == idx.active = 0 /\ idx.st = "ready" => \A a \in Assets : Kept(a)

IndexInv ==
    /\ Types /\ OneActive /\ WorkerOK /\ Held
    /\ Cursors /\ Passed /\ Covered /\ Truthful

-----------------------------------------------------------------------------
(* Least elements, and the batch: the first of the assets listed.          *)

(* A set of numbers up to n has a least one.                                *)
LEMMA LeastExists ==
  ASSUME NEW n \in Nat, NEW S, S \subseteq 1..n, S # {}
  PROVE  \E x \in S : \A y \in S : x <= y
<1> DEFINE below(x) == {y \in S : y < x}
           D == {below(x) : x \in S}
<1>1. IsFiniteSet(S)
  <2>1. IsFiniteSet(1..n)
    BY FS_Interval
  <2> QED
    BY <2>1, FS_Subset
<1>2. IsWellFoundedOn(StrictSubsetOrdering(S), SUBSET S)
  BY <1>1, FS_StrictSubsetOrderingWellFounded, FS_FiniteSubsetsOfFinite
<1>3. D \subseteq SUBSET S /\ D # {}
  OBVIOUS
<1>4. PICK d \in D : \A e \in D : <<e, d>> \notin StrictSubsetOrdering(S)
  BY <1>2, <1>3, WFMin
<1>5. PICK x \in S : d = below(x)
  OBVIOUS
<1>6. ASSUME NEW y \in S, ~(x <= y) PROVE FALSE
  <2>1. x \in Nat /\ y \in Nat /\ S \subseteq Nat
    OBVIOUS
  <2>5. \A z \in S : z < y => z < x
    BY <1>6, <2>1
  <2>6. y < x /\ ~(y < y)
    BY <1>6, <2>1
  <2>2. below(y) \subseteq below(x) /\ y \in below(x) /\ y \notin below(y)
    BY <2>5, <2>6
  <2>3. below(y) \in D /\ below(y) \in SUBSET S /\ below(x) \in SUBSET S
    OBVIOUS
  <2> HIDE DEF below, D
  <2>4. <<below(y), below(x)>> \in StrictSubsetOrdering(S)
    BY <2>2, <2>3 DEF StrictSubsetOrdering
  <2> QED
    BY <1>4, <1>5, <2>3, <2>4
<1> QED
  BY <1>6

(* Assets are the numbers up to some n.                                     *)
LEMMA AssetsAreNumbers ==
  /\ Cardinality(Assets) \in Nat /\ IsFiniteSet(Assets)
  /\ \A a \in Assets : a \in Nat /\ a > 0
<1>1. IsFiniteSet(Assets) /\ Assets = 1..Cardinality(Assets)
  BY SearchIndexAssumption
<1>2. Cardinality(Assets) \in Nat
  BY <1>1, FS_CardinalityType
<1> QED
  BY <1>1, <1>2

(* Min is the least element where there is one.                             *)
LEMMA MinFacts ==
  ASSUME NEW n \in Nat, NEW S, S \subseteq 1..n, S # {}
  PROVE  Min(S) \in S /\ \A y \in S : Min(S) <= y
BY LeastExists DEF Min

(* A set of assets has a least one.                                         *)
LEMMA AssetMin ==
  ASSUME NEW S, S \subseteq Assets, S # {}
  PROVE  Min(S) \in S /\ \A y \in S : Min(S) <= y
<1>1. Assets = 1..Cardinality(Assets) /\ Cardinality(Assets) \in Nat
  BY SearchIndexAssumption, AssetsAreNumbers
<1> QED
  BY <1>1, MinFacts

(* A batch is not empty when something is listed, and comes before the rest.*)
LEMMA BatchFirst ==
  ASSUME NEW S, S \subseteq Assets
  PROVE  /\ FirstOf(S) \subseteq S
         /\ S # {} => FirstOf(S) # {}
         /\ \A a \in S \ FirstOf(S), b \in FirstOf(S) : b < a
<1> DEFINE below(a) == {b \in S : b < a}
<1>1. FirstOf(S) = {a \in S : Cardinality(below(a)) < BatchSize} /\ BatchSize \in Nat \ {0}
  BY SearchIndexAssumption DEF FirstOf
<1>2. ASSUME NEW a \in S PROVE IsFiniteSet(below(a)) /\ Cardinality(below(a)) \in Nat
  <2>1. IsFiniteSet(Assets) /\ below(a) \in SUBSET Assets
    BY AssetsAreNumbers
  <2> QED
    BY <2>1, FS_Subset, FS_CardinalityType
<1>3. S # {} => FirstOf(S) # {}
  <2> SUFFICES ASSUME S # {} PROVE Min(S) \in FirstOf(S)
    OBVIOUS
  <2>1. Min(S) \in S /\ \A y \in S : Min(S) <= y
    BY AssetMin
  <2>2. below(Min(S)) = {}
    BY <2>1, AssetsAreNumbers
  <2> QED
    BY <1>1, <2>1, <2>2, FS_EmptySet
<1>4. ASSUME NEW a \in S \ FirstOf(S), NEW b \in FirstOf(S), ~(b < a) PROVE FALSE
  <2>1. a \in S /\ b \in S /\ a <= b
    BY <1>1, <1>4, AssetsAreNumbers
  <2>2. below(a) \in SUBSET below(b)
    BY <2>1, AssetsAreNumbers
  <2>3. Cardinality(below(a)) <= Cardinality(below(b))
    BY <1>2, <2>1, <2>2, FS_Subset
  <2>4. Cardinality(below(b)) < BatchSize /\ ~(Cardinality(below(a)) < BatchSize)
    BY <1>1, <1>4, <2>1
  <2>5. Cardinality(below(a)) \in Nat /\ Cardinality(below(b)) \in Nat /\ BatchSize \in Nat
    BY <1>1, <1>2, <2>1
  <2> HIDE DEF below
  <2> QED
    BY <2>3, <2>4, <2>5
<1> QED
  BY <1>1, <1>3, <1>4

-----------------------------------------------------------------------------
(* What the actions are built from.                                        *)

(* A disturbance is counted.                                                *)
LEMMA SpendType ==
  ASSUME used \in Nat, Spend
  PROVE  used' \in Nat
BY DEF Spend

(* The empty batch, and one that is read or gets shorter.                   *)
LEMMA BatchTypes ==
  /\ <<>> \in Batches /\ DOMAIN <<>> = {}
  /\ \A b \in Batches : DOMAIN b \subseteq Assets /\ \A a \in DOMAIN b : b[a] \in Nat
  /\ \A b \in Batches, S \in SUBSET Assets : S \subseteq DOMAIN b => Restrict(b, S) \in Batches /\ DOMAIN Restrict(b, S) = S
<1>1. <<>> \in [{} -> Nat] /\ DOMAIN <<>> = {}
  BY SMT
<1>2. \A S \in SUBSET Assets : [S -> Nat] \subseteq Batches
  BY DEF Batches
<1>3. \A b \in Batches : \E S \in SUBSET Assets : b \in [S -> Nat]
  BY DEF Batches
<1>4. ASSUME NEW b \in Batches, NEW S \in SUBSET Assets, S \subseteq DOMAIN b
      PROVE  Restrict(b, S) \in Batches /\ DOMAIN Restrict(b, S) = S
  <2>1. Restrict(b, S) \in [S -> Nat] /\ S \in SUBSET Assets
    BY <1>3, <1>4 DEF Restrict
  <2> QED
    BY <1>2, <2>1
<1>5. \A b \in Batches : DOMAIN b \subseteq Assets /\ \A a \in DOMAIN b : b[a] \in Nat
  BY <1>3
<1> QED
  BY <1>1, <1>2, <1>4, <1>5

(* The thread at rest.                                                      *)
LEMMA IdleType == Idle \in Worker /\ NoRow \in Row /\ Idle.step = "idle"
BY BatchTypes DEF Idle, NoRow, Worker, Row, Modes, Indexed

(* Claims that lapsed: what is left is the one active job, or none.         *)
LEMMA ExpiredFacts ==
  ASSUME Types, OneActive, NEW lapsed, lapsed \subseteq {j \in Ids : job[j].st \in Claimed},
         NEW after, after = Expired(job, lapsed), NEW i, i = Released(idx, job, lapsed)
  PROVE  /\ after \in [Ids -> Job] /\ i \in State /\ i.indexed = idx.indexed
         /\ {j \in Ids : after[j].st \in ActiveStates} = (IF i.active = 0 THEN {} ELSE {i.active})
         /\ \A j \in Ids : /\ after[j].cursor = job[j].cursor /\ after[j].mode = job[j].mode
                           /\ after[j].failed = job[j].failed
                           /\ after[j].st \in ActiveStates => j \in Active
                           /\ after[j].lease => after[j].st \in Claimed
                           /\ after[j].st \in Claimed => j \notin lapsed
                           /\ after[j].st \in Claimed \cup {"interrupted"} => i.st # "ready"
         /\ i.st = "ready" => i = idx
<1>1. /\ job \in [Ids -> Job] /\ idx \in State
      /\ \A j \in Active : j = idx.active /\ idx.active # 0
      /\ lapsed \subseteq Active
      /\ idx.active # 0 => idx.active \in Active
  BY DEF Types, OneActive, Active, Ids, Claimed, ActiveStates
<1>2. \A j \in Ids : job[j] \in Job /\ after[j] = IF j \notin lapsed THEN job[j]
        ELSE [job[j] EXCEPT !.lease = FALSE,
                 !.st = IF job[j].st = "cancel_requested" THEN "cancelled" ELSE "interrupted"]
  BY <1>1 DEF Expired, Ids
<1>3. \A j \in Ids : /\ after[j] \in Job /\ after[j].cursor = job[j].cursor /\ after[j].mode = job[j].mode
                     /\ after[j].failed = job[j].failed
                     /\ j \in lapsed => ~after[j].lease /\
                          after[j].st = (IF job[j].st = "cancel_requested" THEN "cancelled" ELSE "interrupted")
                     /\ j \notin lapsed => after[j] = job[j]
  <2> TAKE j \in Ids
  <2>1. CASE j \notin lapsed
    BY <1>2, <2>1
  <2>2. CASE j \in lapsed
    <3>1. job[j] \in Job
      BY <1>2
    <3>2. CASE job[j].st = "cancel_requested"
      <4>1. after[j] = [job[j] EXCEPT !.lease = FALSE, !.st = "cancelled"]
        BY <1>2, <2>2, <3>2
      <4> QED
        BY <2>2, <3>1, <3>2, <4>1 DEF Job
    <3>3. CASE job[j].st # "cancel_requested"
      <4>1. after[j] = [job[j] EXCEPT !.lease = FALSE, !.st = "interrupted"]
        BY <1>2, <2>2, <3>3
      <4> QED
        BY <2>2, <3>1, <3>3, <4>1 DEF Job, ActiveStates
    <3> QED
      BY <3>2, <3>3
  <2> QED
    BY <2>1, <2>2
<1>4. after \in [Ids -> Job]
  BY <1>3 DEF Expired, Ids
<1>5. CASE lapsed = {}
  <2>1. i = idx /\ \A j \in Ids : after[j] = job[j]
    BY <1>3, <1>5 DEF Released
  <2> QED
    BY <1>1, <1>3, <1>4, <1>5, <2>1 DEF OneActive, Active, Ids, Claimed
<1>6. CASE lapsed # {}
  <2>1. lapsed = {idx.active} /\ idx.active \in Ids /\ idx.active # 0
    BY <1>1, <1>6 DEF Active, Ids
  <2>2. job[idx.active].st \in Claimed /\ idx.st # "ready"
    BY <2>1 DEF OneActive
  <2>3. CASE job[idx.active].st = "cancel_requested"
    <3>1. i = [idx EXCEPT !.active = 0]
      BY <2>1, <2>3 DEF Released
    <3>2. i \in State /\ i.indexed = idx.indexed /\ i.active = 0 /\ i.st = idx.st
      BY <1>1, <3>1 DEF State
    <3>3. \A j \in Ids : after[j].st \notin ActiveStates
      BY <1>1, <1>3, <2>1, <2>3 DEF Active, Ids, ActiveStates
    <3> QED
      BY <1>3, <1>4, <2>1, <2>2, <3>2, <3>3 DEF OneActive, Claimed, ActiveStates
  <2>4. CASE job[idx.active].st # "cancel_requested"
    <3>1. i = [idx EXCEPT !.st = IF idx.indexed > 0 THEN "degraded" ELSE "pending"]
      BY <2>1, <2>4 DEF Released
    <3>2. i \in State /\ i.indexed = idx.indexed /\ i.active = idx.active /\ i.st # "ready"
      BY <1>1, <3>1 DEF State
    <3>3. \A j \in Ids : after[j].st \in ActiveStates <=> j = idx.active
      BY <1>1, <1>3, <2>1, <2>4 DEF Active, Ids, ActiveStates
    <3> QED
      BY <1>1, <1>3, <1>4, <2>1, <2>2, <3>2, <3>3 DEF OneActive, Claimed, ActiveStates
  <2> QED
    BY <2>3, <2>4
<1> QED
  BY <1>5, <1>6

-----------------------------------------------------------------------------
(* Steps beside the index thread.                                          *)

(* What a step beside the thread may do to an asset: leave its identity     *)
(* and forget no promise that is needed, or change it and promise.          *)
Moves(a) ==
    /\ asset'[a].meta = asset[a].meta
    /\ \/ asset'[a].src = asset[a].src /\ (Missing(a) /\ Promised(a) => Promised(a)')
       \/ asset'[a].src > asset[a].src /\ Promised(a)'

(* A step that touches neither rows nor jobs.                               *)
LEMMA QuietKeeps ==
  ASSUME IndexInv, UNCHANGED <<kind, row, idx, job, worker>>,
         asset' \in [Assets -> Asset], \A a \in Live' : asset'[a].src > 0,
         \A a \in Assets : Moves(a),
         todo' \subseteq Assets, due' \subseteq Assets, owed' \subseteq Assets,
         used' \in Nat
  PROVE  IndexInv'
<1>1. \A a \in Assets : Kept(a) => Kept(a)'
  BY DEF Kept, Moves, Missing
<1>2. Types'
  BY DEF IndexInv, Types
<1>3. OneActive' /\ WorkerOK' /\ Active' = Active
  BY DEF IndexInv, OneActive, WorkerOK, Active
<1>4. Cursors'
  BY <1>1, <1>3 DEF IndexInv, Cursors
<1>5. Passed'
  <2>1. (Lost <=> Lost') /\ Mine' = Mine /\ \A a \in Assets : Ahead(a) <=> Ahead(a)'
    BY DEF Lost, Mine, Ahead
  <2> QED
    BY <1>1, <2>1 DEF IndexInv, Passed
<1>6. Covered'
  BY <1>1 DEF IndexInv, Covered
<1>7. \A a \in Assets : row[a].src \in Nat /\ asset[a].src \in Nat /\ asset'[a].src \in Nat
  BY DEF IndexInv, Types, Row, Asset
<1>8. Truthful'
  BY <1>7 DEF IndexInv, Truthful, Told, Moves
<1>9. Held'
  <2>1. worker.batch \in Batches
    BY DEF IndexInv, Types, Worker
  <2>2. ASSUME NEW a \in DOMAIN worker.batch, Snapped(a) PROVE Snapped(a)'
    <3>1. /\ a \in Assets /\ worker.batch[a] \in Nat /\ row[a].src <= asset[a].src
          /\ row[a].src \in Nat /\ asset[a].src \in Nat /\ asset'[a].src \in Nat
      BY <1>7, <2>1, BatchTypes DEF IndexInv, Truthful
    <3>2. CASE asset'[a].src = asset[a].src /\ (Missing(a) /\ Promised(a) => Promised(a)')
      BY <2>2, <3>1, <3>2 DEF Snapped, Missing
    <3>3. CASE asset'[a].src > asset[a].src /\ Promised(a)'
      BY <2>2, <3>1, <3>3 DEF Snapped
    <3> QED
      BY <3>1, <3>2, <3>3 DEF Moves
  <2>3. ASSUME worker.step = "record" PROVE Current \in Assets /\ Current' = Current
    <3>1. DOMAIN worker.batch # {} /\ DOMAIN worker.batch \subseteq Assets
      BY <2>1, <2>3, BatchTypes DEF IndexInv, WorkerOK
    <3> QED
      BY <3>1, AssetMin DEF Current
  <2>4. Lost <=> Lost'
    BY DEF Lost, Mine
  <2> QED
    BY <2>2, <2>3, <2>4 DEF IndexInv, Held, Told, Moves
<1> QED
  BY <1>2, <1>3, <1>4, <1>5, <1>6, <1>8, <1>9 DEF IndexInv

(* A step of the thread that changes nothing but what the thread holds.     *)
LEMMA ThreadKeeps ==
  ASSUME IndexInv, UNCHANGED <<kind, asset, todo, row, idx, job, due, owed>>,
         worker' \in Worker, used' \in Nat, WorkerOK', Held', Passed'
  PROVE  IndexInv'
<1>1. Types'
  BY DEF IndexInv, Types, Live
<1>2. OneActive' /\ Active' = Active
  BY DEF IndexInv, OneActive, Active
<1>3. \A a \in Assets : Kept(a) <=> Kept(a)'
  BY DEF Kept, Missing, Promised, Live
<1>4. Cursors'
  BY <1>2, <1>3 DEF IndexInv, Cursors
<1>5. Covered' /\ Truthful'
  BY <1>3 DEF IndexInv, Covered, Truthful, Told
<1> QED
  BY <1>1, <1>2, <1>4, <1>5 DEF IndexInv

(* A new identity is at work, or one that is only metadata work.            *)
LEMMA FileChangesKeeps ==
  ASSUME IndexInv, NEW a \in Assets, FileChanges(a) \/ MetadataAgain(a)
  PROVE  IndexInv'
<1>1. Types /\ used' \in Nat
  BY SpendType DEF IndexInv, Types, FileChanges, MetadataAgain
<1>2. CASE FileChanges(a)
  <2>1. asset[a] \in Asset /\ asset[a].src + 1 \in Nat /\ asset[a].src + 1 > asset[a].src
    BY <1>1 DEF Types, Asset
  <2>2. /\ asset' = [asset EXCEPT ![a] = [asset[a] EXCEPT !.src = asset[a].src + 1, !.on = TRUE]]
        /\ todo' = todo \cup {a} /\ UNCHANGED <<kind, row, idx, job, worker, due, owed>>
    BY <1>2 DEF FileChanges
  <2>3. PICK r \in Asset : /\ r = [asset[a] EXCEPT !.src = asset[a].src + 1, !.on = TRUE]
                          /\ r.src = asset[a].src + 1 /\ r.meta = asset[a].meta
    <3>1. \A on \in BOOLEAN :
             LET r == [asset[a] EXCEPT !.src = asset[a].src + 1, !.on = on]
             IN  r \in Asset /\ r.src = asset[a].src + 1 /\ r.meta = asset[a].meta
      BY <2>1 DEF Asset
    <3> QED
      BY <3>1, Zenon
  <2>4. asset' = [asset EXCEPT ![a] = r]
    BY <2>2, <2>3
  <2>7. /\ asset' \in [Assets -> Asset] /\ asset'[a].src = asset[a].src + 1
        /\ asset'[a].meta = asset[a].meta
        /\ \A b \in Assets : b # a => asset'[b] = asset[b]
    <3>1. asset \in [Assets -> Asset] /\ r \in Asset
      BY <1>1, <2>3 DEF Types
    <3>2. asset' \in [Assets -> Asset] /\ asset'[a] = r
      BY <2>4, <3>1
    <3> QED
      BY <2>3, <2>4, <3>1, <3>2
  <2>5. \A b \in Live' : asset'[b].src > 0
    <3>1. asset[a].src \in Nat /\ asset[a].src + 1 > 0
      BY <2>1 DEF Asset
    <3>2. \A b \in Live' : b \in Assets /\ (b # a => b \in Live)
      BY <2>7 DEF Live
    <3> QED
      BY <1>1, <2>7, <3>1, <3>2 DEF Types
  <2>6. \A b \in Assets : Moves(b)
    BY <2>1, <2>2, <2>7 DEF Moves, Promised, Live
  <2> QED
    BY <1>1, <2>2, <2>5, <2>6, <2>7, QuietKeeps DEF Types
<1>3. CASE MetadataAgain(a)
  <2>1. \A b \in Assets : Moves(b)
    BY <1>3 DEF MetadataAgain, Moves, Promised, Live
  <2> QED
    BY <1>1, <1>3, <2>1, QuietKeeps DEF Types, MetadataAgain, Live
<1> QED
  BY <1>2, <1>3

(* A file goes, or comes back as it was: then what is missing is owed.      *)
LEMMA FileMovesKeep ==
  ASSUME IndexInv, NEW a \in Assets, GoesOffline(a) \/ Returns(a)
  PROVE  IndexInv'
<1>1. Types /\ used' \in Nat
  BY SpendType DEF IndexInv, Types, GoesOffline, Returns
<1>2. PICK on \in BOOLEAN :
        /\ asset' = [asset EXCEPT ![a].on = on] /\ (on => asset[a].src > 0)
        /\ ~on => todo' = todo /\ owed' = owed
        /\ on => todo \subseteq todo' /\ todo' \subseteq Assets
                 /\ owed' = IF Missing(a) THEN owed \cup {a} ELSE owed
        /\ UNCHANGED <<kind, row, idx, job, worker, due>>
  BY <1>1 DEF GoesOffline, Returns, Types
<1>3. asset[a] \in Asset /\ asset'[a] = [asset[a] EXCEPT !.on = on]
      /\ \A b \in Assets : b # a => asset'[b] = asset[b]
  BY <1>1, <1>2 DEF Types
<1>4. /\ asset'[a] \in Asset /\ asset'[a].src = asset[a].src /\ asset'[a].meta = asset[a].meta
      /\ asset'[a].on = on
  BY <1>3 DEF Asset
<1>5. asset' \in [Assets -> Asset] /\ \A b \in Live' : asset'[b].src > 0
  BY <1>1, <1>2, <1>3, <1>4 DEF Types, Live
<1>6. \A b \in Assets : Moves(b)
  <2> TAKE b \in Assets
  <2>1. CASE b # a
    BY <1>2, <1>3, <2>1 DEF Moves, Promised, Live
  <2>2. CASE b = a /\ on
    BY <1>2, <1>4, <2>2 DEF Moves, Promised
  <2>3. CASE b = a /\ ~on
    BY <1>2, <1>4, <2>3 DEF Moves, Promised, Live
  <2> QED
    BY <2>1, <2>2, <2>3
<1>7. todo' \subseteq Assets /\ owed' \subseteq Assets
  BY <1>1, <1>2 DEF Types
<1> QED
  BY <1>1, <1>2, <1>5, <1>6, <1>7, QuietKeeps DEF Types

(* Metadata work ends without a commit.                                     *)
LEMMA NoMetadataKeeps ==
  ASSUME IndexInv, NEW a \in Assets, MetadataDropped(a) \/ MetadataFails(a)
  PROVE  IndexInv'
<1>1. Types /\ used' \in Nat
  BY SpendType DEF IndexInv, Types, MetadataDropped, MetadataFails
<1>2. /\ UNCHANGED <<kind, asset, row, idx, job, worker, due>> /\ todo' = todo \ {a}
      /\ a \in Live => owed' = IF Missing(a) THEN owed \cup {a} ELSE owed
      /\ owed \subseteq owed' /\ owed' \subseteq Assets
  BY <1>1 DEF MetadataDropped, MetadataFails, Types
<1>3. \A b \in Assets : Moves(b)
  BY <1>2 DEF Moves, Promised, Live
<1> QED
  BY <1>1, <1>2, <1>3, QuietKeeps DEF Types, Live

(* A new job starts at the first asset, and answers every request.          *)
LEMMA CreateKeeps ==
  ASSUME IndexInv, NEW mode \in Modes, Create(mode), UNCHANGED <<kind, asset, todo, row, worker>>,
         due' \subseteq Assets, used' \in Nat
  PROVE  IndexInv'
<1>1. Active = {} /\ MaxJobs \in Nat /\ \E j \in Ids : job[j].st = "none"
  BY SearchIndexAssumption DEF Create, CanCreate, Ids
<1>2. \E k \in Ids : job[k].st = "none" /\ \A m \in 1..(k - 1) : job[m].st # "none"
  <2> DEFINE S == {k \in Ids : job[k].st = "none"}
  <2>1. S \subseteq 1..MaxJobs /\ S # {}
    BY <1>1 DEF Ids
  <2> HIDE DEF S
  <2>2. PICK k \in S : \A y \in S : k <= y
    BY <1>1, <2>1, LeastExists
  <2>3. k \in Ids /\ job[k].st = "none"
    BY DEF S
  <2>4. \A m \in 1..(k - 1) : m \in Ids /\ m < k
    BY <2>3, <1>1 DEF Ids
  <2>5. \A m \in 1..(k - 1) : job[m].st # "none"
    BY <2>2, <2>3, <2>4 DEF S, Ids
  <2> QED
    BY <2>3, <2>5
<1>3. PICK j \in Ids :
        /\ job[j].st = "none" /\ owed' = {}
        /\ job' = [job EXCEPT ![j] = [NoJob EXCEPT !.st = "queued", !.mode = mode]]
        /\ idx' = [idx EXCEPT !.active = j,
                              !.st = IF @ \in {"ready", "degraded"} THEN @ ELSE "pending"]
  BY <1>2 DEF Create, Ids
<1>4. Types /\ job \in [Ids -> Job] /\ idx \in State
  BY DEF IndexInv, Types
<1>5. /\ job' \in [Ids -> Job] /\ job'[j].st = "queued" /\ job'[j].cursor = 0 /\ ~job'[j].lease
      /\ \A k \in Ids : k # j => job'[k] = job[k]
  BY <1>3, <1>4 DEF NoJob, Job, ActiveStates
<1>6. idx' \in State /\ idx'.active = j /\ idx'.indexed = idx.indexed
  BY <1>3, <1>4 DEF State
<1>7. Types'
  BY <1>3, <1>4, <1>5, <1>6 DEF Types, Live
<1>8. Active' = {j} /\ j # 0
  BY <1>1, <1>5 DEF Active, Ids, ActiveStates
<1>9. \A k \in Ids : job'[k].st \notin Claimed \cup {"interrupted"}
  BY <1>1, <1>5 DEF Active, Ids, Claimed, ActiveStates
<1>10. OneActive'
  BY <1>5, <1>6, <1>8, <1>9 DEF IndexInv, OneActive, Claimed
<1>11. WorkerOK' /\ Truthful' /\ Covered'
  BY <1>6, <1>8 DEF IndexInv, WorkerOK, Truthful, Told, Covered
<1>14. Held'
  BY <1>9, <1>11 DEF IndexInv, Held, WorkerOK, Lost, Mine, Told, Current, Steps
<1>12. Cursors'
  BY <1>5, <1>8, AssetsAreNumbers DEF Cursors
<1>13. Passed'
  BY <1>9, <1>11 DEF Passed, WorkerOK, Lost, Mine
<1> QED
  BY <1>7, <1>10, <1>11, <1>12, <1>13, <1>14 DEF IndexInv

(* A request makes a job, or is owed when it came to nothing.               *)
LEMMA RequestsKeep ==
  ASSUME IndexInv,
         \/ \E a \in Assets : Schedule(a)
         \/ StartupBackfill
         \/ \E mode \in Modes : Rebuild(mode)
  PROVE  IndexInv'
<1>1. Types /\ "missing" \in Modes
  BY DEF IndexInv, Modes
<1>2. CASE \E a \in Assets : Schedule(a)
  <2>1. PICK a \in Assets : Schedule(a)
    BY <1>2
  <2>2. /\ due' = due \ {a} /\ UNCHANGED <<kind, asset, todo, row, worker>>
        /\ used' \in Nat
    BY <1>1, <2>1, SpendType DEF Schedule, Types
  <2>3. CASE Create("missing")
    BY <1>1, <2>2, <2>3, CreateKeeps DEF Types
  <2>4. CASE owed' = owed \cup {a} /\ UNCHANGED <<idx, job>>
    <3>1. \A b \in Assets : Moves(b)
      BY <2>2, <2>4 DEF Moves, Promised, Live
    <3> QED
      BY <1>1, <2>2, <2>4, <3>1, QuietKeeps DEF Types, Live
  <2> QED
    BY <2>1, <2>3, <2>4 DEF Schedule, Backfill
<1>3. CASE StartupBackfill
  <2>1. UNCHANGED <<kind, asset, todo, row, worker, due>> /\ used' \in Nat
    BY <1>1, <1>3, SpendType DEF StartupBackfill, Types
  <2>2. CASE Create("missing")
    BY <1>1, <2>1, <2>2, CreateKeeps DEF Types
  <2>3. CASE UNCHANGED <<idx, job, owed>>
    <3>1. \A b \in Assets : Moves(b)
      BY <2>1, <2>3 DEF Moves, Promised, Live
    <3> QED
      BY <1>1, <2>1, <2>3, <3>1, QuietKeeps DEF Types, Live
  <2> QED
    BY <1>3, <2>2, <2>3 DEF StartupBackfill, Backfill
<1>4. CASE \E mode \in Modes : Rebuild(mode)
  BY <1>1, <1>4, CreateKeeps, SpendType DEF Types, Rebuild
<1> QED
  BY <1>2, <1>3, <1>4

(* A row in hand that is late is still a row.                               *)
LEMMA LateType ==
  ASSUME NEW r \in Row
  PROVE  \E s \in Row : /\ s = [r EXCEPT !.late = TRUE] /\ s.late
                        /\ s.src = r.src /\ (r \in Extracted => s \in Extracted)
<1>1. ASSUME NEW b \in BOOLEAN
      PROVE  /\ [r EXCEPT !.late = b] \in Row /\ [r EXCEPT !.late = b].late = b
             /\ [r EXCEPT !.late = b].src = r.src
             /\ r \in Extracted => [r EXCEPT !.late = b] \in Extracted
  BY DEF Row, Extracted
<1>2. TRUE \in BOOLEAN
  OBVIOUS
<1> QED
  BY <1>1, <1>2, Zenon

(* A metadata commit deletes the row, and a request for it is due.          *)
LEMMA CommitKeeps ==
  ASSUME IndexInv, NEW a \in Assets, MetadataCommit(a)
  PROVE  IndexInv'
<1>1. Types /\ OneActive /\ a \in Live
  BY DEF IndexInv, MetadataCommit
<1>2. /\ UNCHANGED <<kind, job, owed, used>> /\ due' = due \cup {a}
      /\ row' = [row EXCEPT ![a] = NoRow] /\ todo' = todo \ {a}
      /\ asset' = [asset EXCEPT ![a].meta = asset[a].meta + 1, ![a].of = asset[a].src]
  BY DEF MetadataCommit
<1>3. /\ asset' \in [Assets -> Asset] /\ Live' = Live
      /\ \A b \in Assets : asset'[b].src = asset[b].src
      /\ \A b \in Assets : b # a => asset'[b] = asset[b]
  <2>1. asset[a] \in Asset /\ asset[a].meta + 1 \in Nat /\ asset[a].src \in Nat
    BY <1>1 DEF Types, Asset
  <2>2. /\ asset'[a] = [asset[a] EXCEPT !.meta = asset[a].meta + 1, !.of = asset[a].src]
        /\ \A b \in Assets : b # a => asset'[b] = asset[b]
    BY <1>1, <1>2 DEF Types
  <2>3. asset'[a] \in Asset /\ asset'[a].src = asset[a].src /\ asset'[a].on = asset[a].on
    BY <2>1, <2>2 DEF Asset
  <2> QED
    BY <1>1, <1>2, <2>2, <2>3 DEF Types, Live
<1>4. /\ row' \in [Assets -> Row] /\ row'[a].st = "none" /\ row'[a].src = 0
      /\ \A b \in Assets : b # a => row'[b] = row[b]
  BY <1>1, <1>2, IdleType DEF Types, NoRow
<1>5. /\ idx' \in State /\ idx'.active = idx.active /\ idx'.indexed <= idx.indexed
      /\ idx'.st = "ready" => idx.st = "ready"
  <2>1. CASE kind = "prompt"
    <3> DEFINE left == IF row[a].st \in Indexed /\ idx.indexed > 0 THEN idx.indexed - 1 ELSE idx.indexed
               st == IF idx.active # 0 THEN "building" ELSE IF left > 0 THEN "degraded" ELSE "pending"
    <3>1. idx' = [idx EXCEPT !.indexed = left, !.st = st]
      BY <2>1 DEF MetadataCommit, Stale
    <3>2. left \in Nat /\ left <= idx.indexed
      BY <1>1 DEF Types, State
    <3>3. st \in {"building", "degraded", "pending"}
      OBVIOUS
    <3> HIDE DEF left, st
    <3> QED
      BY <1>1, <3>1, <3>2, <3>3 DEF Types, State
  <2>2. CASE kind # "prompt"
    BY <1>1, <2>2 DEF MetadataCommit, Types, State
  <2> QED
    BY <2>1, <2>2
<1>6. /\ worker' \in Worker
      /\ worker'.step = worker.step /\ worker'.job = worker.job /\ worker'.cursor = worker.cursor
      /\ worker'.batch = worker.batch /\ worker'.outcome = worker.outcome
      /\ worker'.snap.src = worker.snap.src
      /\ worker.snap \in Extracted => worker'.snap \in Extracted
      /\ worker.step = "record" /\ Current = a => worker'.snap.late
  <2>1. worker \in Worker /\ worker.snap \in Row
    BY <1>1 DEF Types, Worker
  <2>2. CASE worker.step = "record" /\ Current = a
    <3>1. worker' = [worker EXCEPT !.snap = [worker.snap EXCEPT !.late = TRUE]]
      BY <2>1, <2>2 DEF MetadataCommit, Worker
    <3>2. PICK s \in Row : /\ s = [worker.snap EXCEPT !.late = TRUE] /\ s.late
                           /\ s.src = worker.snap.src
                           /\ (worker.snap \in Extracted => s \in Extracted)
      BY <2>1, LateType
    <3>3. worker' = [worker EXCEPT !.snap = s]
      BY <3>1, <3>2
    <3> QED
      BY <2>1, <3>2, <3>3 DEF Worker
  <2>3. CASE ~(worker.step = "record" /\ Current = a)
    <3>1. worker' = worker
      BY <2>3 DEF MetadataCommit
    <3> QED
      BY <2>1, <2>3, <3>1 DEF Worker
  <2> QED
    BY <2>2, <2>3
<1>7. Types'
  <2>1. idx'.indexed <= Cardinality(Assets)
    BY <1>1, <1>5, AssetsAreNumbers DEF Types, State
  <2>2. todo' \subseteq Assets /\ due' \subseteq Assets /\ owed' \subseteq Assets /\ kind' = kind
    BY <1>1, <1>2 DEF Types
  <2>3. \A b \in Live' : asset'[b].src > 0
    BY <1>1, <1>3 DEF Types, Live
  <2> QED
    BY <1>1, <1>2, <1>3, <1>4, <1>5, <1>6, <2>1, <2>2, <2>3 DEF Types
<1>8. OneActive' /\ Active' = Active
  BY <1>1, <1>2, <1>5 DEF OneActive, Active
<1>9. \A b \in Assets : (Promised(b) => Promised(b)') /\ (Kept(b) => Kept(b)') /\ Promised(a)'
  BY <1>1, <1>2, <1>3, <1>4 DEF Kept, Missing, Promised
<1>10. /\ worker'.step = worker.step /\ worker'.job = worker.job /\ worker'.cursor = worker.cursor
       /\ worker'.batch = worker.batch /\ worker'.outcome = worker.outcome
  BY <1>6
<1>11. worker.step = "record" => worker.snap \in Extracted
  BY DEF IndexInv, WorkerOK
<1>12. worker.step = "record" => worker'.snap \in Extracted
  BY <1>6, <1>11
<1>13. WorkerOK' /\ Cursors'
  BY <1>2, <1>8, <1>9, <1>10, <1>12 DEF IndexInv, WorkerOK, Cursors
<1>14. Passed'
  <2>1. (Lost <=> Lost') /\ Mine' = Mine /\ \A b \in Assets : Ahead(b) <=> Ahead(b)'
    BY <1>2, <1>10 DEF Lost, Mine, Ahead
  <2> QED
    BY <1>9, <1>10, <2>1 DEF IndexInv, Passed
<1>15. Covered'
  BY <1>5, <1>9 DEF IndexInv, Covered
<1>16. Truthful'
  <2>1. 0 <= asset'[a].src
    BY <1>3 DEF Asset
  <2>2. ASSUME NEW b \in Assets, b # a
        PROVE  /\ row'[b].src <= asset'[b].src /\ Told(row[b], b)'
               /\ kind' = "signature" /\ row'[b].st = "ready" => row'[b].meta = asset'[b].meta
    BY <1>2, <1>3, <1>4, <2>2 DEF IndexInv, Truthful, Told
  <2> QED
    BY <1>4, <2>1, <2>2 DEF Truthful, Told, Indexed
<1>17. Held'
  <2>1. Current' = Current /\ (Lost <=> Lost')
    BY <1>2, <1>10 DEF Current, Lost, Mine
  <2>2. ASSUME NEW b \in DOMAIN worker.batch, Snapped(b) PROVE Snapped(b)'
    <3>1. b \in Assets
      BY <1>1, BatchTypes DEF Types, Worker
    <3>2. CASE b # a
      BY <1>3, <1>4, <1>9, <1>10, <2>2, <3>1, <3>2 DEF Snapped
    <3>3. CASE b = a
      <4>1. row'[a].src # asset'[a].src
        BY <1>1, <1>3, <1>4 DEF Types
      <4> QED
        BY <1>3, <1>9, <1>10, <2>2, <3>3, <4>1 DEF Snapped
    <3> QED
      BY <3>2, <3>3
  <2>3. ASSUME worker.step = "record"
        PROVE  worker'.snap.src = worker'.batch[Current'] /\ Told(worker.snap, Current)'
    <3>1. Current \in Assets /\ worker.snap \in Row /\ worker'.snap.src = worker.snap.src
      <4>1. DOMAIN worker.batch # {} /\ DOMAIN worker.batch \subseteq Assets
        BY <1>1, <2>3, BatchTypes DEF IndexInv, WorkerOK, Types, Worker
      <4> QED
        BY <1>1, <1>6, <4>1, AssetMin DEF Current, Types, Worker
    <3>2. CASE Current = a
      BY <1>6, <1>10, <2>1, <2>3, <3>1, <3>2 DEF IndexInv, Held, Told
    <3>3. CASE Current # a
      <4>1. worker' = worker
        BY <2>3, <3>3 DEF MetadataCommit
      <4> QED
        BY <1>3, <2>1, <2>3, <3>1, <3>3, <4>1 DEF IndexInv, Held, Told
    <3> QED
      BY <3>2, <3>3
  <2> QED
    BY <1>10, <2>1, <2>2, <2>3 DEF IndexInv, Held
<1> QED
  BY <1>7, <1>8, <1>13, <1>14, <1>15, <1>16, <1>17 DEF IndexInv

-----------------------------------------------------------------------------
(* The index thread.                                                       *)

(* A claim takes the active job where its cursor stands.                    *)
LEMMA ClaimKeeps ==
  ASSUME IndexInv, Claim
  PROVE  IndexInv'
<1> DEFINE lapsed == {j \in Ids : job[j].st \in Claimed /\ ~job[j].lease}
           after  == Expired(job, lapsed)
           i      == Released(idx, job, lapsed)
           ready  == {j \in Ids : after[j].st \in {"queued", "interrupted"}}
<1>1. Types /\ OneActive /\ worker.step = "idle" /\ UNCHANGED <<kind, asset, todo, row, due, owed, used>>
  BY DEF IndexInv, Claim
<1>2. lapsed \subseteq {j \in Ids : job[j].st \in Claimed}
  OBVIOUS
<1>3. /\ after \in [Ids -> Job] /\ i \in State /\ i.indexed = idx.indexed
      /\ {j \in Ids : after[j].st \in ActiveStates} = (IF i.active = 0 THEN {} ELSE {i.active})
      /\ \A j \in Ids : /\ after[j].cursor = job[j].cursor /\ after[j].mode = job[j].mode
                        /\ after[j].failed = job[j].failed
                        /\ after[j].st \in ActiveStates => j \in Active
                        /\ after[j].lease => after[j].st \in Claimed
                        /\ after[j].st \in Claimed => j \notin lapsed
                        /\ after[j].st \in Claimed \cup {"interrupted"} => i.st # "ready"
      /\ i.st = "ready" => i = idx
  BY <1>1, <1>2, ExpiredFacts
<1>4. \/ ready = {} /\ job' = after /\ idx' = i /\ worker' = worker
      \/ /\ ready # {}
         /\ LET j == Min(ready)
            IN /\ job' = [after EXCEPT ![j].st = "running", ![j].lease = TRUE]
               /\ idx' = [i EXCEPT !.st = "building", !.active = j]
               /\ worker' = [Idle EXCEPT !.step = "batch", !.job = j,
                                !.mode = after[j].mode, !.cursor = after[j].cursor]
  BY DEF Claim, Ids
<1>5. Types /\ WorkerOK /\ Cursors /\ Covered /\ Truthful /\ Held
  BY DEF IndexInv
<1>6. ready \subseteq Ids /\ \A j \in ready : after[j].st \in {"queued", "interrupted"}
  OBVIOUS
<1> HIDE DEF lapsed, after, i, ready
<1>7. Truthful' /\ \A a \in Assets : Kept(a) <=> Kept(a)'
  BY <1>1, <1>5 DEF Truthful, Told, Kept, Missing, Promised, Live
<1>8. CASE ready = {}
  <2>1. job' = after /\ idx' = i /\ worker' = worker
    BY <1>4, <1>8
  <2>2. Types' /\ WorkerOK' /\ Passed' /\ Held'
    BY <1>1, <1>3, <1>5, <2>1 DEF Types, Live, WorkerOK, Passed, Held, Steps
  <2>3. OneActive'
    BY <1>3, <2>1 DEF OneActive, Active, Ids
  <2>4. Active' \subseteq Active
    BY <1>3, <2>1 DEF Active, Ids
  <2>5. Cursors'
    BY <1>3, <1>5, <1>7, <2>1, <2>4 DEF Cursors, Active, Ids
  <2>6. Covered'
    BY <1>1, <1>3, <1>5, <1>7, <2>1 DEF Covered
  <2> QED
    BY <1>7, <2>2, <2>3, <2>5, <2>6 DEF IndexInv
<1>9. CASE ready # {}
  <2>1. Min(ready) \in ready
    BY <1>6, <1>9, MinFacts, SearchIndexAssumption DEF Ids
  <2>2. PICK j \in Ids : j = Min(ready) /\ after[j].st \in {"queued", "interrupted"}
    BY <1>6, <2>1
  <2>3. /\ job' = [after EXCEPT ![j].st = "running", ![j].lease = TRUE]
        /\ idx' = [i EXCEPT !.st = "building", !.active = j]
        /\ worker' = [Idle EXCEPT !.step = "batch", !.job = j,
                         !.mode = after[j].mode, !.cursor = after[j].cursor]
    BY <1>4, <1>9, <2>2
  <2>4. /\ job' \in [Ids -> Job] /\ job'[j].st = "running" /\ job'[j].lease
        /\ \A k \in Ids : job'[k].cursor = job[k].cursor /\ job'[k].failed = job[k].failed
        /\ \A k \in Ids : k # j => job'[k] = after[k]
    <3>1. after[j] \in Job /\ DOMAIN after = Ids
      BY <1>3
    <3>2. /\ job'[j] = [after[j] EXCEPT !.st = "running", !.lease = TRUE]
          /\ \A k \in Ids : k # j => job'[k] = after[k]
      BY <2>3, <3>1
    <3>3. /\ job'[j] \in Job /\ job'[j].st = "running" /\ job'[j].lease
          /\ job'[j].cursor = after[j].cursor /\ job'[j].failed = after[j].failed
      BY <3>1, <3>2 DEF Job, ActiveStates
    <3>4. job' \in [Ids -> Job]
      BY <1>3, <2>3, <3>2, <3>3
    <3> QED
      BY <1>3, <3>2, <3>3, <3>4
  <2>5. idx' \in State /\ idx'.st = "building" /\ idx'.active = j /\ idx'.indexed = i.indexed
    BY <1>3, <2>3 DEF State
  <2>6. after[j] \in Job /\ after[j].cursor = job[j].cursor
    BY <1>3
  <2>7. /\ worker' \in Worker /\ worker'.step = "batch" /\ worker'.job = j
        /\ worker'.cursor = job[j].cursor /\ worker'.batch = <<>>
    BY <2>3, <2>6, IdleType DEF Worker, Job, Idle, Steps
  <2>8. Types'
    BY <1>1, <1>3, <2>4, <2>5, <2>7 DEF Types, Live
  <2>9. j \in Active /\ i.active = j /\ j # 0
    BY <1>3, <2>2 DEF ActiveStates, Ids
  <2>10. Active' = {j}
    BY <1>3, <2>4, <2>9 DEF Active, Ids, ActiveStates
  <2>11. OneActive'
    BY <1>3, <2>4, <2>5, <2>9, <2>10 DEF OneActive, Claimed
  <2>12. WorkerOK' /\ Covered' /\ Held'
    BY <2>5, <2>7, <2>9, BatchTypes DEF WorkerOK, Covered, Held, Steps
  <2>13. Cursors'
    BY <1>5, <1>7, <2>4, <2>9, <2>10 DEF Cursors
  <2>14. Passed'
    <3>1. job[j].cursor \in Nat
      BY <1>1, AssetsAreNumbers DEF Types, Job
    <3>2. ~job'[j].failed => \A a \in Assets : Kept(a)' \/ a > worker'.cursor
      BY <1>5, <2>4, <1>7, <2>7, <2>9, <3>1, AssetsAreNumbers DEF Cursors
    <3> QED
      BY <2>7, <3>2, BatchTypes DEF Passed, Ahead, Mine
  <2> QED
    BY <1>7, <2>8, <2>11, <2>12, <2>13, <2>14 DEF IndexInv
<1> QED
  BY <1>8, <1>9

(* What the thread's record is after it moves on.                           *)
LEMMA EndingType ==
  ASSUME worker \in Worker, NEW o \in {"succeeded", "cancelled", "failed"}, Ending(o)
  PROVE  /\ worker' \in Worker /\ worker'.step = "finish" /\ worker'.outcome = o
         /\ worker'.job = worker.job
BY DEF Worker, Ending, Steps

(* A job that ends without success owes nothing.                            *)
LEMMA GiveUpKeeps ==
  ASSUME IndexInv, worker.step \in Steps, NEW o \in {"cancelled", "failed"}, Ending(o),
         UNCHANGED <<kind, asset, todo, row, idx, job, due, owed>>, used' \in Nat
  PROVE  IndexInv'
<1>1. /\ worker' \in Worker /\ worker'.step = "finish" /\ worker'.outcome = o
      /\ worker'.job = worker.job
  BY EndingType DEF IndexInv, Types
<1>2. WorkerOK' /\ Passed' /\ Held'
  BY <1>1 DEF IndexInv, WorkerOK, Passed, Held, Steps
<1> QED
  BY <1>1, <1>2, ThreadKeeps

(* The thread lets its job go.                                              *)
LEMMA LetGoKeeps ==
  ASSUME IndexInv, worker' = Idle \/ worker' = [Idle EXCEPT !.step = "dead"],
         UNCHANGED <<kind, asset, todo, row, idx, job, due, owed>>, used' \in Nat
  PROVE  IndexInv'
<1>1. worker' \in Worker /\ worker'.step \in {"idle", "dead"}
  BY IdleType DEF Worker
<1>2. WorkerOK' /\ Passed' /\ Held'
  BY <1>1 DEF WorkerOK, Passed, Held, Steps
<1> QED
  BY <1>1, <1>2, ThreadKeeps

(* The thread goes on under its claim with what it still has ahead.         *)
LEMMA GoesOnKeeps ==
  ASSUME IndexInv, UNCHANGED <<kind, asset, todo, row, idx, job, due, owed>>,
         used' \in Nat, worker' \in Worker, worker'.job = worker.job,
         worker.step \in Steps, worker'.step \in {"asset", "record", "batch"}, WorkerOK', Held',
         ~Lost /\ ~Mine.failed => \A a \in Assets : Kept(a) \/ Ahead(a)'
  PROVE  IndexInv'
<1>1. (Lost <=> Lost') /\ Mine' = Mine /\ \A a \in Assets : Kept(a) <=> Kept(a)'
  BY DEF Lost, Mine, Kept, Missing, Promised, Live
<1>2. Passed'
  BY <1>1 DEF Passed, Steps
<1> QED
  BY <1>2, ThreadKeeps

(* The next batch: the first of what is missing behind the cursor.          *)
LEMMA NextBatchKeeps ==
  ASSUME IndexInv, NextBatch
  PROVE  IndexInv'
<1>1. /\ worker.step = "batch" /\ worker.step \in Steps
      /\ UNCHANGED <<kind, asset, todo, row, idx, job, due, owed, used>>
  BY DEF NextBatch, Steps
<1>2. /\ worker \in Worker /\ worker.job \in Ids /\ DOMAIN worker.batch = {}
      /\ used' \in Nat /\ asset \in [Assets -> Asset]
      /\ worker.batch \in Batches /\ Listed \subseteq Assets
  BY <1>1 DEF IndexInv, Types, WorkerOK, Worker, Listed, Live
<1>3. ASSUME ~Lost, ~Mine.failed, NEW a \in Assets PROVE Kept(a) \/ a > worker.cursor
  BY <1>1, <1>2, <1>3 DEF IndexInv, Passed, Ahead
<1>4. CASE worker' = Idle
  BY <1>1, <1>2, <1>4, LetGoKeeps
<1>5. CASE Ending("cancelled")
  BY <1>1, <1>2, <1>5, GiveUpKeeps
<1>6. CASE Listed # {} /\ worker' = [worker EXCEPT !.step = "asset", !.batch = Snapshot(FirstOf(Listed))]
  <2>1. FirstOf(Listed) \subseteq Listed /\ FirstOf(Listed) # {}
    BY <1>2, <1>6, BatchFirst
  <2>2. Snapshot(FirstOf(Listed)) \in [FirstOf(Listed) -> Nat]
    BY <1>2, <2>1 DEF Snapshot, Asset
  <2>3. Snapshot(FirstOf(Listed)) \in Batches /\ DOMAIN Snapshot(FirstOf(Listed)) = FirstOf(Listed)
    BY <1>2, <2>1, <2>2 DEF Batches
  <2>4. /\ worker' \in Worker /\ worker'.step = "asset" /\ worker'.job = worker.job
        /\ worker'.cursor = worker.cursor /\ DOMAIN worker'.batch = FirstOf(Listed)
    BY <1>2, <1>6, <2>3 DEF Worker, Steps
  <2>5. WorkerOK'
    BY <1>2, <2>1, <2>4 DEF WorkerOK
  <2>7. Held'
    <3>1. worker'.batch = Snapshot(FirstOf(Listed))
      BY <1>2, <1>6 DEF Worker
    <3>2. ASSUME NEW a \in FirstOf(Listed) PROVE worker'.batch[a] = asset[a].src /\ asset[a].src \in Nat
      BY <1>2, <2>1, <3>1, <3>2 DEF Snapshot, Asset
    <3> QED
      BY <1>1, <2>4, <3>2 DEF Held, Snapped
  <2>6. ASSUME ~Lost, ~Mine.failed, NEW a \in Assets, ~Kept(a) PROVE Ahead(a)'
    <3>1. a > worker.cursor
      BY <1>3, <2>6
    <3>2. a \in Listed
      BY <1>2, <2>6, <3>1 DEF Listed, Kept, Promised
    <3>3. a \in FirstOf(Listed) \/ \A b \in FirstOf(Listed) : b < a
      BY <1>2, <3>2, BatchFirst
    <3> QED
      BY <2>4, <3>1, <3>3 DEF Ahead
  <2> QED
    BY <1>1, <1>2, <2>4, <2>5, <2>6, <2>7, GoesOnKeeps
<1>7. CASE /\ worker' = [worker EXCEPT !.repaired = TRUE, !.mode = "missing", !.cursor = 0]
  <2>1. /\ worker' \in Worker /\ worker'.step = "batch" /\ worker'.job = worker.job
        /\ worker'.cursor = 0 /\ DOMAIN worker'.batch = {}
    BY <1>1, <1>2, <1>7 DEF Worker, Modes
  <2>2. WorkerOK' /\ Held' /\ \A a \in Assets : Ahead(a)'
    BY <1>2, <2>1, AssetsAreNumbers DEF WorkerOK, Held, Ahead
  <2> QED
    BY <1>1, <1>2, <2>1, <2>2, GoesOnKeeps
<1>8. CASE ~Lost /\ Listed = {} /\ Ending("succeeded")
  <2>1. /\ worker' \in Worker /\ worker'.step = "finish" /\ worker'.outcome = "succeeded"
        /\ worker'.job = worker.job
    BY <1>2, <1>8, EndingType
  <2>2. ~Mine.failed => \A a \in Assets : Kept(a)
    BY <1>2, <1>3, <1>8 DEF Listed, Kept, Promised
  <2>3. (~Mine.failed => \A a \in Assets : Kept(a)') /\ Mine' = Mine
    BY <1>1, <2>1, <2>2 DEF Kept, Missing, Promised, Live, Mine
  <2>4. WorkerOK' /\ Passed' /\ Held'
    BY <1>2, <2>1, <2>3 DEF WorkerOK, Passed, Held
  <2> QED
    BY <1>1, <1>2, <2>1, <2>4, ThreadKeeps
<1> QED
  BY <1>4, <1>5, <1>6, <1>7, <1>8 DEF NextBatch

(* The asset in hand is the first of the batch.                             *)
LEMMA CurrentFacts ==
  ASSUME IndexInv, worker.step \in {"asset", "record"}
  PROVE  /\ Current \in DOMAIN worker.batch /\ Current \in Assets
         /\ worker.batch[Current] \in Nat /\ asset[Current] \in Asset
         /\ \A b \in DOMAIN worker.batch : Current <= b
         /\ FailedRow \in Extracted /\ FailedRow.st = "failed"
         /\ FailedRow.src = worker.batch[Current] /\ Told(FailedRow, Current)
         /\ worker.job \in Ids /\ worker.step \in Steps
<1>1. /\ worker.batch \in Batches /\ DOMAIN worker.batch # {} /\ worker.job \in Ids
      /\ asset \in [Assets -> Asset] /\ worker.step \in Steps
  BY DEF IndexInv, Types, Worker, WorkerOK, Steps
<1>2. DOMAIN worker.batch \subseteq Assets /\ \A a \in DOMAIN worker.batch : worker.batch[a] \in Nat
  BY <1>1, BatchTypes
<1>3. Current \in DOMAIN worker.batch /\ \A b \in DOMAIN worker.batch : Current <= b
  BY <1>1, <1>2, AssetMin DEF Current
<1>4. /\ FailedRow \in Extracted /\ FailedRow.st = "failed"
      /\ FailedRow.src = worker.batch[Current] /\ Told(FailedRow, Current)
  BY <1>1, <1>2, <1>3 DEF FailedRow, NoRow, Extracted, Indexed, Told
<1> QED
  BY <1>1, <1>2, <1>3, <1>4

(* An extraction, or its failure, is in hand.                               *)
LEMMA InHandKeeps ==
  ASSUME IndexInv, worker.step \in {"asset", "record"},
         NEW r \in Extracted, r.src = worker.batch[Current], Told(r, Current),
         worker' = [worker EXCEPT !.step = "record", !.snap = r],
         UNCHANGED <<kind, asset, todo, row, idx, job, due, owed>>, used' \in Nat
  PROVE  IndexInv'
<1>1. worker \in Worker /\ worker.job \in Ids /\ DOMAIN worker.batch # {} /\ worker.step \in Steps
  BY CurrentFacts DEF IndexInv, Types, WorkerOK
<1>2. /\ worker' \in Worker /\ worker'.step = "record" /\ worker'.job = worker.job
      /\ worker'.cursor = worker.cursor /\ worker'.batch = worker.batch /\ worker'.snap = r
  BY <1>1 DEF Worker, Extracted, Row, Steps
<1>3. WorkerOK'
  BY <1>1, <1>2 DEF WorkerOK
<1>4. ASSUME ~Lost, ~Mine.failed, NEW a \in Assets PROVE Kept(a) \/ Ahead(a)'
  BY <1>1, <1>2, <1>4 DEF IndexInv, Passed, Ahead
<1>5. Held'
  <2>1. Current' = Current /\ (Lost <=> Lost')
    BY <1>2 DEF Current, Lost, Mine
  <2>2. \A a \in DOMAIN worker.batch : Snapped(a) => Snapped(a)'
    BY <1>2 DEF Snapped, Promised, Live
  <2> QED
    BY <1>2, <2>1, <2>2 DEF IndexInv, Held, Told
<1> QED
  BY <1>1, <1>2, <1>3, <1>4, <1>5, GoesOnKeeps

(* The extractor runs off the writer.                                       *)
LEMMA ExtractKeeps ==
  ASSUME IndexInv, Extract
  PROVE  IndexInv'
<1>1. /\ worker.step = "asset" /\ UNCHANGED <<kind, asset, todo, row, idx, job, due, owed>>
      /\ used \in Nat
  BY DEF IndexInv, Types, Extract
<1>2. /\ Current \in DOMAIN worker.batch /\ worker.batch[Current] \in Nat
      /\ asset[Current] \in Asset /\ FailedRow \in Extracted /\ worker.step \in Steps
      /\ FailedRow.src = worker.batch[Current] /\ Told(FailedRow, Current)
  BY <1>1, CurrentFacts
<1> DEFINE r == ExtractedRow
<1>3. r \in Extracted /\ r.src = worker.batch[Current] /\ Told(r, Current)
  <2> DEFINE st == IF kind = "signature" /\ asset[Current].of # worker.batch[Current] THEN "blank" ELSE "ready"
  <2>1. r = [NoRow EXCEPT !.st = st, !.src = worker.batch[Current], !.meta = asset[Current].meta]
    BY DEF ExtractedRow
  <2>2. st \in Indexed
    BY DEF Indexed
  <2> HIDE DEF st, r
  <2> QED
    BY <1>2, <2>1, <2>2 DEF Extracted, Told, NoRow, Asset
<1>4. \/ Ending("cancelled") /\ used' = used
      \/ worker' = [worker EXCEPT !.step = "record", !.snap = r] /\ used' = used
      \/ worker' = [worker EXCEPT !.step = "record", !.snap = FailedRow] /\ Spend
  BY DEF Extract
<1> HIDE DEF r
<1>5. used' \in Nat
  BY <1>1, <1>4, SpendType
<1>6. CASE Ending("cancelled")
  BY <1>1, <1>2, <1>5, <1>6, GiveUpKeeps
<1>7. CASE worker' = [worker EXCEPT !.step = "record", !.snap = r]
  BY <1>1, <1>3, <1>5, <1>7, InHandKeeps
<1>8. CASE worker' = [worker EXCEPT !.step = "record", !.snap = FailedRow]
  BY <1>1, <1>2, <1>5, <1>8, InHandKeeps
<1> QED
  BY <1>4, <1>6, <1>7, <1>8

(* A row is stored with its job's cursor, under the claim.                  *)
LEMMA StoreKeeps ==
  ASSUME IndexInv, worker.step = "record", ~Lost, ~SourceMoved, Store(Current, worker.snap),
         UNCHANGED <<kind, asset, todo, idx, due, owed, used>>
  PROVE  IndexInv'
<1>0. PICK a \in Assets, j \in Ids, left \in SUBSET Assets :
        a = Current /\ j = worker.job /\ left = DOMAIN worker.batch \ {a}
  <2>1. Current \in Assets /\ worker.job \in Ids /\ DOMAIN worker.batch \subseteq Assets
    BY CurrentFacts, BatchTypes DEF IndexInv, Types, Worker
  <2>2. DOMAIN worker.batch \ {Current} \in SUBSET Assets
    BY <2>1
  <2> QED
    BY <2>1, <2>2
<1>1. /\ a \in DOMAIN worker.batch /\ a \in Assets /\ \A b \in DOMAIN worker.batch : a <= b
      /\ j \in Ids /\ worker.step \in Steps
  BY <1>0, CurrentFacts
<1>2. Types /\ OneActive /\ worker.snap \in Extracted
  BY DEF IndexInv, WorkerOK
<1>3. /\ row' = [row EXCEPT ![a] = Recorded(a, worker.snap)]
      /\ job' = [job EXCEPT ![j].cursor = a, ![j].failed = @ \/ worker.snap.st = "failed"]
      /\ worker' = [worker EXCEPT !.cursor = a, !.snap = NoRow,
                       !.batch = Restrict(worker.batch, left),
                       !.step = IF left = {} THEN "batch" ELSE "asset"]
  BY <1>0 DEF Store
<1>4. row[a] \in Row /\ worker.snap \in Row /\ row \in [Assets -> Row] /\ job \in [Ids -> Job]
  BY <1>1, <1>2 DEF Types, Extracted, Row
<1>5. /\ row' \in [Assets -> Row]
      /\ row'[a] = row[a] \/ row'[a] = worker.snap
      /\ \A b \in Assets : b # a => row'[b] = row[b]
  BY <1>1, <1>3, <1>4 DEF Recorded
<1>6. /\ job' \in [Ids -> Job] /\ job'[j].cursor = a /\ job'[j].st = job[j].st
      /\ ~job'[j].failed => ~job[j].failed /\ worker.snap.st # "failed"
      /\ job'[j].lease = job[j].lease /\ \A k \in Ids : k # j => job'[k] = job[k]
  <2>1. job[j] \in Job /\ (job[j].failed \/ worker.snap.st = "failed") \in BOOLEAN
    BY <1>1, <1>4
  <2>2. /\ job'[j] = [job[j] EXCEPT !.cursor = a, !.failed = job[j].failed \/ worker.snap.st = "failed"]
        /\ \A k \in Ids : k # j => job'[k] = job[k]
    BY <1>1, <1>3, <1>4
  <2> DEFINE failed == job[j].failed \/ worker.snap.st = "failed"
  <2>3. job'[j] = [job[j] EXCEPT !.cursor = a, !.failed = failed] /\ failed \in BOOLEAN
    BY <2>1, <2>2
  <2> HIDE DEF failed
  <2>4. /\ job'[j] \in Job /\ job'[j].cursor = a /\ job'[j].st = job[j].st
        /\ job'[j].lease = job[j].lease /\ job'[j].failed = failed
    BY <1>1, <2>1, <2>3 DEF Job
  <2>5. job' \in [Ids -> Job]
    BY <1>3, <1>4, <2>2, <2>4
  <2>6. ~job'[j].failed => ~job[j].failed /\ worker.snap.st # "failed"
    BY <2>4 DEF failed
  <2> QED
    BY <2>2, <2>4, <2>5, <2>6
<1>7. left \subseteq DOMAIN worker.batch /\ worker.batch \in Batches /\ worker \in Worker
  BY <1>0, <1>2 DEF Types, Worker
<1>8. Restrict(worker.batch, left) \in Batches /\ DOMAIN Restrict(worker.batch, left) = left
  BY <1>7, BatchTypes
<1>9. /\ worker' \in Worker /\ worker'.job = j /\ worker'.cursor = a
      /\ DOMAIN worker'.batch = left /\ worker'.batch = Restrict(worker.batch, left)
      /\ worker'.step = (IF left = {} THEN "batch" ELSE "asset")
  <2> DEFINE step == IF left = {} THEN "batch" ELSE "asset"
             batch == Restrict(worker.batch, left)
  <2>1. /\ step \in {"batch", "asset"} /\ batch \in Batches /\ DOMAIN batch = left
        /\ worker' = [worker EXCEPT !.cursor = a, !.snap = NoRow, !.batch = batch, !.step = step]
    BY <1>3, <1>8
  <2> HIDE DEF step, batch
  <2>2. /\ worker' \in Worker /\ worker'.job = worker.job /\ worker'.cursor = a
        /\ worker'.batch = batch /\ worker'.step = step
    BY <1>1, <1>7, <2>1, IdleType DEF Worker, Steps
  <2> QED
    BY <1>0, <2>1, <2>2 DEF step, batch
<1>10. Types'
  BY <1>2, <1>5, <1>6, <1>9 DEF Types, Live
<1>11. Active' = Active /\ j \in Active
  BY <1>0, <1>1, <1>6 DEF Active, Ids, Lost, Mine, Claimed, ActiveStates
<1>12. OneActive'
  BY <1>2, <1>6, <1>11 DEF OneActive
<1>13. WorkerOK'
  BY <1>1, <1>9 DEF WorkerOK, Steps
<1>21. /\ worker.snap.src = worker.batch[a] /\ Told(worker.snap, a)
       /\ \A b \in DOMAIN worker.batch : Snapped(b)
  BY <1>0 DEF IndexInv, Held
<1>22. /\ \A b \in Assets : Promised(b) <=> Promised(b)'
       /\ \A b \in Assets : b # a /\ Kept(b) => Kept(b)'
  BY <1>5 DEF Kept, Missing, Promised, Live
<1>14. ASSUME ~job'[j].failed PROVE ~Mine.failed /\ Kept(a)'
  <2>1. row'[a] = worker.snap /\ worker.snap.st \in Indexed /\ ~Mine.failed
    BY <1>0, <1>2, <1>3, <1>4, <1>6, <1>14 DEF Recorded, Extracted, Mine
  <2>2. CASE worker.batch[a] = asset[a].src
    BY <1>21, <2>1, <2>2 DEF Kept, Missing, Indexed
  <2>3. CASE worker.batch[a] # asset[a].src
    BY <1>1, <1>21, <1>22, <2>1, <2>3 DEF Snapped, Kept
  <2> QED
    BY <2>1, <2>2, <2>3
<1>15. ~Mine.failed => \A b \in Assets : Kept(b) \/ Ahead(b)
  BY <1>1 DEF IndexInv, Passed
<1>16. ASSUME ~job'[j].failed, NEW b \in Assets, b <= a PROVE Kept(b)'
  <2>1. CASE b = a
    BY <1>14, <1>16, <2>1
  <2>2. CASE b # a
    <3>1. ~(a <= b) /\ ~(a < b)
      BY <1>1, <1>16, <2>2, AssetsAreNumbers
    <3>2. Kept(b)
      BY <1>1, <1>14, <1>15, <1>16, <3>1 DEF Ahead
    <3> QED
      BY <1>22, <2>2, <3>2
  <2> QED
    BY <2>1, <2>2
<1>17. Cursors'
  <2>1. Active = {j}
    BY <1>2, <1>11 DEF OneActive
  <2> QED
    BY <1>6, <1>11, <1>16, <2>1 DEF Cursors
<1>18. Passed'
  <2>1. ASSUME ~job'[j].failed, NEW b \in Assets, ~Kept(b)' PROVE Ahead(b)'
    <3>1. b > a /\ b # a
      BY <1>1, <1>16, <2>1, AssetsAreNumbers
    <3>2. b \in DOMAIN worker.batch \/ \A c \in DOMAIN worker.batch : c < b
      BY <1>14, <1>15, <1>22, <2>1, <3>1 DEF Ahead
    <3> QED
      BY <1>0, <1>9, <3>1, <3>2 DEF Ahead
  <2> QED
    BY <1>9, <2>1 DEF Passed, Mine
<1>19. Covered'
  BY <1>2, <1>11 DEF OneActive, Covered
<1>20. Truthful'
  <2>1. ASSUME NEW b \in Assets, b # a
        PROVE  /\ row'[b].src <= asset'[b].src /\ Told(row[b], b)'
               /\ kind' = "signature" /\ row'[b].st = "ready" => row'[b].meta = asset'[b].meta
    BY <1>5, <2>1 DEF IndexInv, Truthful, Told
  <2>2. CASE row'[a] = row[a]
    BY <1>1, <2>1, <2>2 DEF IndexInv, Truthful, Told
  <2>3. CASE row'[a] = worker.snap
    <3>1. kind = "signature" /\ worker.snap.st = "ready" => worker.snap.meta = asset[a].meta
      BY <1>0 DEF SourceMoved
    <3>2. worker.snap.src <= asset[a].src
      BY <1>1, <1>21 DEF Snapped
    <3> QED
      BY <1>21, <2>1, <2>3, <3>1, <3>2 DEF Truthful, Told
  <2> QED
    BY <1>5, <2>2, <2>3
<1>23. Held'
  <2>1. ASSUME NEW b \in left PROVE Snapped(b)'
    <3>1. b \in DOMAIN worker.batch /\ b # a /\ b \in Assets /\ worker'.batch[b] = worker.batch[b]
      BY <1>0, <1>9, <2>1 DEF Restrict
    <3>2. row'[b] = row[b] /\ Snapped(b)
      BY <1>5, <1>21, <3>1
    <3> QED
      BY <1>22, <3>1, <3>2 DEF Snapped
  <2> QED
    BY <1>9, <2>1 DEF Held
<1> QED
  BY <1>10, <1>12, <1>13, <1>17, <1>18, <1>19, <1>20, <1>23 DEF IndexInv

(* The persist: refused without the claim, failed when the source moved.    *)
LEMMA RecordKeeps ==
  ASSUME IndexInv, Record
  PROVE  IndexInv'
<1>1. /\ worker.step = "record" /\ UNCHANGED <<kind, asset, todo, idx, due, owed>>
      /\ used \in Nat
  BY DEF IndexInv, Types, Record
<1>2. CASE worker' = Idle /\ UNCHANGED <<row, job, used>>
  BY <1>1, <1>2, LetGoKeeps
<1>3. CASE RecordFailed /\ UNCHANGED <<row, job>> /\ (used' = used \/ Spend)
  <2>1. used' \in Nat
    BY <1>1, <1>3, SpendType
  <2>2. worker' = [worker EXCEPT !.step = "record", !.snap = FailedRow] /\ FailedRow \in Extracted
        /\ FailedRow.src = worker.batch[Current] /\ Told(FailedRow, Current)
    BY <1>1, <1>3, CurrentFacts DEF RecordFailed, IndexInv, Types, Worker
  <2> QED
    BY <1>1, <1>3, <2>1, <2>2, InHandKeeps
<1>4. CASE ~Lost /\ ~SourceMoved /\ Store(Current, worker.snap) /\ used' = used
  BY <1>1, <1>4, StoreKeeps
<1> QED
  BY <1>2, <1>3, <1>4 DEF Record

(* The end of a job: ready is what has a row for every asset, none failed.  *)
LEMMA FinishKeeps ==
  ASSUME IndexInv, Finish
  PROVE  IndexInv'
<1>1. worker.step = "finish" /\ worker' = Idle /\ UNCHANGED <<kind, asset, todo, row, due, owed, used>>
  BY DEF Finish
<1>2. Types /\ OneActive /\ worker.job \in Ids /\ worker.outcome \in {"succeeded", "cancelled", "failed"}
  BY <1>1 DEF IndexInv, WorkerOK, Types, Worker, Steps
<1>3. CASE Lost
  BY <1>1, <1>2, <1>3, LetGoKeeps DEF Finish, Types
<1>4. CASE ~Lost
  <2> DEFINE j == worker.job
             indexed == Cardinality({a \in Live : row[a].st \in Indexed})
             failed  == Mine.failed \/ \E a \in Live : row[a].st = "failed"
             st == IF worker.outcome = "succeeded" THEN IF failed THEN "degraded" ELSE "ready"
                   ELSE IF indexed > 0 \/ Live = {} THEN "degraded"
                   ELSE IF worker.outcome = "failed" THEN "failed" ELSE "pending"
  <2>1. /\ idx' = [idx EXCEPT !.indexed = indexed, !.active = 0, !.st = st]
        /\ job' = [job EXCEPT ![j].st = worker.outcome, ![j].lease = FALSE]
    BY <1>4 DEF Finish, Closing
  <2>2. indexed \in Nat /\ indexed <= Cardinality(Assets)
    <3>1. {a \in Live : row[a].st \in Indexed} \in SUBSET Assets
      BY DEF Live
    <3> QED
      BY <3>1, AssetsAreNumbers, FS_Subset, FS_CardinalityType
  <2>3. /\ st \in {"degraded", "ready", "failed", "pending"}
        /\ st = "ready" => worker.outcome = "succeeded" /\ ~Mine.failed
    OBVIOUS
  <2> HIDE DEF indexed, failed, st
  <2>4. /\ idx' \in State /\ idx'.active = 0 /\ idx'.indexed = indexed /\ idx'.st = st
    BY <1>2, <2>1, <2>2, <2>3 DEF Types, State
  <2>5. /\ job' \in [Ids -> Job] /\ job'[j].st = worker.outcome /\ ~job'[j].lease
        /\ \A k \in Ids : k # j => job'[k] = job[k]
    BY <1>2, <2>1 DEF Types, Job, ActiveStates
  <2>6. Types'
    BY <1>1, <1>2, <2>2, <2>4, <2>5, IdleType DEF Types, Live
  <2>7. Active = {j} /\ Active' = {}
    BY <1>2, <1>4, <2>5 DEF OneActive, Active, Ids, Lost, Mine, Claimed, ActiveStates
  <2>8. \A k \in Ids : job'[k].st \notin Claimed \cup {"interrupted"}
    BY <2>7 DEF Active, Ids, Claimed, ActiveStates
  <2>9. OneActive'
    BY <1>2, <2>4, <2>5, <2>7, <2>8 DEF OneActive
  <2>10. WorkerOK' /\ Passed' /\ Cursors' /\ Held'
    BY <1>1, <2>7, IdleType DEF WorkerOK, Passed, Cursors, Held, Steps, Idle
  <2>11. Covered'
    <3> SUFFICES ASSUME idx'.st = "ready", NEW a \in Assets PROVE Kept(a)'
      BY DEF Covered
    <3>1. Kept(a)
      BY <1>1, <1>4, <2>3, <2>4 DEF IndexInv, Passed, Steps
    <3> QED
      BY <1>1, <3>1 DEF Kept, Missing, Promised, Live
  <2>12. Truthful'
    BY <1>1 DEF IndexInv, Truthful, Told
  <2> QED
    BY <2>6, <2>9, <2>10, <2>11, <2>12 DEF IndexInv
<1> QED
  BY <1>3, <1>4

(* An exception ends the job as failed, or the thread with it.              *)
LEMMA RaiseKeeps ==
  ASSUME IndexInv, Raise
  PROVE  IndexInv'
<1>1. UNCHANGED <<kind, asset, todo, row, idx, job, due, owed>> /\ used' \in Nat
  BY SpendType DEF IndexInv, Types, Raise
<1>2. CASE worker.step \in Steps /\ Ending("failed")
  BY <1>1, <1>2, GiveUpKeeps
<1>3. CASE worker' = [Idle EXCEPT !.step = "dead"]
  BY <1>1, <1>3, LetGoKeeps
<1> QED
  BY <1>2, <1>3 DEF Raise, Steps

-----------------------------------------------------------------------------
(* Cancellations, lapsed leases and restarts.                              *)

(* A job that waits is cancelled at once, one that runs is asked to stop.   *)
LEMMA CancelKeeps ==
  ASSUME IndexInv, NEW j \in Ids, Cancel(j)
  PROVE  IndexInv'
<1>1. /\ Types /\ OneActive /\ UNCHANGED <<kind, asset, todo, row, worker, due, owed>>
      /\ used' \in Nat
  BY SpendType DEF IndexInv, Types, Cancel
<1>2. job[j] \in Job /\ idx \in State /\ job \in [Ids -> Job]
  BY <1>1 DEF Types
<1>3. Truthful' /\ WorkerOK' /\ \A a \in Assets : (Kept(a) <=> Kept(a)') /\ (Promised(a) <=> Promised(a)')
  BY <1>1 DEF IndexInv, Truthful, Told, WorkerOK, Kept, Missing, Promised, Live
<1>6. ASSUME worker.step \in Steps /\ Lost => Lost' PROVE Held'
  <2>1. Current' = Current
    BY <1>1 DEF Current
  <2>2. worker.batch \in Batches
    BY <1>1 DEF Types, Worker
  <2>3. \A a \in DOMAIN worker.batch : a \in Assets /\ (Snapped(a) => Snapped(a)')
    BY <1>1, <1>3, <2>2, BatchTypes DEF Snapped
  <2> QED
    BY <1>1, <1>6, <2>1, <2>3 DEF IndexInv, Held, Told, Steps
<1>4. CASE job[j].st \in {"queued", "interrupted"}
  <2>1. job' = [job EXCEPT ![j].st = "cancelled"]
    BY <1>4 DEF Cancel
  <2>2. /\ job' \in [Ids -> Job] /\ job'[j].st = "cancelled" /\ job'[j].lease = job[j].lease
        /\ \A k \in Ids : k # j => job'[k] = job[k]
    BY <1>2, <2>1 DEF Job
  <2>3. Active = {j} /\ idx.active = j /\ j # 0
    BY <1>1, <1>4 DEF OneActive, Active, Ids, ActiveStates
  <2>4. idx' = [idx EXCEPT !.active = 0, !.st = IF idx.indexed > 0 THEN "degraded" ELSE "pending"]
    BY <1>4, <2>3 DEF Cancel
  <2>5. idx' \in State /\ idx'.active = 0 /\ idx'.indexed = idx.indexed /\ idx'.st # "ready"
    BY <1>2, <2>4 DEF State
  <2>6. Types'
    BY <1>1, <2>2, <2>5 DEF Types, Live
  <2>7. Active' = {}
    BY <2>2, <2>3 DEF Active, Ids, ActiveStates
  <2>8. \A k \in Ids : job'[k].st \notin Claimed
    BY <2>7 DEF Active, Ids, Claimed, ActiveStates
  <2>9. OneActive'
    BY <1>1, <1>4, <2>2, <2>5, <2>7 DEF OneActive, Claimed
  <2>10. Passed' /\ Cursors' /\ Covered'
    BY <1>3, <2>5, <2>7, <2>8 DEF Passed, WorkerOK, Lost, Mine, Cursors, Covered
  <2>11. Held'
    <3>1. worker.step \in Steps => Lost'
      BY <1>1, <1>3, <2>8 DEF IndexInv, WorkerOK, Lost, Mine
    <3> QED
      BY <1>6, <3>1
  <2> QED
    BY <1>3, <2>6, <2>9, <2>10, <2>11 DEF IndexInv
<1>5. CASE job[j].st = "running" /\ idx' = idx
  <2>1. job' = [job EXCEPT ![j].st = "cancel_requested"]
    BY <1>5 DEF Cancel
  <2>2. /\ job' \in [Ids -> Job] /\ job'[j].st = "cancel_requested" /\ job'[j].lease = job[j].lease
        /\ job'[j].cursor = job[j].cursor /\ job'[j].failed = job[j].failed
        /\ \A k \in Ids : k # j => job'[k] = job[k]
    BY <1>2, <2>1 DEF Job, ActiveStates
  <2>3. Types'
    BY <1>1, <1>5, <2>2 DEF Types, Live
  <2>4. Active' = Active
    BY <1>5, <2>2 DEF Active, Ids, ActiveStates
  <2>5. OneActive'
    BY <1>1, <1>5, <2>2, <2>4 DEF OneActive, Claimed
  <2>6. Cursors' /\ Covered'
    BY <1>1, <1>3, <1>5, <2>2, <2>4 DEF IndexInv, Cursors, Covered, Active, Ids
  <2>7. Passed'
    <3>1. \A a \in Assets : Ahead(a) <=> Ahead(a)'
      BY <1>1 DEF Ahead
    <3>2. worker.step \in Steps => (Lost <=> Lost') /\ Mine'.failed = Mine.failed
      BY <1>1, <1>5, <2>2 DEF Lost, Mine, Claimed, IndexInv, WorkerOK
    <3> QED
      BY <1>1, <1>3, <3>1, <3>2 DEF IndexInv, Passed
  <2>8. Held'
    BY <1>1, <1>5, <1>6, <2>2 DEF Lost, Mine, Claimed, IndexInv, WorkerOK
  <2> QED
    BY <1>3, <2>3, <2>5, <2>6, <2>7, <2>8 DEF IndexInv
<1> QED
  BY <1>4, <1>5 DEF Cancel

(* A lapsed lease only takes the claim away.                                *)
LEMMA LapseKeeps ==
  ASSUME IndexInv, LeaseLapses
  PROVE  IndexInv'
<1>1. /\ Types /\ OneActive /\ UNCHANGED <<kind, asset, todo, row, idx, worker, due, owed>>
      /\ used' \in Nat
  BY SpendType DEF IndexInv, Types, LeaseLapses
<1>2. PICK j \in Ids : job[j].st \in Claimed /\ job' = [job EXCEPT ![j].lease = FALSE]
  BY DEF LeaseLapses, Ids
<1>3. /\ job' \in [Ids -> Job] /\ ~job'[j].lease /\ job'[j].st = job[j].st
      /\ job'[j].cursor = job[j].cursor /\ job'[j].failed = job[j].failed
      /\ \A k \in Ids : k # j => job'[k] = job[k]
  BY <1>1, <1>2 DEF Types, Job
<1>4. Types' /\ Active' = Active
  BY <1>1, <1>3 DEF Types, Live, Active, Ids
<1>5. OneActive'
  BY <1>1, <1>3, <1>4 DEF OneActive
<1>6. \A a \in Assets : (Ahead(a) <=> Ahead(a)') /\ (Kept(a) <=> Kept(a)') /\ (Promised(a) <=> Promised(a)')
  BY <1>1 DEF Ahead, Kept, Missing, Promised, Live
<1>7. WorkerOK' /\ Truthful' /\ Covered'
  BY <1>1, <1>6 DEF IndexInv, WorkerOK, Truthful, Told, Covered
<1>8. Cursors'
  BY <1>1, <1>3, <1>4, <1>6 DEF IndexInv, Cursors, Active, Ids
<1>9. worker.step \in Steps => (Lost => Lost') /\ Mine'.failed = Mine.failed
  BY <1>1, <1>3 DEF Lost, Mine, IndexInv, WorkerOK
<1>10. Passed'
  BY <1>1, <1>6, <1>9 DEF IndexInv, Passed
<1>11. Held'
  <2>1. Current' = Current
    BY <1>1 DEF Current
  <2>2. worker.batch \in Batches
    BY <1>1 DEF Types, Worker
  <2>3. \A a \in DOMAIN worker.batch : a \in Assets /\ (Snapped(a) => Snapped(a)')
    BY <1>1, <1>6, <2>2, BatchTypes DEF Snapped
  <2> QED
    BY <1>1, <1>9, <2>1, <2>3 DEF IndexInv, Held, Told, Steps
<1> QED
  BY <1>4, <1>5, <1>7, <1>8, <1>10, <1>11 DEF IndexInv

(* A restart interrupts the job, and forgets requests that were due.        *)
LEMMA RestartKeeps ==
  ASSUME IndexInv, Restart
  PROVE  IndexInv'
<1> DEFINE held == {j \in Ids : job[j].st \in Claimed}
           after == Expired(job, held)
           i == Released(idx, job, held)
<1>1. /\ Types /\ OneActive /\ Covered /\ UNCHANGED <<kind, asset, todo, row>>
      /\ worker' = Idle /\ owed' = owed \cup due /\ due' = {} /\ used' \in Nat
      /\ job' = after /\ idx' = i
  BY SpendType DEF IndexInv, Types, Restart, Ids
<1>2. held \subseteq {j \in Ids : job[j].st \in Claimed}
  OBVIOUS
<1>3. /\ after \in [Ids -> Job] /\ i \in State /\ i.indexed = idx.indexed
      /\ {j \in Ids : after[j].st \in ActiveStates} = (IF i.active = 0 THEN {} ELSE {i.active})
      /\ \A j \in Ids : /\ after[j].cursor = job[j].cursor /\ after[j].failed = job[j].failed
                        /\ after[j].st \in ActiveStates => j \in Active
                        /\ after[j].lease => after[j].st \in Claimed
                        /\ after[j].st \in Claimed \cup {"interrupted"} => i.st # "ready"
      /\ i.st = "ready" => i = idx
  BY <1>1, <1>2, ExpiredFacts
<1> HIDE DEF held, after, i
<1>4. Types'
  BY <1>1, <1>3, IdleType DEF Types, Live
<1>5. OneActive' /\ Active' \subseteq Active
  BY <1>1, <1>3 DEF OneActive, Active, Ids
<1>6. WorkerOK' /\ Passed' /\ Held' /\ Truthful'
  BY <1>1, IdleType DEF IndexInv, WorkerOK, Passed, Held, Truthful, Told, Steps, Idle
<1>7. \A a \in Assets : Kept(a) => Kept(a)'
  BY <1>1 DEF Kept, Missing, Promised, Live
<1>8. Cursors'
  BY <1>1, <1>3, <1>5, <1>7 DEF IndexInv, Cursors, Active, Ids
<1>9. Covered'
  BY <1>1, <1>3, <1>7 DEF Covered
<1> QED
  BY <1>4, <1>5, <1>6, <1>8, <1>9 DEF IndexInv

-----------------------------------------------------------------------------
(* The theorems.                                                           *)

(* Nothing is extracted and no job exists at the start.                     *)
LEMMA IndexInitially == SInit => IndexInv
<1> SUFFICES ASSUME SInit PROVE IndexInv
  OBVIOUS
<1>1. job = [j \in Ids |-> NoJob] /\ NoJob \in Job
  BY DEF SInit, Ids, NoJob, Job, Modes
<1>2. \A j \in Ids : job[j] = NoJob
  BY <1>1
<1>3. idx \in State /\ idx.active = 0 /\ idx.st = "pending" /\ idx.indexed = 0
  BY DEF SInit, State
<1>9. /\ asset \in [Assets -> Asset] /\ \A a \in Live : asset[a].src > 0
      /\ \A a \in Assets : asset[a].src >= 0 /\ row[a] = NoRow
  <2>1. PICK known \in KnownAtStart :
          asset = [a \in Assets |-> IF a <= known
                                    THEN [src |-> 1, on |-> TRUE, meta |-> 1, of |-> 1]
                                    ELSE [src |-> 0, on |-> FALSE, meta |-> 0, of |-> 0]]
    BY DEF SInit
  <2> QED
    BY <2>1 DEF SInit, Asset, Live
<1>4. Types
  BY <1>1, <1>3, <1>9, IdleType, AssetsAreNumbers DEF SInit, Types
<1>5. Active = {}
  BY <1>2 DEF Active, Ids, NoJob, ActiveStates
<1>6. OneActive
  BY <1>2, <1>3, <1>5 DEF OneActive, NoJob, Claimed
<1>7. WorkerOK /\ Passed /\ Cursors /\ Covered /\ Held
  BY <1>3, <1>5, IdleType DEF SInit, WorkerOK, Passed, Cursors, Covered, Held, Steps
<1>8. Truthful
  BY <1>9 DEF Truthful, Told, NoRow, Indexed
<1> QED
  BY <1>4, <1>6, <1>7, <1>8 DEF IndexInv

(* Every step keeps the invariant.                                          *)
LEMMA IndexStep == IndexInv /\ [SNext]_svars => IndexInv'
<1> SUFFICES ASSUME IndexInv, [SNext]_svars PROVE IndexInv'
  OBVIOUS
<1>1. CASE UNCHANGED svars
  <2>1. UNCHANGED <<kind, row, idx, job, worker, asset, todo, due, owed, used>>
    BY <1>1 DEF svars
  <2>2. \A a \in Assets : Moves(a)
    BY <2>1 DEF Moves, Promised, Live
  <2> QED
    BY <2>1, <2>2, QuietKeeps DEF IndexInv, Types, Live
<1>2. CASE Work \/ Raise
  BY <1>2, ClaimKeeps, NextBatchKeeps, ExtractKeeps, RecordKeeps, FinishKeeps, RaiseKeeps DEF Work
<1>3. CASE LeaseLapses \/ Restart
  BY <1>3, LapseKeeps, RestartKeeps
<1>4. CASE StartupBackfill \/ (\E a \in Assets : Schedule(a)) \/ (\E mode \in Modes : Rebuild(mode))
  BY <1>4, RequestsKeep
<1>5. CASE \E a \in Assets :
              \/ FileChanges(a) \/ MetadataAgain(a) \/ GoesOffline(a) \/ Returns(a)
              \/ MetadataCommit(a) \/ MetadataDropped(a) \/ MetadataFails(a)
  BY <1>5, FileChangesKeeps, FileMovesKeep, NoMetadataKeeps, CommitKeeps
<1>6. CASE \E j \in Ids : Cancel(j)
  BY <1>6, CancelKeeps
<1> QED
  BY <1>1, <1>2, <1>3, <1>4, <1>5, <1>6 DEF SNext, Modes, Ids

(* The invariant holds always.                                              *)
LEMMA IndexAlways == SSpec => []IndexInv
BY IndexInitially, IndexStep, PTL DEF SSpec

(* Type correctness, with the one active job that the state row names       *)
(* (create_search_index_job, claim_next_search_index_job).                  *)
THEOREM IndexTypeCorrect == SSpec => []STypeOK
<1>1. IndexInv => STypeOK
  BY DEF IndexInv, Types, OneActive, STypeOK, Asset, Row, State, Job, Worker, Steps, Ids
<1> QED
  BY <1>1, IndexAlways, PTL

(* A stored signature is one of the metadata that is stored: the persist    *)
(* compares source revisions and the commit deletes the row.  A blank row,  *)
(* which the persist does not compare, is as current unless a commit came   *)
(* between its extraction and its write.                                    *)
THEOREM SignaturesAreCurrent == SSpec => []SignatureIsCurrent
<1>1. IndexInv => SignatureIsCurrent
  BY DEF IndexInv, Truthful, Told, SignatureIsCurrent, Indexed
<1> QED
  BY <1>1, IndexAlways, PTL

(* An index that reports "ready" and has nothing left to do has, for every  *)
(* active asset, a row of its present identity and, unless the row was      *)
(* written late, of the last metadata; but for assets whose backfill        *)
(* request was never made or came to nothing.                               *)
THEOREM ReadyIndexesAreCovered == SSpec => []ReadyIsCovered
<1>1. IndexInv => ReadyIsCovered
  <2> SUFFICES ASSUME IndexInv, Settled, idx.st = "ready", NEW a \in Live \ owed
               PROVE  /\ row[a].st \in Indexed
                      /\ row[a].src = asset[a].src
                      /\ ~row[a].late => row[a].meta = asset[a].meta
    BY DEF ReadyIsCovered
  <2>1. a \in Assets /\ Kept(a) /\ ~Promised(a) /\ row[a] \in Row
    BY DEF IndexInv, Covered, Settled, Live, Promised, Types
  <2>2. row[a].st \in Indexed /\ row[a].src = asset[a].src
    BY <2>1 DEF Kept, Missing, Row
  <2> QED
    BY <2>1, <2>2 DEF IndexInv, Truthful, Told
<1> QED
  BY <1>1, IndexAlways, PTL
=============================================================================
