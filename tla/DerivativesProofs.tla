---------------------------- MODULE DerivativesProofs ----------------------------
(***************************************************************************)
(* The types of the derivative scheduler, that it implements LeasedQueue,  *)
(* that no step leaves a derivative waiting for nobody, and that a batch   *)
(* may trust its running account of the capacity, proved.                  *)
(***************************************************************************)
EXTENDS Derivatives, FiniteSetTheorems, WellFoundedInduction, TLAPS

-----------------------------------------------------------------------------
(* The inductive invariant.                                                *)

\* The source files, the catalog, the cache directory and what protects its files.
World ==
  /\ disk \in [Assets -> 0..MaxIdent]
  /\ cat \in [Assets -> [ident : Ident, active : BOOLEAN]]
  /\ file \in [Key -> 0..MaxIdent]
  /\ generating \subseteq Key /\ served \subseteq Key /\ deferred \subseteq Key
  /\ left \in [DOMAIN Budget -> Nat]

\* A job has a token while it runs, and the token was drawn; a queued job may be
\* tried once more; a row names a file only with its work done.
KeyOK(k) ==
  /\ job[k].st # "running" => job[k].token = 0
  /\ job[k].st = "running" => job[k].token \in 1..claims[k]
  /\ job[k].st = "queued" => job[k].attempts < MaxAttempts
  /\ job[k].attempts <= MaxAttempts
  /\ row[k].path # 0 => row[k].st \in {"ready", "evicted"} /\ ~ActiveJob(job[k])
  /\ row[k].st \in {"ready", "evicted"} => job[k].st # "none"

Rows ==
  /\ row \in [Key -> Row] /\ job \in [Key -> Job]
  /\ claims \in [Key -> 0..MaxClaims]
  /\ \A k \in Key : KeyOK(k)

WorkerRec == [pc : WorkerStates, open : Seq(Claim), cur : Seq(Claim), batch : BOOLEAN, bg : BOOLEAN,
              pid : 0..MaxIdent, kid : 0..MaxIdent, img : 0..MaxIdent, gen : SUBSET Key,
              exc : Codes \cup {"none"}, ok : BOOLEAN]

\* What a worker has at each of its steps: its claims are of different derivatives.
Shape(r) ==
  /\ r.pc \in {"claimed", "checked", "stated", "pathed", "keyed", "failing"} => r.open # <<>> /\ r.cur = <<>>
  /\ r.pc \in {"rendered", "valid"} => Len(r.cur) = 1
  /\ r.pc \in {"idle", "quota"} => r.open = <<>> /\ r.cur = <<>>
  /\ r.pc \in {"handled", "releasing", "closing"} => r.cur = <<>>
  /\ \A i, j \in 1..Len(r.open) : r.open[i].key = r.open[j].key => i = j
  /\ \A i \in 1..Len(r.open), j \in 1..Len(r.cur) : r.open[i].key # r.cur[j].key

\* The claims a worker holds.
Has(r) == ToSet(r.open) \cup ToSet(r.cur)

\* Claims were drawn, an owner knows how often its job was tried, and no two
\* workers have the same claim.
Drawn(r) == \A c \in Has(r) : /\ c.token \in 1..claims[c.key]
                              /\ Owns(c) => c.attempts = job[c.key].attempts
Differ(r, s) == \A c \in Has(r), d \in Has(s) : c.key = d.key => c.token # d.token

Crew ==
  /\ worker \in [Workers -> WorkerRec]
  /\ \A w \in Workers : Shape(worker[w]) /\ Drawn(worker[w])
  /\ \A w, v \in Workers : w # v => Differ(worker[w], worker[v])

\* A row under eviction names its file until the eviction ends.
OpOK ==
  /\ op = [kind |-> op.kind, stage |-> op.stage, keys |-> op.keys, cands |-> op.cands, drop |-> op.drop,
           sel |-> op.sel, gone |-> op.gone, prio |-> op.prio, o |-> op.o, by |-> op.by]
  /\ op.prio \in 0..3 /\ op.drop \subseteq Key /\ Len(op.cands) \in Nat
  /\ \A k \in Key : k \in op.sel /\ row[k].st = "evicted" => row[k].path # 0

\* What a sweep decided: a claim it hands back has attempts left, if it still runs.
SweepOK ==
  /\ sweep.kind \in {"none", "queued", "recover"}
  /\ \A k \in Key : k \in DOMAIN sweep.todo =>
       /\ sweep.kind = "queued" => sweep.todo[k] \in ResultCodes
       /\ sweep.kind = "recover" =>
            /\ sweep.todo[k].token \in 0..claims[k]
            /\ sweep.todo[k].end \in {"queued", "failed", "skipped"} \X ResultCodes
            /\ /\ sweep.todo[k].end[1] = "queued"
               /\ job[k].st = "running" /\ job[k].token = sweep.todo[k].token
               => job[k].attempts < MaxAttempts

AuditOK ==
  /\ audit = [stage |-> audit.stage, ready |-> audit.ready, done |-> audit.done,
              misled |-> audit.misled, torn |-> audit.torn]
  /\ audit.stage \in {"none", "ready", "done"}
  /\ \A k \in Key : k \in DOMAIN audit.done => audit.stage # "none" /\ job[k].st # "none"

DerivInv == World /\ Rows /\ Crew /\ OpOK /\ SweepOK /\ AuditOK
-----------------------------------------------------------------------------
(* Sequences of claims.                                                    *)

\* The elements of a sequence.
LEMMA Elements ==
  ASSUME NEW T, NEW s \in Seq(T)
  PROVE  /\ Len(s) \in Nat /\ DOMAIN s = 1..Len(s)
         /\ \A x : x \in ToSet(s) <=> \E i \in 1..Len(s) : x = s[i]
         /\ \A i \in 1..Len(s) : s[i] \in T
         /\ ToSet(s) \subseteq T
         /\ s = <<>> <=> Len(s) = 0
         /\ s # <<>> => Len(s) >= 1
BY DEF ToSet

\* The elements of two sequences, one after the other.
LEMMA BothElements ==
  ASSUME NEW T, NEW s \in Seq(T), NEW t \in Seq(T)
  PROVE  ToSet(s \o t) = ToSet(s) \cup ToSet(t)
<1>1. s \o t \in Seq(T) /\ Len(s \o t) = Len(s) + Len(t)
  OBVIOUS
<1>2. ASSUME NEW x \in ToSet(s \o t) PROVE x \in ToSet(s) \cup ToSet(t)
  <2>0. DOMAIN (s \o t) = 1..(Len(s) + Len(t))
    BY <1>1
  <2>1. PICK i \in 1..(Len(s) + Len(t)) : x = (s \o t)[i]
    BY <1>2, <2>0 DEF ToSet
  <2>2. CASE i <= Len(s)
    <3>1. i \in 1..Len(s) /\ x = s[i]
      BY <2>1, <2>2
    <3> QED
      BY <3>1, Elements
  <2>3. CASE i > Len(s)
    <3>1. i - Len(s) \in 1..Len(t) /\ x = t[i - Len(s)]
      BY <2>1, <2>3
    <3> QED
      BY <3>1, Elements
  <2> QED
    BY <2>2, <2>3
<1>3. ASSUME NEW x \in ToSet(s) PROVE x \in ToSet(s \o t)
  <2>1. PICK i \in 1..Len(s) : x = s[i]
    BY Elements
  <2>2. i \in 1..(Len(s) + Len(t)) /\ (s \o t)[i] = x
    BY <2>1
  <2> QED
    BY <1>1, <2>2, Elements
<1>4. ASSUME NEW x \in ToSet(t) PROVE x \in ToSet(s \o t)
  <2>1. PICK i \in 1..Len(t) : x = t[i]
    BY Elements
  <2>2. i + Len(s) \in 1..(Len(s) + Len(t)) /\ (s \o t)[i + Len(s)] = x
    BY <2>1
  <2> QED
    BY <1>1, <2>2, Elements
<1> QED
  BY <1>2, <1>3, <1>4

\* A sequence without its element at n.
LEMMA RemoveAtFacts ==
  ASSUME NEW T, NEW s \in Seq(T), NEW n \in 1..Len(s)
  PROVE  /\ RemoveAt(s, n) \in Seq(T) /\ Len(RemoveAt(s, n)) = Len(s) - 1
         /\ \A i \in 1..(Len(s) - 1) : RemoveAt(s, n)[i] = IF i < n THEN s[i] ELSE s[i + 1]
<1>1. /\ SubSeq(s, 1, n - 1) \in Seq(T) /\ Len(SubSeq(s, 1, n - 1)) = n - 1
      /\ \A i \in 1..(n - 1) : SubSeq(s, 1, n - 1)[i] = s[i]
  OBVIOUS
<1>2. /\ SubSeq(s, n + 1, Len(s)) \in Seq(T) /\ Len(SubSeq(s, n + 1, Len(s))) = Len(s) - n
      /\ \A i \in 1..(Len(s) - n) : SubSeq(s, n + 1, Len(s))[i] = s[n + i]
  OBVIOUS
<1> DEFINE a == SubSeq(s, 1, n - 1)
           b == SubSeq(s, n + 1, Len(s))
<1>3. RemoveAt(s, n) = a \o b
  BY DEF RemoveAt
<1> HIDE DEF a, b
<1>4. a \in Seq(T) /\ b \in Seq(T) /\ Len(a) = n - 1 /\ Len(b) = Len(s) - n
      /\ (\A i \in 1..(n - 1) : a[i] = s[i]) /\ (\A i \in 1..(Len(s) - n) : b[i] = s[n + i])
  BY <1>1, <1>2 DEF a, b
<1>5. a \o b \in Seq(T) /\ Len(a \o b) = Len(s) - 1
  <2>1. Len(s) \in Nat /\ n \in Nat /\ (n - 1) + (Len(s) - n) = Len(s) - 1
    OBVIOUS
  <2>2. Len(a \o b) = Len(a) + Len(b)
    <3>1. \A u, v \in Seq(T) : Len(u \o v) = Len(u) + Len(v)
      OBVIOUS
    <3> QED
      BY <1>4, <3>1
  <2> QED
    BY <1>4, <2>1, <2>2
<1>6. ASSUME NEW i \in 1..(Len(s) - 1) PROVE (a \o b)[i] = IF i < n THEN s[i] ELSE s[i + 1]
  <2>1. CASE i < n
    BY <1>4, <2>1
  <2>2. CASE i >= n
    <3>1. i - (n - 1) \in 1..(Len(s) - n) /\ (a \o b)[i] = b[i - (n - 1)] /\ n + (i - (n - 1)) = i + 1
      BY <1>4, <2>2
    <3> QED
      BY <1>4, <2>2, <3>1
  <2>3. i < n \/ i >= n
    OBVIOUS
  <2> QED
    BY <2>1, <2>2, <2>3
<1> QED
  BY <1>3, <1>5, <1>6

\* What a worker holds is what HeldTokens collects.
Tokens(rs, k) == {c.token : c \in {d \in UNION {Has(rs[w]) : w \in Workers} : d.key = k}}

\* What a worker's two sequences hold is what Tokens collects.
LEMMA HeldAre ==
  ASSUME NEW rs \in [Workers -> WorkerRec], NEW k
  PROVE  {c.token : c \in {d \in UNION {ToSet(rs[w].open \o rs[w].cur) : w \in Workers} : d.key = k}}
           = Tokens(rs, k)
<1>1. \A w \in Workers : ToSet(rs[w].open \o rs[w].cur) = Has(rs[w])
  BY BothElements DEF Has, WorkerRec
<1>2. {ToSet(rs[w].open \o rs[w].cur) : w \in Workers} = {Has(rs[w]) : w \in Workers}
  BY <1>1
<1> QED
  BY <1>2 DEF Tokens

\* The same before and after a step.
LEMMA HeldNow ==
  ASSUME worker \in [Workers -> WorkerRec], worker' \in [Workers -> WorkerRec], NEW k
  PROVE  HeldTokens(k) = Tokens(worker, k) /\ HeldTokens(k)' = Tokens(worker', k)
BY HeldAre DEF HeldTokens

\* A token is held when some worker has a claim with it.
LEMMA TokenIn ==
  ASSUME NEW rs, NEW k, NEW t
  PROVE  t \in Tokens(rs, k) <=> \E w \in Workers : \E c \in Has(rs[w]) : c.key = k /\ c.token = t
BY DEF Tokens
-----------------------------------------------------------------------------
(* What a step does to one derivative.                                     *)

Over == {"done", "failed", "skipped"}
JobStays(j, i) == i.st = j.st /\ i.token = j.token /\ i.attempts = j.attempts
JobSettled(j, i) == j.st \in Over /\ i.st \in Over /\ i.token = 0
JobQueues(j, i) == ~ActiveJob(j) /\ i.st = "queued" /\ i.token = 0 /\ i.attempts \in 0..(MaxAttempts - 1)
JobEnds(j, i) == ActiveJob(j) /\ i.st \in Over /\ i.token = 0
JobReturns(j, i) == j.st = "running" /\ i.st = "queued" /\ i.token = 0 /\ i.attempts \in 0..(MaxAttempts - 1)

JobStep(j, i) ==
  /\ JobStays(j, i) \/ JobSettled(j, i) \/ JobQueues(j, i) \/ JobEnds(j, i) \/ JobReturns(j, i)
  /\ i.attempts <= MaxAttempts

RowLost(r, i) == i.path = 0 /\ i.st \notin {"ready", "evicted"}
RowKept(r, i) == r.path # 0 /\ i.path = r.path /\ {r.st, i.st} \subseteq {"ready", "evicted"}
RowEmptied(r, i) == r.st = "evicted" /\ i.st = "evicted" /\ i.path = 0

\* A row stays, loses its file, is withdrawn or offered with the file it had, or is
\* restored by the integrity pass, which no longer counts.
RowStep(k) ==
  \/ row'[k] = row[k]
  \/ RowLost(row[k], row'[k])
  \/ RowKept(row[k], row'[k])
  \/ RowEmptied(row[k], row'[k])
  \/ /\ k \in audit'.misled
     /\ row'[k].st = "ready" /\ row'[k].path = row[k].path /\ job[k].st # "none"

\* A worker makes it ready.
RowMade(k) == row'[k].st = "ready" /\ job[k].st = "running" /\ job'[k].st \in Over

\* A derivative that waits has a job that moves it, if it had one.
StillMoved(k) ==
  row'[k].st \in {"queued", "running"} /\ ~ActiveJob(job'[k])
  => row[k].st \in {"queued", "running"} /\ ~ActiveJob(job[k])

KeyStep(k) ==
  /\ JobStep(job[k], job'[k])
  /\ RowStep(k) \/ RowMade(k)
  /\ JobQueues(job[k], job'[k]) => row'[k].path = 0
  /\ k \in audit.misled => k \in audit'.misled
  /\ StillMoved(k)

-----------------------------------------------------------------------------
(* Such steps are moves of the queue.                                      *)

\* What a derivative offers, as LeasedQueue sees it.
Offered(k) == IF k \in audit.misled THEN "none" ELSE OfferOf(row[k])

OfferStep(k) ==
  \/ Offered(k)' = Offered(k)
  \/ Offered(k)' = "none"
  \/ Offered(k) = "offered" /\ Offered(k)' = "withdrawn"
  \/ Offered(k) = "withdrawn" /\ Offered(k)' = "offered"

\* What a row may do in such a step is what an offer may do.
LEMMA RowStepOffers ==
  ASSUME NEW k \in Key, RowStep(k), k \in audit.misled => k \in audit'.misled
  PROVE  OfferStep(k)
<1>1. CASE k \in audit'.misled
  BY <1>1 DEF OfferStep, Offered
<1>2. CASE k \notin audit'.misled
  <2>1. Offered(k) = OfferOf(row[k]) /\ Offered(k)' = OfferOf(row'[k])
    BY <1>2 DEF Offered, OfferOf
  <2>2. CASE row'[k] = row[k]
    BY <2>1, <2>2 DEF OfferStep
  <2>3. CASE RowLost(row[k], row'[k])
    <3>1. OfferOf(row'[k]) = "none"
      BY <2>3 DEF RowLost, OfferOf
    <3> QED
      BY <2>1, <3>1 DEF OfferStep
  <2>4. CASE RowKept(row[k], row'[k])
    <3>1. OfferOf(row[k]) \in {"offered", "withdrawn"} /\ OfferOf(row'[k]) \in {"offered", "withdrawn"}
      BY <2>4 DEF RowKept, OfferOf
    <3> QED
      BY <2>1, <3>1 DEF OfferStep
  <2>5. CASE RowEmptied(row[k], row'[k])
    <3>1. OfferOf(row'[k]) = "none"
      BY <2>5 DEF RowEmptied, OfferOf
    <3> QED
      BY <2>1, <3>1 DEF OfferStep
  <2> QED
    BY <1>2, <2>2, <2>3, <2>4, <2>5 DEF RowStep
<1> QED
  BY <1>1, <1>2

\* A holder lets go, or nothing happens to the job.
LEMMA LetsGo ==
  ASSUME NEW k \in Key, Phase(job'[k]) = Phase(job[k]), job'[k].token = job[k].token,
         HeldTokens(k)' \subseteq HeldTokens(k), OfferStep(k)
  PROVE  Queue!Move(k)
BY DEF Queue!Move, Queue!LetGo, Queue!Same, Queue!Offer, OfferStep, Offered

\* A job is queued.
LEMMA Enqueues ==
  ASSUME NEW k \in Key, KeyOK(k), JobQueues(job[k], job'[k]), job[k].st \in JobStates,
         HeldTokens(k)' = HeldTokens(k), OfferStep(k)
  PROVE  Queue!Move(k)
<1>1. Phase(job[k]) \in {"none", "settled"} /\ Phase(job'[k]) = "waiting"
  BY DEF JobQueues, ActiveJob, Phase, JobStates
<1>2. job'[k].token = job[k].token
  BY DEF KeyOK, JobQueues, ActiveJob
<1> QED
  BY <1>1, <1>2 DEF Queue!Move, Queue!Enqueue, Queue!Offer, OfferStep, Offered

\* A job is ended or handed back by somebody who does not tell its holder.
LEMMA Cancels ==
  ASSUME NEW k \in Key, JobEnds(job[k], job'[k]) \/ JobReturns(job[k], job'[k]),
         HeldTokens(k)' \in {HeldTokens(k), {}}, OfferStep(k)
  PROVE  Queue!Move(k)
<1>1. \/ Phase(job[k]) = "leased" /\ Phase(job'[k]) \in {"waiting", "settled"}
      \/ Phase(job[k]) = "waiting" /\ Phase(job'[k]) = "settled"
  BY DEF JobEnds, JobReturns, ActiveJob, Phase, Over
<1>2. job'[k].token = 0
  BY DEF JobEnds, JobReturns
<1> QED
  BY <1>1, <1>2 DEF Queue!Move, Queue!Cancel, Queue!Offer, OfferStep, Offered

\* The holder ends its work: by a result, or without one.
LEMMA OwnerEnds ==
  ASSUME NEW k \in Key, job[k].st = "running",
         JobEnds(job[k], job'[k]) \/ JobReturns(job[k], job'[k]),
         job[k].token \in HeldTokens(k), HeldTokens(k)' = HeldTokens(k) \ {job[k].token},
         OfferStep(k) \/ (RowMade(k) /\ (k \in audit.misled => k \in audit'.misled))
  PROVE  Queue!Move(k)
<1>1. Phase(job[k]) = "leased" /\ Phase(job'[k]) \in {"waiting", "settled"} /\ job'[k].token = 0
  BY DEF JobEnds, JobReturns, Phase, Over
<1>2. CASE OfferStep(k)
  BY <1>1, <1>2 DEF Queue!Move, Queue!End, Queue!Offer, OfferStep, Offered
<1>3. CASE RowMade(k) /\ (k \in audit.misled => k \in audit'.misled)
  <2>1. Phase(job'[k]) = "settled"
    BY <1>3 DEF RowMade, Phase, Over
  <2>2. Offered(k)' \in {"none", "offered"}
    BY <1>3 DEF Offered, OfferOf, RowMade
  <2> QED
    BY <1>1, <2>1, <2>2 DEF Queue!Move, Queue!End, Queue!Offer, Offered
<1> QED
  BY <1>2, <1>3

\* A step of a derivative whose holders stay, or all vanish with the process.
LEMMA KeyStepMoves ==
  ASSUME NEW k \in Key, KeyOK(k), job[k].st \in JobStates, KeyStep(k), RowStep(k),
         HeldTokens(k)' = HeldTokens(k) \/ (HeldTokens(k)' = {} /\ ~JobQueues(job[k], job'[k]))
  PROVE  Queue!Move(k)
<1>1. OfferStep(k)
  <2>1. k \in audit.misled => k \in audit'.misled
    BY DEF KeyStep
  <2> QED
    BY <2>1, RowStepOffers
<1>2. CASE JobStays(job[k], job'[k])
  <2>1. Phase(job'[k]) = Phase(job[k]) /\ job'[k].token = job[k].token
    BY <1>2 DEF JobStays, Phase
  <2>2. HeldTokens(k)' \subseteq HeldTokens(k)
    OBVIOUS
  <2> QED
    BY <1>1, <2>1, <2>2, LetsGo
<1>3. CASE JobSettled(job[k], job'[k])
  <2>1. Phase(job'[k]) = Phase(job[k]) /\ job'[k].token = job[k].token
    BY <1>3 DEF JobSettled, Phase, Over, KeyOK
  <2>2. HeldTokens(k)' \subseteq HeldTokens(k)
    OBVIOUS
  <2> QED
    BY <1>1, <2>1, <2>2, LetsGo
<1>4. CASE JobQueues(job[k], job'[k])
  <2>1. HeldTokens(k)' = HeldTokens(k)
    BY <1>4
  <2> QED
    BY <1>1, <1>4, <2>1, Enqueues
<1>5. CASE JobEnds(job[k], job'[k]) \/ JobReturns(job[k], job'[k])
  <2>1. HeldTokens(k)' \in {HeldTokens(k), {}}
    OBVIOUS
  <2> QED
    BY <1>1, <1>5, <2>1, Cancels
<1> QED
  BY <1>2, <1>3, <1>4, <1>5 DEF KeyStep, JobStep

-----------------------------------------------------------------------------
(* Such steps keep the invariant.                                          *)

\* The bound on attempts is a positive number.
LEMMA MaxIsNumber == MaxAttempts \in Nat /\ MaxAttempts > 0
BY DerivativeAssumption

\* Rows and jobs stay what the invariant says.
LEMMA RowsKept ==
  ASSUME Rows, row' \in [Key -> Row], job' \in [Key -> Job], claims' = claims,
         \A k \in Key : KeyStep(k)
  PROVE  Rows'
<1>1. ASSUME NEW k \in Key PROVE KeyOK(k)'
  <2>1. KeyOK(k) /\ KeyStep(k)
    BY DEF Rows
  <2>2. JobStep(job[k], job'[k]) /\ (RowStep(k) \/ RowMade(k))
        /\ (JobQueues(job[k], job'[k]) => row'[k].path = 0)
    BY <2>1 DEF KeyStep
  <2>3. /\ job'[k].st # "running" => job'[k].token = 0
        /\ job'[k].st = "running" => job'[k].token \in 1..claims'[k]
        /\ job'[k].st = "queued" => job'[k].attempts < MaxAttempts
        /\ job'[k].attempts <= MaxAttempts
        /\ job[k].st # "none" => job'[k].st # "none"
        /\ ActiveJob(job'[k]) => ActiveJob(job[k]) \/ JobQueues(job[k], job'[k])
    BY <2>1, <2>2, MaxIsNumber
       DEF KeyOK, JobStep, JobStays, JobSettled, JobQueues, JobEnds, JobReturns, Over, ActiveJob
  <2>4. row'[k].path # 0 => row'[k].st \in {"ready", "evicted"} /\ ~ActiveJob(job'[k])
    <3>1. CASE RowStep(k)
      BY <2>1, <2>2, <2>3, <3>1 DEF KeyOK, RowStep, RowLost, RowKept, RowEmptied
    <3>2. CASE RowMade(k)
      BY <3>2 DEF RowMade, ActiveJob, Over
    <3> QED
      BY <2>2, <3>1, <3>2
  <2>5. row'[k].st \in {"ready", "evicted"} => job'[k].st # "none"
    <3>1. CASE RowStep(k)
      BY <2>1, <2>2, <2>3, <3>1 DEF KeyOK, RowStep, RowLost, RowKept, RowEmptied
    <3>2. CASE RowMade(k)
      BY <3>2 DEF RowMade, Over
    <3> QED
      BY <2>2, <3>1, <3>2
  <2> QED
    BY <2>3, <2>4, <2>5 DEF KeyOK
<1> QED
  BY <1>1 DEF Rows

\* A job that runs after the step ran before, as the same claim.
LEMMA RunsOn ==
  ASSUME NEW k \in Key, KeyStep(k), job'[k].st = "running"
  PROVE  job[k].st = "running" /\ job'[k].token = job[k].token /\ job'[k].attempts = job[k].attempts
BY DEF KeyStep, JobStep, JobStays, JobSettled, JobQueues, JobEnds, JobReturns, Over

\* A derivative that has a job keeps one.
LEMMA HasJob ==
  ASSUME NEW k \in Key, KeyStep(k), job[k].st # "none"
  PROVE  job'[k].st # "none"
BY DEF KeyStep, JobStep, JobStays, JobSettled, JobQueues, JobEnds, JobReturns, Over

\* What a worker holds are claims.
LEMMA HasClaims ==
  ASSUME NEW r \in WorkerRec
  PROVE  Has(r) \subseteq Claim
<1>1. r.open \in Seq(Claim) /\ r.cur \in Seq(Claim)
  BY DEF WorkerRec
<1> QED
  BY <1>1, Elements DEF Has

\* Workers keep some of the claims they had.
LEMMA CrewKept ==
  ASSUME Crew, claims' = claims, \A k \in Key : KeyStep(k),
         worker' \in [Workers -> WorkerRec],
         \A w \in Workers : Shape(worker'[w]) /\ Has(worker'[w]) \subseteq Has(worker[w])
  PROVE  Crew'
<1>1. ASSUME NEW w \in Workers PROVE Drawn(worker[w])'
  <2>1. ASSUME NEW c \in Has(worker'[w])
        PROVE  c.token \in 1..claims'[c.key] /\ (Owns(c)' => c.attempts = job'[c.key].attempts)
    <3>1. c \in Has(worker[w]) /\ worker[w] \in WorkerRec
      BY <2>1 DEF Crew
    <3>2. c.key \in Key
      BY <3>1, HasClaims DEF Claim
    <3>3. c.token \in 1..claims[c.key] /\ (Owns(c) => c.attempts = job[c.key].attempts)
      BY <3>1 DEF Crew, Drawn
    <3>4. Owns(c)' => Owns(c) /\ job'[c.key].attempts = job[c.key].attempts
      BY <3>2, RunsOn DEF Owns
    <3> QED
      BY <3>3, <3>4
  <2> QED
    BY <2>1 DEF Drawn, Owns
<1>2. ASSUME NEW w \in Workers, NEW v \in Workers, w # v PROVE Differ(worker'[w], worker'[v])
  <2>1. Differ(worker[w], worker[v])
    BY <1>2 DEF Crew
  <2>2. Has(worker'[w]) \subseteq Has(worker[w]) /\ Has(worker'[v]) \subseteq Has(worker[v])
    OBVIOUS
  <2> QED
    BY <2>1, <2>2 DEF Differ
<1> QED
  BY <1>1, <1>2 DEF Crew

\* What a sweep decided stays sound.
LEMMA SweepKept ==
  ASSUME SweepOK, claims' = claims, \A k \in Key : KeyStep(k), sweep' = sweep
  PROVE  SweepOK'
<1>1. ASSUME NEW k \in Key, k \in DOMAIN sweep.todo, sweep.kind = "recover",
             sweep.todo[k].end[1] = "queued", job'[k].st = "running", job'[k].token = sweep.todo[k].token
      PROVE  job'[k].attempts < MaxAttempts
  BY <1>1, RunsOn DEF SweepOK
<1> QED
  BY <1>1 DEF SweepOK

\* Nothing is left to decide when the sweep is over.
LEMMA SweepOver ==
  ASSUME sweep' = NoSweep
  PROVE  SweepOK'
<1>1. sweep'.kind = "none" /\ DOMAIN sweep'.todo = {}
  BY DEF NoSweep
<1> QED
  BY <1>1 DEF SweepOK

\* What the integrity pass saw still has jobs.
LEMMA AuditKept ==
  ASSUME AuditOK, \A k \in Key : KeyStep(k), audit' = audit
  PROVE  AuditOK'
BY HasJob DEF AuditOK

-----------------------------------------------------------------------------
(* The transactions.                                                       *)

\* The rows and jobs a transaction carries.
Tables(tx) ==
  /\ tx = [row |-> tx.row, job |-> tx.job, lg |-> tx.lg, out |-> tx.out]
  /\ tx.row \in [Key -> Row] /\ tx.job \in [Key -> Job]

\* What coalescing does to the row r and the job j of derivative x: it may do so again.
CoStep(x, r, j, s, i) ==
  /\ s = r \/ RowLost(r, s) \/ RowKept(r, s)
  /\ s.st = "evicted" => r.st = "evicted" /\ s.path = r.path
  /\ s.st = "ready" => s = r \/ HasFile(x, r)
  /\ JobStays(j, i) \/ JobQueues(j, i)
  /\ JobQueues(j, i) => s.path = 0
  /\ s.st \in {"queued", "running"} /\ ~ActiveJob(i) => r.st \in {"queued", "running"} /\ ~ActiveJob(j)

\* Two coalesces of one derivative are like one.
LEMMA CoStepRepeats ==
  ASSUME NEW x, NEW r, NEW j, NEW s, NEW i, NEW u, NEW h, CoStep(x, r, j, s, i), CoStep(x, s, i, u, h)
  PROVE  CoStep(x, r, j, u, h)
<1>1. u = r \/ RowLost(r, u) \/ RowKept(r, u)
  BY DEF CoStep, RowLost, RowKept
<1>2. JobStays(j, h) \/ JobQueues(j, h)
  BY DEF CoStep, JobStays, JobQueues, ActiveJob
<1>3. JobQueues(j, h) => u.path = 0
  <2>1. CASE JobQueues(j, i)
    BY <2>1 DEF CoStep, RowLost, RowKept
  <2>2. CASE JobStays(j, i) /\ JobQueues(j, h)
    <3>1. JobQueues(i, h)
      BY <2>2 DEF JobStays, JobQueues, ActiveJob
    <3> QED
      BY <3>1 DEF CoStep
  <2> QED
    BY <2>1, <2>2 DEF CoStep
<1>4. u.st = "ready" => u = r \/ HasFile(x, r)
  BY DEF CoStep, RowLost, RowKept, HasFile
<1> QED
  BY <1>1, <1>2, <1>3, <1>4 DEF CoStep

\* A coalesce may leave all as it is.
LEMMA CoStepNothing ==
  ASSUME NEW x, NEW r, NEW j
  PROVE  CoStep(x, r, j, r, j)
BY DEF CoStep, JobStays, JobQueues, ActiveJob

\* A transaction starts from the tables.
LEMMA TxFacts ==
  ASSUME Rows, NEW lg
  PROVE  Tables(Tx(lg)) /\ Tx(lg).row = row /\ Tx(lg).job = job
BY DEF Tables, Tx, Rows

\* The rows that the transactions write.
LEMMA NewRows ==
  /\ \A st \in RowStates, path \in 0..MaxIdent : [st |-> st, path |-> path] \in Row
  /\ \A r \in Row, st \in RowStates : [r EXCEPT !.st = st] \in Row
                                      /\ [r EXCEPT !.st = st].st = st /\ [r EXCEPT !.st = st].path = r.path
  /\ 0 \in 0..MaxIdent
BY DerivativeAssumption DEF Row

\* The jobs that the transactions write.
LEMMA NewJobs ==
  /\ \A prio \in 0..3 : /\ QueuedJob(prio) \in Job /\ QueuedJob(prio).st = "queued"
                        /\ QueuedJob(prio).token = 0 /\ QueuedJob(prio).attempts = 0
  /\ \A j \in Job, prio \in 0..3 :
       LET i == [j EXCEPT !.prio = prio]
       IN i \in Job /\ i.st = j.st /\ i.token = j.token /\ i.attempts = j.attempts
BY DEF QueuedJob, NoJob, Job, JobStates, ResultCodes

\* Asking for the aggregates changes neither rows nor jobs.
LEMMA AskedFacts ==
  ASSUME NEW tx, Tables(tx)
  PROVE  Tables(Loaded(tx)) /\ Loaded(tx).row = tx.row /\ Loaded(tx).job = tx.job
BY DEF Tables, Loaded

\* What the two verdicts that write most rest on.
LEMMA VerdictFacts ==
  ASSUME NEW tx, NEW k, NEW o
  PROVE  /\ CoalesceVerdict(tx, k, o) = "restored" =>
              tx.row[k].st = "evicted" /\ HasFile(k, tx.row[k])
         /\ CoalesceVerdict(tx, k, o) \in {"capacity_needed", "queued"} => ~ActiveJob(tx.job[k])
BY DEF CoalesceVerdict

\* A transaction that changes at most the row and the job of k.
Changed(tx, t, k) ==
  /\ Tables(t)
  /\ \A x \in Key : x # k => t.row[x] = tx.row[x] /\ t.job[x] = tx.job[x]

\* It leaves the row r and the job j there.
Writes(tx, t, k, r, j) ==
  /\ t = [row |-> t.row, job |-> t.job, lg |-> t.lg, out |-> t.out]
  /\ t.row = [tx.row EXCEPT ![k] = r] /\ t.job = [tx.job EXCEPT ![k] = j]

\* Such a transaction changes nothing else.
LEMMA ChangeBoth ==
  ASSUME NEW tx, Tables(tx), NEW t, NEW k, NEW r, NEW j, Writes(tx, t, k, r, j),
         k \in Key => r \in Row /\ j \in Job
  PROVE  Changed(tx, t, k) /\ (k \in Key => t.row[k] = r /\ t.job[k] = j)
<1>1. t.row = [tx.row EXCEPT ![k] = r] /\ t.job = [tx.job EXCEPT ![k] = j]
  BY DEF Writes
<1>2. tx.row \in [Key -> Row] /\ tx.job \in [Key -> Job]
  BY DEF Tables
<1>3. t.row \in [Key -> Row] /\ t.job \in [Key -> Job]
  BY <1>1, <1>2
<1>4. \A x \in Key : x # k => t.row[x] = tx.row[x] /\ t.job[x] = tx.job[x]
  BY <1>1, <1>2
<1>5. k \in Key => t.row[k] = r /\ t.job[k] = j
  BY <1>1, <1>2
<1> QED
  BY <1>3, <1>4, <1>5 DEF Changed, Tables, Writes

\* _coalesce_derivative_job: what it may do to its derivative, and to no other.
LEMMA CoalesceFacts ==
  ASSUME NEW tx, Tables(tx), NEW k, NEW prio \in 0..3, NEW o
  PROVE  /\ Tables(Coalesce(tx, k, prio, o))
         /\ \A x \in Key : /\ CoStep(x, tx.row[x], tx.job[x], Coalesce(tx, k, prio, o).row[x],
                                     Coalesce(tx, k, prio, o).job[x])
                           /\ x # k => /\ Coalesce(tx, k, prio, o).row[x] = tx.row[x]
                                       /\ Coalesce(tx, k, prio, o).job[x] = tx.job[x]
<1> DEFINE verdict == CoalesceVerdict(tx, k, o)
           asked == IF verdict \in {"capacity_needed", "queued"} /\ NeedsRoom(tx.row[k], o)
                    THEN Loaded(tx) ELSE tx
           answered == [asked EXCEPT !.out = verdict]
           left1 == IF tx.row[k].st = "ready" THEN 1 ELSE 0
<1>1. PICK t : t = Coalesce(tx, k, prio, o)
  OBVIOUS
<1>2. Tables(asked) /\ asked.row = tx.row /\ asked.job = tx.job
  BY AskedFacts
<1>3. answered = [row |-> tx.row, job |-> tx.job, lg |-> asked.lg, out |-> verdict]
  BY <1>2 DEF Tables
<1>4. tx.row = [tx.row EXCEPT ![k] = tx.row[k]] /\ tx.job = [tx.job EXCEPT ![k] = tx.job[k]]
  BY DEF Tables
<1>5. k \in Key => tx.row[k] \in Row /\ tx.job[k] \in Job
  BY DEF Tables
<1>6. CASE verdict = "restored"
  <2>1. t = [answered EXCEPT !.row[k].st = "ready", !.out = "ready",
               !.lg = LedgerRestored(tx.lg, IF ActiveJob(tx.job[k]) THEN 1 ELSE 0)]
    BY <1>1, <1>6 DEF Coalesce
  <2> HIDE DEF asked, verdict
  <2>2. PICK r : r = [tx.row[k] EXCEPT !.st = "ready"]
    OBVIOUS
  <2>7. Writes(tx, t, k, r, tx.job[k])
    BY <1>3, <1>4, <2>1, <2>2 DEF Writes
  <2>3. k \in Key => r \in Row /\ tx.job[k] \in Job /\ r.st = "ready" /\ r.path = tx.row[k].path
    BY <1>5, <2>2, NewRows DEF RowStates
  <2>4. Changed(tx, t, k) /\ (k \in Key => t.row[k] = r /\ t.job[k] = tx.job[k])
    BY <2>3, <2>7, ChangeBoth
  <2>5. tx.row[k].st = "evicted" /\ tx.row[k].path # 0 /\ HasFile(k, tx.row[k])
    BY <1>6, VerdictFacts DEF HasFile, verdict
  <2>6. k \in Key => CoStep(k, tx.row[k], tx.job[k], t.row[k], t.job[k])
    <3>1. k \in Key => t.row[k].st = "ready" /\ t.row[k].path = tx.row[k].path
      BY <2>3, <2>4
    <3> QED
      BY <2>4, <2>5, <3>1 DEF CoStep, RowKept, JobStays, JobQueues, ActiveJob
  <2> QED
    BY <1>1, <2>4, <2>6, CoStepNothing DEF Changed
<1>7. CASE verdict = "active"
  <2> DEFINE j == [tx.job[k] EXCEPT !.prio = IF prio < tx.job[k].prio THEN prio ELSE tx.job[k].prio]
  <2>1. t = [answered EXCEPT !.job[k].prio = IF prio < @ THEN prio ELSE @]
    BY <1>1, <1>7 DEF Coalesce
  <2> HIDE DEF asked, verdict
  <2>2. Writes(tx, t, k, tx.row[k], j)
    BY <1>3, <1>4, <2>1 DEF Writes
  <2>3. k \in Key => j \in Job /\ JobStays(tx.job[k], j)
    BY <1>5, NewJobs DEF JobStays, Job
  <2>4. Changed(tx, t, k) /\ (k \in Key => t.row[k] = tx.row[k] /\ t.job[k] = j)
    BY <1>5, <2>2, <2>3, ChangeBoth
  <2>5. k \in Key => CoStep(k, tx.row[k], tx.job[k], t.row[k], t.job[k])
    BY <2>3, <2>4 DEF CoStep, JobStays, JobQueues, ActiveJob
  <2> QED
    BY <1>1, <2>4, <2>5, CoStepNothing DEF Changed
<1>8. CASE verdict = "capacity_needed"
  <2> DEFINE r == [st |-> "deferred_capacity", path |-> 0]
  <2>1. t = [answered EXCEPT !.row[k] = r, !.lg = LedgerLeft(asked.lg, left1)]
    BY <1>1, <1>8 DEF Coalesce
  <2> HIDE DEF asked, verdict
  <2>2. Writes(tx, t, k, r, tx.job[k])
    BY <1>3, <1>4, <2>1 DEF Writes
  <2>3. r \in Row /\ r.st = "deferred_capacity" /\ r.path = 0
    BY NewRows DEF RowStates
  <2> HIDE DEF r
  <2>4. Changed(tx, t, k) /\ (k \in Key => t.row[k] = r /\ t.job[k] = tx.job[k])
    BY <1>5, <2>2, <2>3, ChangeBoth
  <2>5. k \in Key => CoStep(k, tx.row[k], tx.job[k], t.row[k], t.job[k])
    BY <2>3, <2>4 DEF CoStep, RowLost, JobStays, JobQueues, ActiveJob
  <2> QED
    BY <1>1, <2>4, <2>5, CoStepNothing DEF Changed
<1>9. CASE verdict = "queued"
  <2> DEFINE r == [st |-> "queued", path |-> 0]
             lg == LedgerQueued(LedgerLeft(asked.lg, left1))
  <2>1. t = [answered EXCEPT !.row[k] = r, !.job[k] = QueuedJob(prio), !.lg = lg]
    BY <1>1, <1>9 DEF Coalesce
  <2>2. ~ActiveJob(tx.job[k])
    BY <1>9, VerdictFacts
  <2> HIDE DEF asked, verdict, lg
  <2>3. Writes(tx, t, k, r, QueuedJob(prio))
    BY <1>3, <2>1 DEF Writes
  <2>4. r \in Row /\ r.st = "queued" /\ r.path = 0 /\ QueuedJob(prio) \in Job
    BY NewRows, NewJobs DEF RowStates
  <2> HIDE DEF r
  <2>5. Changed(tx, t, k) /\ (k \in Key => t.row[k] = r /\ t.job[k] = QueuedJob(prio))
    BY <2>3, <2>4, ChangeBoth
  <2>6. k \in Key => CoStep(k, tx.row[k], tx.job[k], t.row[k], t.job[k])
    <3>1. QueuedJob(prio).st = "queued" /\ QueuedJob(prio).token = 0 /\ QueuedJob(prio).attempts = 0
      BY NewJobs
    <3>2. 0 \in 0..(MaxAttempts - 1)
      BY MaxIsNumber
    <3> QED
      BY <2>2, <2>4, <2>5, <3>1, <3>2 DEF CoStep, RowLost, JobStays, JobQueues, ActiveJob
  <2> QED
    BY <1>1, <2>5, <2>6, CoStepNothing DEF Changed
<1>10. CASE verdict \notin {"restored", "active", "capacity_needed", "queued"}
  <2>1. t = answered
    BY <1>1, <1>10 DEF Coalesce
  <2> HIDE DEF asked, verdict
  <2>2. Tables(t) /\ t.row = tx.row /\ t.job = tx.job
    BY <1>3, <2>1 DEF Tables
  <2> QED
    BY <1>1, <2>2, CoStepNothing
<1> QED
  BY <1>6, <1>7, <1>8, <1>9, <1>10
\* A set of numbers from 1 on has a least one, if it is not empty.
LEMMA LeastOf ==
  ASSUME NEW n \in Nat, NEW S, S \subseteq 1..n, S # {}
  PROVE  \E x \in S : \A y \in S : x <= y
<1> DEFINE before(x) == {y \in S : y < x}
           D == {before(x) : x \in S}
<1>1. IsFiniteSet(S)
  <2>1. IsFiniteSet(1..n)
    BY FS_Interval
  <2> QED
    BY <2>1, FS_Subset
<1>2. IsWellFoundedOn(StrictSubsetOrdering(S), SUBSET S)
  BY <1>1, FS_StrictSubsetOrderingWellFounded, FS_FiniteSubsetsOfFinite
<1>3. D \subseteq SUBSET S /\ D # {}
  OBVIOUS
<1>4. PICK d \in D : \A e \in D : <<e, d>> \notin StrictSubsetOrdering(S)
  BY <1>2, <1>3, WFMin
<1>5. PICK x \in S : d = before(x)
  OBVIOUS
<1>6. ASSUME NEW y \in S, ~(x <= y) PROVE FALSE
  <2>1. x \in Nat /\ y \in Nat /\ S \subseteq Nat
    OBVIOUS
  <2>2. (\A z \in S : z < y => z < x) /\ y < x /\ ~(y < y)
    BY <1>6, <2>1
  <2>3. before(y) \subseteq before(x) /\ y \in before(x) /\ y \notin before(y)
    BY <2>2
  <2>4. before(y) \in D /\ before(y) \in SUBSET S /\ before(x) \in SUBSET S
    OBVIOUS
  <2> HIDE DEF before, D
  <2>5. <<before(y), before(x)>> \in StrictSubsetOrdering(S)
    BY <2>3, <2>4 DEF StrictSubsetOrdering
  <2> QED
    BY <1>4, <1>5, <2>4, <2>5
<1> QED
  BY <1>6

\* What a batch of the reconciliation does to derivative x of transaction tx.
TxStep(x, t) ==
  /\ JobStep(job[x], t.job[x])
  /\ t.row[x] = row[x] \/ RowLost(row[x], t.row[x]) \/ RowKept(row[x], t.row[x])
  /\ t.row[x].st = "evicted" => row[x].st = "evicted" /\ t.row[x].path = row[x].path
  /\ t.row[x].st = "ready" => t.row[x] = row[x] \/ HasFile(x, row[x])
  /\ JobQueues(job[x], t.job[x]) => t.row[x].path = 0
  /\ t.row[x].st \in {"queued", "running"} /\ ~ActiveJob(t.job[x])
     => row[x].st \in {"queued", "running"} /\ ~ActiveJob(job[x])

\* A coalesce is a step of the batch.
LEMMA CoStepIsTxStep ==
  ASSUME Rows, NEW t, NEW x \in Key, CoStep(x, row[x], job[x], t.row[x], t.job[x])
  PROVE  TxStep(x, t)
<1>1. KeyOK(x)
  BY DEF Rows
<1>2. JobStep(job[x], t.job[x])
  <2>1. CASE JobStays(job[x], t.job[x])
    BY <1>1, <2>1 DEF JobStep, JobStays, KeyOK
  <2>2. CASE JobQueues(job[x], t.job[x])
    <3>1. t.job[x].attempts <= MaxAttempts
      BY <2>2, MaxIsNumber DEF JobQueues
    <3> QED
      BY <2>2, <3>1 DEF JobStep
  <2> QED
    BY <2>1, <2>2 DEF CoStep
<1> QED
  BY <1>2 DEF TxStep, CoStep

\* Retiring touches ready derivatives of an identity the catalog no longer has.
LEMMA RetireFacts ==
  ASSUME Rows, NEW tx, Tables(tx), tx.row = row, tx.job = job, NEW as, NEW t, t = Retire(tx, as)
  PROVE  /\ Tables(t)
         /\ \A x \in Key : /\ TxStep(x, t)
                           /\ Current(x) => t.row[x] = row[x] /\ t.job[x] = job[x]
<1> DEFINE gone == Superseded(tx, as)
<1>1. t = [row |-> [k \in Key |-> IF k \in gone THEN [st |-> "skipped", path |-> 0] ELSE row[k]],
           job |-> [k \in Key |-> IF k \in gone THEN SupersededJob(job[k]) ELSE job[k]],
           lg |-> LedgerLeft(tx.lg, Cardinality(gone)), out |-> tx.out]
  BY DEF Retire, Tables
<1>2. gone \subseteq Key /\ \A x \in gone : row[x].st = "ready" /\ ~Current(x)
  BY DEF Superseded, Current
<1>3. /\ t.row = [k \in Key |-> IF k \in gone THEN [st |-> "skipped", path |-> 0] ELSE row[k]]
      /\ t.job = [k \in Key |-> IF k \in gone THEN SupersededJob(job[k]) ELSE job[k]]
      /\ t = [row |-> t.row, job |-> t.job, lg |-> t.lg, out |-> t.out]
  BY <1>1
<1> HIDE DEF gone
<1>4. row \in [Key -> Row] /\ job \in [Key -> Job] /\ \A x \in Key : KeyOK(x)
  BY DEF Rows
<1>5. \A x \in Key : LET i == SupersededJob(job[x])
                     IN i \in Job /\ i.st = "skipped" /\ i.token = 0 /\ i.attempts \in {0, job[x].attempts}
  <2>1. ASSUME NEW j \in Job
        PROVE  LET i == [j EXCEPT !.st = "skipped", !.rc = "source_superseded", !.token = 0]
               IN i \in Job /\ i.st = "skipped" /\ i.token = 0 /\ i.attempts = j.attempts
    BY DEF Job, JobStates, ResultCodes
  <2>2. [NoJob EXCEPT !.prio = 3] \in Job /\ [NoJob EXCEPT !.prio = 3].attempts = 0
    BY DEF NoJob, Job, JobStates, ResultCodes
  <2>3. ASSUME NEW x \in Key
        PROVE  LET i == SupersededJob(job[x])
               IN i \in Job /\ i.st = "skipped" /\ i.token = 0 /\ i.attempts \in {0, job[x].attempts}
    <3>1. job[x] \in Job
      BY <1>4
    <3>2. CASE job[x].st \in {"queued", "running", "done"}
      BY <2>1, <3>1, <3>2 DEF SupersededJob
    <3>3. CASE job[x].st \notin {"queued", "running", "done"}
      BY <2>1, <2>2, <3>3 DEF SupersededJob
    <3> QED
      BY <3>2, <3>3
  <2> QED
    BY <2>3
<1>6. [st |-> "skipped", path |-> 0] \in Row
  BY NewRows DEF RowStates
<1>7. Tables(t)
  <2>1. t.row \in [Key -> Row]
    BY <1>3, <1>4, <1>6
  <2>2. t.job \in [Key -> Job]
    BY <1>3, <1>4, <1>5
  <2> QED
    BY <1>3, <2>1, <2>2 DEF Tables
<1>8. ASSUME NEW x \in Key PROVE TxStep(x, t)
  <2>1. CASE x \notin gone
    <3>1. t.row[x] = row[x] /\ t.job[x] = job[x]
      BY <1>3, <2>1
    <3>2. CoStep(x, row[x], job[x], t.row[x], t.job[x])
      BY <3>1, CoStepNothing
    <3> QED
      BY <3>2, CoStepIsTxStep
  <2>2. CASE x \in gone
    <3>1. t.row[x] = [st |-> "skipped", path |-> 0] /\ t.job[x] = SupersededJob(job[x])
      BY <1>3, <2>2
    <3>2. RowLost(row[x], t.row[x]) /\ t.row[x].st = "skipped"
      BY <3>1 DEF RowLost
    <3>3. job[x].st \in JobStates \ {"none"} /\ job[x].attempts \in Nat /\ job[x].attempts <= MaxAttempts
      BY <1>2, <1>4, <2>2 DEF KeyOK, Job
    <3>4. JobStep(job[x], t.job[x])
      <4>1. t.job[x].st = "skipped" /\ t.job[x].token = 0 /\ t.job[x].attempts \in {0, job[x].attempts}
        BY <1>5, <3>1
      <4>2. t.job[x].attempts <= MaxAttempts
        <5>1. CASE t.job[x].attempts = 0
          BY <5>1, MaxIsNumber
        <5>2. CASE t.job[x].attempts = job[x].attempts
          BY <3>3, <5>2
        <5> QED
          BY <4>1, <5>1, <5>2
      <4> QED
        BY <3>3, <4>1, <4>2 DEF JobStep, JobSettled, JobEnds, ActiveJob, Over, JobStates
    <3>5. ~JobQueues(job[x], t.job[x])
      BY <1>5, <3>1 DEF JobQueues
    <3> QED
      BY <3>2, <3>4, <3>5 DEF TxStep
  <2> QED
    BY <2>1, <2>2
<1>9. \A x \in Key : Current(x) => t.row[x] = row[x] /\ t.job[x] = job[x]
  BY <1>2, <1>3
<1> QED
  BY <1>7, <1>8, <1>9

\* Coalescing the first keys one after the other: f has what is there after each.
After(f, b, keys, o, n) ==
  f = [m \in 0..n |-> IF m = 0 THEN b
                      ELSE IF Current(keys[m]) THEN Counted(f[m - 1], keys[m], o) ELSE f[m - 1]]

\* Such an f exists.
LEMMA AfterExists ==
  ASSUME NEW b, NEW keys, NEW o, NEW n \in Nat
  PROVE  \E f : After(f, b, keys, o, n)
<1> DEFINE Then(a, m) == IF Current(keys[m]) THEN Counted(a, keys[m], o) ELSE a
<1>1. \A f, m : After(f, b, keys, o, m) <=> f = [i \in 0..m |-> IF i = 0 THEN b ELSE Then(f[i - 1], i)]
  BY DEF After
<1> HIDE DEF Then
<1>2. \E f : After(f, b, keys, o, 0)
  <2> DEFINE f == [i \in 0..0 |-> b]
  <2>1. f = [i \in 0..0 |-> IF i = 0 THEN b ELSE Then(f[i - 1], i)]
    <3>1. \A i \in 0..0 : i = 0
      OBVIOUS
    <3> QED
      BY <3>1
  <2> QED
    BY <1>1, <2>1
<1>3. ASSUME NEW m \in Nat, NEW f, After(f, b, keys, o, m) PROVE \E h : After(h, b, keys, o, m + 1)
  <2> DEFINE h == [i \in 0..(m + 1) |-> IF i = m + 1 THEN Then(f[m], m + 1) ELSE f[i]]
  <2>1. \A i \in 0..m : i \in 0..(m + 1) /\ h[i] = f[i]
    OBVIOUS
  <2>2. h[m + 1] = Then(h[m], m + 1)
    BY <2>1
  <2>3. \A i \in 0..m : f[i] = IF i = 0 THEN b ELSE Then(f[i - 1], i)
    BY <1>1, <1>3
  <2>4. ASSUME NEW i \in 0..(m + 1) PROVE h[i] = IF i = 0 THEN b ELSE Then(h[i - 1], i)
    <3>1. CASE i = m + 1
      BY <2>2, <3>1
    <3>2. CASE i = 0
      BY <2>1, <2>3, <3>2
    <3>3. CASE i \in 1..m
      <4>1. i \in 0..m /\ i - 1 \in 0..m /\ i # 0
        BY <3>3
      <4> QED
        BY <2>1, <2>3, <4>1
    <3> QED
      BY <3>1, <3>2, <3>3
  <2>5. h = [i \in 0..(m + 1) |-> h[i]]
    OBVIOUS
  <2> HIDE DEF h
  <2>6. h = [i \in 0..(m + 1) |-> IF i = 0 THEN b ELSE Then(h[i - 1], i)]
    BY <2>4, <2>5
  <2> QED
    BY <1>1, <2>6
<1> DEFINE Bad == {m \in 1..n : ~\E f : After(f, b, keys, o, m)}
<1>4. ASSUME Bad # {} PROVE FALSE
  <2>1. PICK m \in Bad : \A y \in Bad : m <= y
    BY <1>4, LeastOf
  <2>2. m \in 1..n /\ m - 1 \in Nat /\ (m - 1) + 1 = m /\ m - 1 \notin Bad
    BY <2>1
  <2>3. \E f : After(f, b, keys, o, m - 1)
    BY <1>2, <2>2
  <2> QED
    BY <1>3, <2>1, <2>2, <2>3
<1> QED
  BY <1>2, <1>4

\* The batch is the last of them.
LEMMA ReconciledIs ==
  ASSUME NEW tx, NEW cands, NEW o, Len(Wanted(cands)) \in Nat
  PROVE  \E f : /\ After(f, [tx |-> Retire(tx, CandidateAssets(cands)), pending |-> <<>>],
                         Wanted(cands), o, Len(Wanted(cands)))
                /\ Reconciled(tx, cands, o) = f[Len(Wanted(cands))]
<1>1. \E f : After(f, [tx |-> Retire(tx, CandidateAssets(cands)), pending |-> <<>>],
                   Wanted(cands), o, Len(Wanted(cands)))
  BY AfterExists
<1> QED
  BY <1>1 DEF Reconciled, After

\* A batch of finitely many candidates has finitely many keys.
LEMMA WantedLength ==
  ASSUME NEW cands, Len(cands) \in Nat
  PROVE  Len(Wanted(cands)) \in Nat
<1>1. Len(Variants) \in Nat
  BY DerivativeAssumption
<1>2. Len(cands) * Len(Variants) \in Nat
  BY <1>1
<1> DEFINE N == Len(cands) * Len(Variants)
           e(n) == <<cands[((n - 1) \div Len(Variants)) + 1][1], Variants[((n - 1) % Len(Variants)) + 1],
                     cands[((n - 1) \div Len(Variants)) + 1][2]>>
<1>3. Wanted(cands) = [n \in 1..N |-> e(n)]
  BY DEF Wanted
<1> HIDE DEF N, e
<1>4. N \in Nat
  BY <1>2 DEF N
<1> QED
  BY <1>3, <1>4

\* A whole batch of the reconciliation.
LEMMA ReconciledFacts ==
  ASSUME Rows, NEW tx, Tables(tx), tx.row = row, tx.job = job, NEW cands, NEW o, Len(cands) \in Nat
  PROVE  /\ Tables(Reconciled(tx, cands, o).tx)
         /\ \A x \in Key : TxStep(x, Reconciled(tx, cands, o).tx)
         /\ \A x \in Key : ~Current(x) =>
              /\ Reconciled(tx, cands, o).tx.row[x] = Retire(tx, CandidateAssets(cands)).row[x]
              /\ Reconciled(tx, cands, o).tx.job[x] = Retire(tx, CandidateAssets(cands)).job[x]
<1> DEFINE n == Len(Wanted(cands))
           keys == Wanted(cands)
<1>1. n \in Nat
  BY WantedLength
<1>2. PICK t : t = Retire(tx, CandidateAssets(cands))
  OBVIOUS
<1>3. /\ Tables(t)
      /\ \A x \in Key : TxStep(x, t) /\ (Current(x) => t.row[x] = row[x] /\ t.job[x] = job[x])
  BY <1>2, RetireFacts
<1>4. PICK f : After(f, [tx |-> t, pending |-> <<>>], keys, o, n) /\ Reconciled(tx, cands, o) = f[n]
  BY <1>1, <1>2, ReconciledIs
<1> HIDE DEF n, keys
<1> DEFINE Good(a) == /\ Tables(a)
                      /\ \A x \in Key :
                           /\ Current(x) => CoStep(x, row[x], job[x], a.row[x], a.job[x])
                           /\ ~Current(x) => a.row[x] = t.row[x] /\ a.job[x] = t.job[x]
<1>5. f[0] = [tx |-> t, pending |-> <<>>]
  BY <1>1, <1>4 DEF After
<1>6. \A m \in 1..n : f[m] = IF Current(keys[m]) THEN Counted(f[m - 1], keys[m], o) ELSE f[m - 1]
  BY <1>1, <1>4 DEF After
<1>7. Good(f[0].tx)
  BY <1>3, <1>5, CoStepNothing
<1>8. ASSUME NEW m \in 1..n, Good(f[m - 1].tx) PROVE Good(f[m].tx)
  <2>1. CASE ~Current(keys[m])
    BY <1>6, <1>8, <2>1
  <2>2. CASE Current(keys[m])
    <3>1. PICK a : a = f[m - 1].tx
      OBVIOUS
    <3>2. PICK k : k = keys[m]
      OBVIOUS
    <3>3. PICK c : c = Coalesce(a, k, 3, o)
      OBVIOUS
    <3>4. f[m].tx = c
      <4>1. f[m] = Counted(f[m - 1], k, o)
        BY <1>6, <2>2, <3>2
      <4> QED
        BY <3>1, <3>3, <4>1 DEF Counted
    <3>5. Good(a) /\ Current(k)
      BY <1>8, <2>2, <3>1, <3>2
    <3>6. Tables(a) /\ 3 \in 0..3
      BY <3>5
    <3>7. Tables(c) /\ \A x \in Key : /\ CoStep(x, a.row[x], a.job[x], c.row[x], c.job[x])
                                      /\ x # k => c.row[x] = a.row[x] /\ c.job[x] = a.job[x]
      BY <3>3, <3>6, CoalesceFacts
    <3>8. ASSUME NEW x \in Key, Current(x) PROVE CoStep(x, row[x], job[x], c.row[x], c.job[x])
      <4>1. CoStep(x, row[x], job[x], a.row[x], a.job[x]) /\ CoStep(x, a.row[x], a.job[x], c.row[x], c.job[x])
        BY <3>5, <3>7, <3>8
      <4> QED
        BY <4>1, CoStepRepeats
    <3>9. ASSUME NEW x \in Key, ~Current(x) PROVE c.row[x] = t.row[x] /\ c.job[x] = t.job[x]
      BY <3>5, <3>7, <3>9
    <3> QED
      BY <3>4, <3>7, <3>8, <3>9
  <2> QED
    BY <2>1, <2>2
<1> HIDE DEF Good
<1> DEFINE Bad == {m \in 1..n : ~Good(f[m].tx)}
<1>9. ASSUME Bad # {} PROVE FALSE
  <2>1. PICK m \in Bad : \A y \in Bad : m <= y
    BY <1>1, <1>9, LeastOf
  <2>2. m \in 1..n /\ (m - 1 = 0 \/ m - 1 \in 1..n) /\ m - 1 \notin Bad
    BY <1>1, <2>1
  <2>3. Good(f[m - 1].tx)
    BY <1>7, <2>2
  <2> QED
    BY <1>8, <2>1, <2>2, <2>3
<1>10. n = 0 \/ n \in 1..n
  BY <1>1
<1>11. Good(f[n].tx)
  BY <1>7, <1>9, <1>10
<1>12. ASSUME NEW x \in Key PROVE TxStep(x, f[n].tx)
  <2>1. CASE Current(x)
    <3>1. CoStep(x, row[x], job[x], f[n].tx.row[x], f[n].tx.job[x])
      BY <1>11, <2>1 DEF Good
    <3> QED
      BY <3>1, CoStepIsTxStep
  <2>2. CASE ~Current(x)
    <3>1. TxStep(x, t) /\ f[n].tx.row[x] = t.row[x] /\ f[n].tx.job[x] = t.job[x]
      BY <1>3, <1>11, <2>2 DEF Good
    <3> QED
      BY <3>1 DEF TxStep
  <2> QED
    BY <2>1, <2>2
<1>13. \A x \in Key : ~Current(x) => f[n].tx.row[x] = t.row[x] /\ f[n].tx.job[x] = t.job[x]
  BY <1>11 DEF Good
<1> QED
  BY <1>2, <1>4, <1>11, <1>12, <1>13 DEF Good
-----------------------------------------------------------------------------
(* Kinds of steps.                                                         *)

\* While an eviction or a discard is under way a row names no other file.
NamesKept == EvictionFree \/ \A k \in Key : row'[k].path \in {0, row[k].path}

\* What is shown of every step: it keeps the invariant, is a step of the queue, leaves
\* no derivative waiting for nobody, and names no other file under an eviction.
StepOK == DerivInv' /\ Queue!Next /\ (\A k \in Key : StillMoved(k)) /\ NamesKept

\* Only a worker's completion names a file.
LEMMA RowStepsKeepNames ==
  ASSUME \A k \in Key : RowStep(k)
  PROVE  NamesKept
<1>1. ASSUME NEW k \in Key PROVE row'[k].path \in {0, row[k].path}
  BY DEF RowStep, RowLost, RowKept, RowEmptied
<1> QED
  BY <1>1 DEF NamesKept

\* The caller goes on with the eviction it had, or with none.
NewOp(o) ==
  /\ o = [kind |-> o.kind, stage |-> o.stage, keys |-> o.keys, cands |-> o.cands, drop |-> o.drop,
          sel |-> o.sel, gone |-> o.gone, prio |-> o.prio, o |-> o.o, by |-> o.by]
  /\ o.prio \in 0..3 /\ o.drop \subseteq Key /\ Len(o.cands) \in Nat
  /\ o.sel \in {op.sel, {}}

\* A caller may be done.
LEMMA NoOpIsNew == NewOp(NoOp)
<1>1. Len(<<>>) = 0
  OBVIOUS
<1> QED
  BY <1>1 DEF NewOp, NoOp

\* A caller may stay where it is.
LEMMA OpStays ==
  ASSUME OpOK
  PROVE  NewOp(op)
BY DEF OpOK, NewOp

\* Rows under eviction stay as they are, or no eviction is under way any more.
EvictionStays == \A k \in Key : row'[k].st = "evicted" => row[k].st = "evicted" /\ row'[k].path = row[k].path

\* What a caller has under eviction stays named.
LEMMA OpMoves ==
  ASSUME OpOK, NEW o, o = op', NewOp(o), EvictionStays
  PROVE  OpOK'
<1>1. /\ o = [kind |-> o.kind, stage |-> o.stage, keys |-> o.keys, cands |-> o.cands, drop |-> o.drop,
              sel |-> o.sel, gone |-> o.gone, prio |-> o.prio, o |-> o.o, by |-> o.by]
      /\ o.prio \in 0..3 /\ o.drop \subseteq Key /\ Len(o.cands) \in Nat
  BY DEF NewOp
<1>2. \A k \in Key : k \in o.sel /\ row'[k].st = "evicted" => row'[k].path # 0
  BY DEF NewOp, OpOK, EvictionStays
<1> QED
  BY <1>1, <1>2 DEF OpOK

\* The parts of the invariant together.
LEMMA AllKept ==
  ASSUME DerivInv, World', row' \in [Key -> Row], job' \in [Key -> Job], claims' = claims,
         \A k \in Key : KeyStep(k),
         worker' \in [Workers -> WorkerRec],
         \A w \in Workers : Shape(worker'[w]) /\ Has(worker'[w]) \subseteq Has(worker[w]),
         OpOK', SweepOK', AuditOK'
  PROVE  DerivInv' /\ \A k \in Key : StillMoved(k)
<1>1. Rows /\ Crew
  BY DEF DerivInv
<1>2. Rows'
  BY <1>1, RowsKept
<1>3. Crew'
  BY <1>1, CrewKept
<1>4. \A k \in Key : StillMoved(k)
  BY DEF KeyStep
<1> QED
  BY <1>2, <1>3, <1>4 DEF DerivInv

\* Workers and their claims stay.
LEMMA SameWorkers ==
  ASSUME Crew, worker' = worker
  PROVE  /\ worker' \in [Workers -> WorkerRec]
         /\ \A w \in Workers : Shape(worker'[w]) /\ Has(worker'[w]) \subseteq Has(worker[w])
         /\ \A k : HeldTokens(k)' = HeldTokens(k)
BY HeldNow DEF Crew

\* A transaction that touches no eviction, while the workers stay.
LEMMA RowsStepOK ==
  ASSUME DerivInv, World', row' \in [Key -> Row], job' \in [Key -> Job], UNCHANGED <<claims, worker>>,
         \A k \in Key : KeyStep(k) /\ RowStep(k),
         OpOK', SweepOK', AuditOK'
  PROVE  StepOK
<1>1. Crew /\ Rows
  BY DEF DerivInv
<1>2. DerivInv' /\ \A k \in Key : StillMoved(k)
  BY <1>1, AllKept, SameWorkers
<1>3. ASSUME NEW k \in Key PROVE Queue!Move(k)
  <2>1. KeyOK(k) /\ job[k].st \in JobStates
    BY <1>1 DEF Rows, Job
  <2>2. HeldTokens(k)' = HeldTokens(k)
    BY <1>1, SameWorkers
  <2>3. KeyStep(k) /\ RowStep(k)
    OBVIOUS
  <2> QED
    BY <2>1, <2>2, <2>3, KeyStepMoves
<1>4. NamesKept
  BY RowStepsKeepNames
<1> QED
  BY <1>2, <1>3, <1>4 DEF StepOK, Queue!Next

\* A step of a transaction, once committed, is a step of each derivative.
LEMMA TxStepIsKeyStep ==
  ASSUME NEW t, NEW k \in Key, TxStep(k, t), row' = t.row, job' = t.job, audit'.misled = audit.misled
  PROVE  KeyStep(k) /\ RowStep(k)
BY DEF TxStep, KeyStep, RowStep, StillMoved

\* A transaction of a caller or of the supervisor.
LEMMA TxStepOK ==
  ASSUME DerivInv, World', NEW t, Tables(t), \A k \in Key : TxStep(k, t), row' = t.row, job' = t.job,
         UNCHANGED <<claims, worker, audit>>, NEW o, o = op', NewOp(o),
         sweep' = sweep \/ sweep' = NoSweep
  PROVE  StepOK
<1>1. \A k \in Key : KeyStep(k) /\ RowStep(k)
  BY TxStepIsKeyStep
<1>2. EvictionStays
  BY DEF EvictionStays, TxStep
<1>3. OpOK'
  BY <1>2, OpMoves DEF DerivInv
<1>4. SweepOK'
  BY <1>1, SweepKept, SweepOver DEF DerivInv
<1>5. AuditOK'
  BY <1>1, AuditKept DEF DerivInv
<1>6. row' \in [Key -> Row] /\ job' \in [Key -> Job]
  BY DEF Tables
<1> QED
  BY <1>1, <1>3, <1>4, <1>5, <1>6, RowsStepOK

\* Nothing happens to the rows.
LEMMA NothingHappens ==
  ASSUME DerivInv, row' = row, job' = job, \A k \in Key : k \in audit.misled => k \in audit'.misled
  PROVE  /\ \A k \in Key : KeyStep(k) /\ RowStep(k)
         /\ EvictionStays
         /\ row' \in [Key -> Row] /\ job' \in [Key -> Job]
<1>1. ASSUME NEW k \in Key PROVE KeyStep(k) /\ RowStep(k)
  <2>1. job[k].attempts <= MaxAttempts
    BY DEF DerivInv, Rows, KeyOK
  <2> QED
    BY <2>1 DEF KeyStep, RowStep, StillMoved, JobStep, JobStays, JobQueues, ActiveJob
<1> QED
  BY <1>1 DEF EvictionStays, DerivInv, Rows

\* A step of the world, of a caller or of the supervisor that leaves the rows alone.
LEMMA QuietStepOK ==
  ASSUME DerivInv, World', UNCHANGED <<row, job, claims, worker>>, NEW o, o = op', NewOp(o),
         SweepOK', AuditOK', audit'.misled = audit.misled
  PROVE  StepOK
<1>1. /\ \A k \in Key : KeyStep(k) /\ RowStep(k)
      /\ EvictionStays
      /\ row' \in [Key -> Row] /\ job' \in [Key -> Job]
  BY NothingHappens
<1>2. OpOK'
  BY <1>1, OpMoves DEF DerivInv
<1> QED
  BY <1>1, <1>2, RowsStepOK

\* ... and the supervisor and the integrity pass, too.
LEMMA IdleStepOK ==
  ASSUME DerivInv, World', UNCHANGED <<row, job, claims, worker, sweep, audit>>, NEW o, o = op', NewOp(o)
  PROVE  StepOK
<1>1. \A k \in Key : KeyStep(k)
  BY NothingHappens
<1>2. SweepOK' /\ AuditOK'
  BY <1>1, SweepKept, AuditKept DEF DerivInv
<1> QED
  BY <1>2, QuietStepOK

\* A worker goes on, or lets go of claims.
LEMMA TokensFewer ==
  ASSUME Crew, worker' \in [Workers -> WorkerRec],
         \A w \in Workers : Has(worker'[w]) \subseteq Has(worker[w]), NEW k
  PROVE  HeldTokens(k)' \subseteq HeldTokens(k)
<1>1. worker \in [Workers -> WorkerRec]
  BY DEF Crew
<1>2. HeldTokens(k) = Tokens(worker, k) /\ HeldTokens(k)' = Tokens(worker', k)
  BY <1>1, HeldNow
<1>3. Tokens(worker', k) \subseteq Tokens(worker, k)
  BY DEF Tokens
<1> QED
  BY <1>2, <1>3

\* The other workers stay.
LEMMA OneWorker ==
  ASSUME Crew, NEW w \in Workers, NEW r \in WorkerRec, worker' = [worker EXCEPT ![w] = r],
         Shape(r), Has(r) \subseteq Has(worker[w])
  PROVE  /\ worker' \in [Workers -> WorkerRec]
         /\ \A v \in Workers : Shape(worker'[v]) /\ Has(worker'[v]) \subseteq Has(worker[v])
<1>1. worker \in [Workers -> WorkerRec] /\ \A v \in Workers : Shape(worker[v])
  BY DEF Crew
<1>2. \A v \in Workers : worker'[v] = IF v = w THEN r ELSE worker[v]
  BY <1>1
<1>3. worker' \in [Workers -> WorkerRec]
  BY <1>1
<1> QED
  BY <1>1, <1>2, <1>3

\* A worker moves and the rows stay.
LEMMA WorkerStepOK ==
  ASSUME DerivInv, World', NEW w \in Workers, NEW r \in WorkerRec, worker' = [worker EXCEPT ![w] = r],
         Shape(r), Has(r) \subseteq Has(worker[w]), UNCHANGED <<row, job, claims, sweep, audit>>,
         NEW o, o = op', NewOp(o)
  PROVE  StepOK
<1>1. Crew
  BY DEF DerivInv
<1>2. /\ \A k \in Key : KeyStep(k) /\ RowStep(k)
      /\ EvictionStays
      /\ row' \in [Key -> Row] /\ job' \in [Key -> Job]
  BY NothingHappens
<1>3. SweepOK' /\ AuditOK' /\ OpOK'
  BY <1>2, SweepKept, AuditKept, OpMoves DEF DerivInv
<1>4. /\ worker' \in [Workers -> WorkerRec]
      /\ \A v \in Workers : Shape(worker'[v]) /\ Has(worker'[v]) \subseteq Has(worker[v])
  BY <1>1, OneWorker
<1>5. DerivInv' /\ \A k \in Key : StillMoved(k)
  BY <1>2, <1>3, <1>4, AllKept
<1>6. ASSUME NEW k \in Key PROVE Queue!Move(k)
  <2>1. HeldTokens(k)' \subseteq HeldTokens(k)
    BY <1>1, <1>4, TokensFewer
  <2>2. OfferStep(k)
    BY <1>2, RowStepOffers
  <2>3. Phase(job'[k]) = Phase(job[k]) /\ job'[k].token = job[k].token
    OBVIOUS
  <2> QED
    BY <2>1, <2>2, <2>3, LetsGo
<1>7. NamesKept
  BY <1>2, RowStepsKeepNames
<1> QED
  BY <1>5, <1>6, <1>7 DEF StepOK, Queue!Next

-----------------------------------------------------------------------------
(* A worker ends claims.                                                   *)

\* A worker has at most one claim in hand.
LEMMA FewInHand ==
  ASSUME NEW r \in WorkerRec, Shape(r)
  PROVE  /\ r.open \in Seq(Claim) /\ r.cur \in Seq(Claim)
         /\ Len(r.open) \in Nat
         /\ Len(r.cur) \in {0, 1} /\ (Len(r.cur) = 0 => r.cur = <<>>)
<1>1. r.open \in Seq(Claim) /\ r.cur \in Seq(Claim) /\ r.pc \in WorkerStates
  BY DEF WorkerRec
<1>2. r.cur = <<>> \/ Len(r.cur) = 1
  BY <1>1 DEF Shape, WorkerStates
<1>3. Len(<<>>) = 0
  OBVIOUS
<1> QED
  BY <1>1, <1>2, <1>3

\* Its claims are of different derivatives.
LEMMA OneEach ==
  ASSUME NEW r \in WorkerRec, Shape(r), NEW c \in Has(r), NEW d \in Has(r), c.key = d.key
  PROVE  c = d
<1>1. r.open \in Seq(Claim) /\ r.cur \in Seq(Claim) /\ Len(r.open) \in Nat /\ Len(r.cur) \in {0, 1}
  BY FewInHand
<1>2. /\ \A x : x \in ToSet(r.open) <=> \E i \in 1..Len(r.open) : x = r.open[i]
      /\ \A x : x \in ToSet(r.cur) <=> \E i \in 1..Len(r.cur) : x = r.cur[i]
  BY <1>1, Elements
<1>3. CASE c \in ToSet(r.open) /\ d \in ToSet(r.open)
  BY <1>2, <1>3 DEF Shape
<1>4. CASE c \in ToSet(r.cur) /\ d \in ToSet(r.cur)
  <2>1. PICK i \in 1..Len(r.cur), j \in 1..Len(r.cur) : c = r.cur[i] /\ d = r.cur[j]
    BY <1>2, <1>4
  <2>2. i = j
    BY <1>1, <2>1
  <2> QED
    BY <2>1, <2>2
<1>5. CASE (c \in ToSet(r.open) /\ d \in ToSet(r.cur)) \/ (c \in ToSet(r.cur) /\ d \in ToSet(r.open))
  BY <1>2, <1>5 DEF Shape
<1> QED
  BY <1>3, <1>4, <1>5 DEF Has

\* When a worker lets go of its claim c, nobody holds that token any more.
LEMMA TokenDropped ==
  ASSUME Crew, NEW w \in Workers, NEW r \in WorkerRec, worker' = [worker EXCEPT ![w] = r],
         Has(r) \subseteq Has(worker[w]), Shape(r),
         NEW c \in Has(worker[w]), \A d \in Has(r) : d.key # c.key
  PROVE  /\ c.token \in HeldTokens(c.key)
         /\ HeldTokens(c.key)' = HeldTokens(c.key) \ {c.token}
<1>1. worker \in [Workers -> WorkerRec] /\ \A v \in Workers : Shape(worker[v])
  BY DEF Crew
<1>2. worker' \in [Workers -> WorkerRec] /\ \A v \in Workers : worker'[v] = IF v = w THEN r ELSE worker[v]
  BY <1>1
<1>3. HeldTokens(c.key) = Tokens(worker, c.key) /\ HeldTokens(c.key)' = Tokens(worker', c.key)
  BY <1>1, <1>2, HeldNow
<1>4. c.token \in Tokens(worker, c.key)
  BY DEF Tokens
<1>5. ASSUME NEW x \in Tokens(worker', c.key) PROVE x \in Tokens(worker, c.key) /\ x # c.token
  <2>1. PICK v \in Workers : \E d \in Has(worker'[v]) : d.key = c.key /\ d.token = x
    BY <1>5 DEF Tokens
  <2>2. PICK d \in Has(worker'[v]) : d.key = c.key /\ d.token = x
    BY <2>1
  <2>3. v # w /\ d \in Has(worker[v])
    BY <1>2, <2>2
  <2>4. Differ(worker[v], worker[w])
    BY <2>3 DEF Crew
  <2>5. d.token # c.token
    BY <2>2, <2>3, <2>4 DEF Differ
  <2> QED
    BY <2>2, <2>3, <2>5, TokenIn
<1>6. ASSUME NEW x \in Tokens(worker, c.key), x # c.token PROVE x \in Tokens(worker', c.key)
  <2>1. PICK v \in Workers : \E d \in Has(worker[v]) : d.key = c.key /\ d.token = x
    BY <1>6, TokenIn
  <2>2. PICK d \in Has(worker[v]) : d.key = c.key /\ d.token = x
    BY <2>1
  <2>3. v # w
    <3>1. ASSUME v = w PROVE FALSE
      <4>1. d = c
        BY <1>1, <2>2, <3>1, OneEach
      <4> QED
        BY <1>6, <2>2, <4>1
    <3> QED
      BY <3>1
  <2>4. d \in Has(worker'[v])
    BY <1>2, <2>2, <2>3
  <2> QED
    BY <2>2, <2>4, TokenIn
<1> QED
  BY <1>3, <1>4, <1>5, <1>6

\* A worker ends claims it owns, and lets go of claims it no longer owns.
LEMMA OwnerStepOK ==
  ASSUME DerivInv, World', NEW w \in Workers, NEW r \in WorkerRec, worker' = [worker EXCEPT ![w] = r],
         Shape(r), Has(r) \subseteq Has(worker[w]), UNCHANGED <<claims, op, sweep, audit>>,
         row' \in [Key -> Row], job' \in [Key -> Job],
         \A k \in Key : KeyStep(k), EvictionStays, NamesKept,
         \A k \in Key :
           \/ row'[k] = row[k] /\ job'[k] = job[k]
           \/ \E c \in Has(worker[w]) :
                /\ c.key = k /\ Owns(c) /\ \A d \in Has(r) : d.key # k
                /\ JobEnds(job[k], job'[k]) \/ JobReturns(job[k], job'[k])
  PROVE  StepOK
<1>1. Crew /\ OpOK
  BY DEF DerivInv
<1>2. SweepOK' /\ AuditOK'
  BY SweepKept, AuditKept DEF DerivInv
<1>3. OpOK'
  BY <1>1, OpStays, OpMoves
<1>4. /\ worker' \in [Workers -> WorkerRec]
      /\ \A v \in Workers : Shape(worker'[v]) /\ Has(worker'[v]) \subseteq Has(worker[v])
  BY <1>1, OneWorker
<1>5. DerivInv' /\ \A k \in Key : StillMoved(k)
  BY <1>2, <1>3, <1>4, AllKept
<1>6. ASSUME NEW k \in Key PROVE Queue!Move(k)
  <2>1. CASE row'[k] = row[k] /\ job'[k] = job[k]
    <3>1. HeldTokens(k)' \subseteq HeldTokens(k)
      BY <1>1, <1>4, TokensFewer
    <3>2. RowStep(k) /\ (k \in audit.misled => k \in audit'.misled)
      BY <2>1 DEF RowStep
    <3>3. OfferStep(k)
      BY <3>2, RowStepOffers
    <3>4. Phase(job'[k]) = Phase(job[k]) /\ job'[k].token = job[k].token
      BY <2>1
    <3> QED
      BY <3>1, <3>3, <3>4, LetsGo
  <2>2. ASSUME NEW c \in Has(worker[w]), c.key = k, Owns(c), \A d \in Has(r) : d.key # k,
               JobEnds(job[k], job'[k]) \/ JobReturns(job[k], job'[k])
        PROVE  Queue!Move(k)
    <3>1. job[k].st = "running" /\ job[k].token = c.token
      BY <2>2 DEF Owns
    <3>2. c.token \in HeldTokens(c.key) /\ HeldTokens(c.key)' = HeldTokens(c.key) \ {c.token}
      BY <1>1, <2>2, TokenDropped
    <3>3. job[k].token \in HeldTokens(k) /\ HeldTokens(k)' = HeldTokens(k) \ {job[k].token}
      BY <2>2, <3>1, <3>2
    <3>4. k \in audit.misled => k \in audit'.misled
      OBVIOUS
    <3>5. RowStep(k) \/ RowMade(k)
      BY DEF KeyStep
    <3>6. OfferStep(k) \/ (RowMade(k) /\ (k \in audit.misled => k \in audit'.misled))
      BY <3>4, <3>5, RowStepOffers
    <3> QED
      BY <2>2, <3>1, <3>3, <3>6, OwnerEnds
  <2> QED
    BY <2>1, <2>2
<1> QED
  BY <1>5, <1>6 DEF StepOK, Queue!Next

-----------------------------------------------------------------------------
(* The steps of a worker that write no row.                                *)

\* A budget that is spent stays one.
LEMMA SpendFacts ==
  ASSUME World, NEW what, Spend(what)
  PROVE  left' \in [DOMAIN Budget -> Nat]
<1>1. left \in [DOMAIN Budget -> Nat] /\ left[what] > 0 /\ left' = [left EXCEPT ![what] = left[what] - 1]
  BY DEF World, Spend
<1>2. ASSUME NEW x \in DOMAIN Budget PROVE left'[x] \in Nat
  <2>1. left[x] \in Nat
    BY <1>1
  <2>2. left'[x] = IF x = what THEN left[what] - 1 ELSE left[x]
    BY <1>1
  <2> QED
    BY <1>1, <2>1, <2>2
<1>3. left' = [x \in DOMAIN Budget |-> left'[x]]
  BY <1>1
<1> QED
  BY <1>2, <1>3

\* The world stays, and the budget may shrink.
LEMMA WorldStays ==
  ASSUME World, UNCHANGED <<disk, cat, file, generating, served, deferred>>,
         left' = left \/ \E what : Spend(what)
  PROVE  World'
<1>1. left' \in [DOMAIN Budget -> Nat]
  BY SpendFacts DEF World
<1> QED
  BY <1>1 DEF World

\* Idle workers, and those about to enforce the quota, hold nothing.
LEMMA IdleFacts ==
  /\ Idle \in WorkerRec /\ Shape(Idle) /\ Has(Idle) = {}
  /\ [Idle EXCEPT !.pc = "quota"] \in WorkerRec /\ Shape([Idle EXCEPT !.pc = "quota"])
  /\ Has([Idle EXCEPT !.pc = "quota"]) = {}
<1>1. <<>> \in Seq(Claim) /\ Len(<<>>) = 0 /\ ToSet(<<>>) = {}
  BY DEF ToSet
<1>2. 0 \in 0..MaxIdent /\ {} \in SUBSET Key
  BY DerivativeAssumption
<1>3. Idle \in WorkerRec /\ [Idle EXCEPT !.pc = "quota"] \in WorkerRec
  BY <1>1, <1>2 DEF Idle, WorkerRec, WorkerStates
<1>4. ASSUME NEW r, r \in {Idle, [Idle EXCEPT !.pc = "quota"]} PROVE Shape(r) /\ Has(r) = {}
  <2>1. r.pc \in {"idle", "quota"} /\ r.open = <<>> /\ r.cur = <<>>
    BY <1>4 DEF Idle
  <2> QED
    BY <1>1, <2>1 DEF Shape, Has
<1> QED
  BY <1>3, <1>4

\* A worker moves on with the claims it has.
LEMMA GoesOn ==
  ASSUME NEW r \in WorkerRec, Shape(r), NEW s, s.open = r.open, s.cur = r.cur,
         \/ /\ r.pc \in {"claimed", "checked", "stated", "pathed", "keyed", "failing"}
            /\ s.pc \in {"claimed", "checked", "stated", "pathed", "keyed", "failing"}
         \/ r.pc \in {"rendered", "valid"} /\ s.pc \in {"rendered", "valid"}
         \/ r.pc = "handled" /\ s.pc \in {"releasing", "closing"}
         \/ r.pc = "handled" /\ s.pc = "keyed" /\ r.open # <<>>
  PROVE  Shape(s) /\ Has(s) \subseteq Has(r)
BY DEF Shape, Has

\* t is s without its element at n.
Less(s, t, n) ==
  /\ t \in Seq(Claim) /\ Len(t) = Len(s) - 1
  /\ \A i \in 1..(Len(s) - 1) : t[i] = IF i < n THEN s[i] ELSE s[i + 1]

\* A tail is a sequence without its first element.
LEMMA TailIsLess ==
  ASSUME NEW s \in Seq(Claim), s # <<>>
  PROVE  Less(s, Tail(s), 1) /\ Head(s) = s[1] /\ 1 \in 1..Len(s)
<1>1. Len(s) \in Nat /\ Len(s) >= 1 /\ Tail(s) \in Seq(Claim) /\ Len(Tail(s)) = Len(s) - 1 /\ Head(s) = s[1]
  BY Elements
<1>2. ASSUME NEW i \in 1..(Len(s) - 1) PROVE Tail(s)[i] = s[i + 1]
  BY <1>2
<1> QED
  BY <1>1, <1>2 DEF Less

\* The claims that are left are different still.
LEMMA LessFacts ==
  ASSUME NEW r \in WorkerRec, Shape(r), NEW n \in 1..Len(r.open), NEW t, Less(r.open, t, n)
  PROVE  /\ ToSet(t) \subseteq ToSet(r.open)
         /\ \A i, j \in 1..Len(t) : t[i].key = t[j].key => i = j
         /\ \A i \in 1..Len(t) : t[i].key # r.open[n].key
<1>1. r.open \in Seq(Claim) /\ Len(r.open) \in Nat
  BY DEF WorkerRec
<1>2. t \in Seq(Claim) /\ Len(t) = Len(r.open) - 1
      /\ \A i \in 1..(Len(r.open) - 1) : t[i] = IF i < n THEN r.open[i] ELSE r.open[i + 1]
  BY DEF Less
<1>3. \A i, j \in 1..Len(r.open) : r.open[i].key = r.open[j].key => i = j
  BY DEF Shape
<1>4. ASSUME NEW i \in 1..Len(t)
      PROVE  \E m \in 1..Len(r.open) : m = (IF i < n THEN i ELSE i + 1) /\ m # n /\ t[i] = r.open[m]
  BY <1>1, <1>2
<1>5. ASSUME NEW x \in ToSet(t) PROVE x \in ToSet(r.open)
  <2>1. PICK i \in 1..Len(t) : x = t[i]
    BY <1>2, Elements
  <2>2. PICK m \in 1..Len(r.open) : t[i] = r.open[m]
    BY <1>4
  <2> QED
    BY <1>1, <2>1, <2>2, Elements
<1>6. ASSUME NEW i \in 1..Len(t), NEW j \in 1..Len(t), t[i].key = t[j].key PROVE i = j
  <2>1. PICK m \in 1..Len(r.open) : m = (IF i < n THEN i ELSE i + 1) /\ t[i] = r.open[m]
    BY <1>4
  <2>2. PICK o \in 1..Len(r.open) : o = (IF j < n THEN j ELSE j + 1) /\ t[j] = r.open[o]
    BY <1>4
  <2>3. m = o
    BY <1>3, <1>6, <2>1, <2>2
  <2>4. i \in Nat /\ j \in Nat /\ n \in Nat
    BY <1>2
  <2> QED
    BY <2>1, <2>2, <2>3, <2>4
<1>7. ASSUME NEW i \in 1..Len(t) PROVE t[i].key # r.open[n].key
  BY <1>3, <1>4
<1> QED
  BY <1>5, <1>6, <1>7

\* A sequence of one claim, and of none.
LEMMA Single ==
  ASSUME NEW c \in Claim
  PROVE  /\ <<c>> \in Seq(Claim) /\ Len(<<c>>) = 1 /\ <<c>>[1] = c /\ ToSet(<<c>>) = {c} /\ <<c>> # <<>>
         /\ <<>> \in Seq(Claim) /\ Len(<<>>) = 0 /\ ToSet(<<>>) = {}
BY DEF ToSet

\* A worker takes one of its open claims in hand.
LEMMA TakesInHand ==
  ASSUME NEW r \in WorkerRec, Shape(r), r.pc = "keyed", NEW n \in 1..Len(r.open), NEW t, Less(r.open, t, n),
         NEW s, s.pc = "rendered", s.open = t, s.cur = <<r.open[n]>>
  PROVE  Shape(s) /\ Has(s) \subseteq Has(r)
<1>1. r.open \in Seq(Claim) /\ r.open[n] \in Claim /\ r.open[n] \in ToSet(r.open)
  <2>1. r.open \in Seq(Claim)
    BY DEF WorkerRec
  <2> QED
    BY <2>1, Elements
<1>2. Len(s.cur) = 1 /\ s.cur[1] = r.open[n] /\ ToSet(s.cur) = {r.open[n]}
  BY <1>1, Single
<1>3. /\ ToSet(t) \subseteq ToSet(r.open)
      /\ \A i, j \in 1..Len(t) : t[i].key = t[j].key => i = j
      /\ \A i \in 1..Len(t) : t[i].key # r.open[n].key
  BY LessFacts
<1>4. \A i \in 1..Len(s.open), j \in 1..Len(s.cur) : s.open[i].key # s.cur[j].key
  <2>1. \A j \in 1..Len(s.cur) : j = 1
    BY <1>2
  <2> QED
    BY <1>2, <1>3, <2>1
<1>5. Shape(s)
  BY <1>2, <1>3, <1>4 DEF Shape
<1>6. Has(s) \subseteq Has(r)
  BY <1>1, <1>2, <1>3 DEF Has
<1> QED
  BY <1>5, <1>6

\* A worker lets go of the claim in hand ...
LEMMA LetsGoOfCur ==
  ASSUME NEW r \in WorkerRec, Shape(r), r.cur # <<>>, NEW s, s.open = r.open, s.cur = <<>>,
         s.pc \in {"handled", "closing"} \/ (s.pc = "failing" /\ s.open # <<>>)
  PROVE  /\ Shape(s) /\ Has(s) \subseteq Has(r)
         /\ r.cur[1] \in Has(r) /\ \A d \in Has(s) : d.key # r.cur[1].key
<1>1. r.open \in Seq(Claim) /\ r.cur \in Seq(Claim) /\ Len(r.cur) = 1
  BY FewInHand
<1>2. r.cur[1] \in ToSet(r.cur)
  BY <1>1, Elements
<1>3. Len(s.cur) = 0 /\ ToSet(s.cur) = {}
  BY DEF ToSet
<1>4. \A i \in 1..Len(r.open) : r.open[i].key # r.cur[1].key
  BY <1>1 DEF Shape
<1>5. \A d \in ToSet(s.open) : d.key # r.cur[1].key
  BY <1>1, <1>4, Elements
<1>6. Shape(s)
  BY <1>3 DEF Shape
<1> QED
  BY <1>2, <1>3, <1>5, <1>6 DEF Has

\* ... of the first open claim.
LEMMA LetsGoOfFirst ==
  ASSUME NEW r \in WorkerRec, Shape(r), r.open # <<>>, r.cur = <<>>, NEW s, s.open = Tail(r.open), s.cur = <<>>,
         s.pc = IF Len(r.open) = 1 THEN "closing" ELSE "failing"
  PROVE  /\ Shape(s) /\ Has(s) \subseteq Has(r)
         /\ r.open[1] \in Has(r) /\ \A d \in Has(s) : d.key # r.open[1].key
<1>1. r.open \in Seq(Claim) /\ Len(r.open) \in Nat
  BY DEF WorkerRec
<1>2. Less(r.open, s.open, 1) /\ 1 \in 1..Len(r.open)
  BY <1>1, TailIsLess
<1>3. /\ ToSet(s.open) \subseteq ToSet(r.open)
      /\ \A i, j \in 1..Len(s.open) : s.open[i].key = s.open[j].key => i = j
      /\ \A i \in 1..Len(s.open) : s.open[i].key # r.open[1].key
  BY <1>2, LessFacts
<1>4. s.open \in Seq(Claim) /\ Len(s.open) = Len(r.open) - 1
  BY <1>2 DEF Less
<1>5. ASSUME NEW d \in ToSet(s.open) PROVE d.key # r.open[1].key
  <2>0. \A x : x \in ToSet(s.open) <=> \E i \in 1..Len(s.open) : x = s.open[i]
    BY <1>4, Elements
  <2>1. PICK i \in 1..Len(s.open) : d = s.open[i]
    BY <1>5, <2>0
  <2> QED
    BY <1>3, <2>1
<1>6. Len(s.cur) = 0 /\ ToSet(s.cur) = {} /\ Len(<<>>) = 0
  BY DEF ToSet
<1>7. s.pc = "failing" => s.open # <<>>
  <2>1. Len(r.open) >= 1
    BY <1>2
  <2>2. s.pc = "failing" => Len(r.open) # 1
    OBVIOUS
  <2>3. s.open = <<>> => Len(s.open) = 0
    BY <1>6
  <2>4. Len(s.open) = 0 => Len(r.open) = 1
    BY <1>1, <1>4
  <2> QED
    BY <2>2, <2>3, <2>4
<1>8. Shape(s)
  BY <1>3, <1>6, <1>7 DEF Shape
<1>9. r.open[1] \in ToSet(r.open)
  BY <1>1, <1>2, Elements
<1> QED
  BY <1>3, <1>5, <1>6, <1>8, <1>9 DEF Has

\* ... of everything.
LEMMA LetsGoOfAll ==
  ASSUME NEW s, s.pc = "closing", s.open = <<>>, s.cur = <<>>
  PROVE  Shape(s) /\ Has(s) = {}
<1>1. Len(<<>>) = 0 /\ ToSet(<<>>) = {}
  BY DEF ToSet
<1> QED
  BY <1>1 DEF Shape, Has

\* The same, with the caller's state unchanged.
LEMMA WorkerOnlyOK ==
  ASSUME DerivInv, World', NEW w \in Workers, NEW r \in WorkerRec, worker' = [worker EXCEPT ![w] = r],
         Shape(r), Has(r) \subseteq Has(worker[w]), UNCHANGED <<row, job, claims, sweep, audit, op>>
  PROVE  StepOK
<1>1. PICK o : o = op'
  OBVIOUS
<1>2. NewOp(o)
  BY <1>1, OpStays DEF DerivInv
<1> QED
  BY <1>1, <1>2, WorkerStepOK

\* The claim a worker looks at is one it holds.
LEMMA HandFacts ==
  ASSUME DerivInv, NEW w \in Workers, worker[w].open # <<>> \/ worker[w].cur # <<>>
  PROVE  /\ InHand(w) \in Has(worker[w]) /\ InHand(w) \in Claim
         /\ InHand(w).key \in Key /\ Asset(w) \in Assets /\ disk[Asset(w)] \in 0..MaxIdent
<1>1. worker[w] \in WorkerRec /\ Shape(worker[w])
  BY DEF DerivInv, Crew
<1>2. worker[w].open \in Seq(Claim) /\ worker[w].cur \in Seq(Claim)
  BY <1>1, FewInHand
<1>3. worker[w].cur # <<>> => worker[w].cur[1] \in ToSet(worker[w].cur)
  BY <1>2, Elements
<1>4. worker[w].open # <<>> => worker[w].open[1] \in ToSet(worker[w].open)
  BY <1>2, Elements
<1>5. InHand(w) \in Has(worker[w])
  BY <1>3, <1>4 DEF InHand, Has
<1>6. InHand(w) \in Claim
  BY <1>1, <1>5, HasClaims
<1>7. InHand(w).key \in Key
  BY <1>6 DEF Claim
<1>8. Asset(w) = InHand(w).key[1] /\ InHand(w).key[1] \in Assets
  BY <1>7 DEF Asset, InHand, Key
<1>9. disk[Asset(w)] \in 0..MaxIdent
  BY <1>8 DEF DerivInv, World
<1> QED
  BY <1>5, <1>6, <1>7, <1>8, <1>9

\* The paths of a worker's claims are cache paths.
LEMMA PathsFacts ==
  ASSUME NEW r \in WorkerRec, NEW i \in 1..MaxIdent
  PROVE  {PathOf(c.key, i) : c \in ToSet(r.open)} \subseteq Key
<1>1. ToSet(r.open) \subseteq Claim
  BY Elements DEF WorkerRec
<1>2. ASSUME NEW c \in ToSet(r.open) PROVE PathOf(c.key, i) \in Key
  <2>1. c.key \in Key
    BY <1>1 DEF Claim
  <2> QED
    BY <2>1 DEF PathOf, Key, Ident
<1> QED
  BY <1>2

\* What the invariant says of one worker.
LEMMA WorkerFacts ==
  ASSUME DerivInv, NEW w \in Workers
  PROVE  worker[w] \in WorkerRec /\ Shape(worker[w]) /\ World
BY DEF DerivInv, Crew

\* The codes a worker fails with.
LEMMA CodesFacts ==
  /\ \A c : Verdict(c) \in Codes \cup {"none"}
  /\ {"source_missing", "invalid_source", "transient", "internal_error", "none"} \subseteq Codes \cup {"none"}
BY DEF Verdict, Codes

\* _validate_claimed_source.
LEMMA ValidateOK ==
  ASSUME DerivInv, NEW w \in Workers, Validate(w)
  PROVE  StepOK
<1> DEFINE code == Verdict(InHand(w))
           next == IF worker[w].pc = "claimed" THEN "checked" ELSE "pathed"
           s == [worker[w] EXCEPT !.pc = IF code = "none" THEN next ELSE "failing", !.exc = code]
<1>1. worker[w] \in WorkerRec /\ Shape(worker[w]) /\ World
  BY WorkerFacts
<1>2. /\ worker[w].pc \in {"claimed", "stated"} /\ worker' = [worker EXCEPT ![w] = s]
      /\ UNCHANGED generating /\ WorkerOnly
  BY DEF Validate, Set
<1>3. code \in Codes \cup {"none"} /\ (IF code = "none" THEN next ELSE "failing") \in WorkerStates
  BY CodesFacts DEF WorkerStates
<1> HIDE DEF code, next
<1>4. s \in WorkerRec
  BY <1>1, <1>3 DEF WorkerRec
<1>5. s.open = worker[w].open /\ s.cur = worker[w].cur /\ s.pc = IF code = "none" THEN next ELSE "failing"
  BY <1>1 DEF WorkerRec
<1>6. s.pc \in {"checked", "pathed", "failing"}
  BY <1>5 DEF next
<1> HIDE DEF s
<1>7. Shape(s) /\ Has(s) \subseteq Has(worker[w])
  BY <1>1, <1>2, <1>5, <1>6, GoesOn
<1>8. World' /\ UNCHANGED <<row, job, claims, sweep, audit, op>>
  BY <1>1, <1>2, WorldStays DEF WorkerOnly, db
<1> QED
  BY <1>2, <1>4, <1>7, <1>8, WorkerOnlyOK

\* derivative_cache_path, under the file lock.
LEMMA CachePathsOK ==
  ASSUME DerivInv, NEW w \in Workers, CachePaths(w)
  PROVE  StepOK
<1> DEFINE i == disk[Asset(w)]
           paths == {PathOf(c.key, i) : c \in ToSet(worker[w].open)}
           next == IF worker[w].pc = "checked" THEN "pathed" ELSE "stated"
<1>1. worker[w] \in WorkerRec /\ Shape(worker[w]) /\ World
  BY WorkerFacts
<1>2. worker[w].pc \in {"checked", "claimed"} /\ WorkerOnly
  BY DEF CachePaths
<1>3. i \in 0..MaxIdent
  BY <1>1, <1>2, HandFacts DEF Shape
<1>4. UNCHANGED <<row, job, claims, sweep, audit, op, disk, cat, file, served, deferred, left>>
  BY <1>2 DEF WorkerOnly, db
<1>5. CASE i = 0
  <2> DEFINE s == [worker[w] EXCEPT !.pc = "failing", !.exc = "source_missing"]
  <2>1. worker' = [worker EXCEPT ![w] = s] /\ UNCHANGED generating
    BY <1>5 DEF CachePaths, Set
  <2>2. s \in WorkerRec
    BY <1>1 DEF WorkerRec, WorkerStates, Codes
  <2>3. s.open = worker[w].open /\ s.cur = worker[w].cur /\ s.pc = "failing"
    BY <1>1 DEF WorkerRec
  <2> HIDE DEF s
  <2>4. Shape(s) /\ Has(s) \subseteq Has(worker[w])
    BY <1>1, <1>2, <2>3, GoesOn
  <2>5. World'
    BY <1>1, <1>4, <2>1, WorldStays
  <2> QED
    BY <1>4, <2>1, <2>2, <2>4, <2>5, WorkerOnlyOK
<1>6. CASE i # 0
  <2> DEFINE s == [worker[w] EXCEPT !.pc = next, !.pid = i, !.gen = paths]
  <2>1. worker' = [worker EXCEPT ![w] = s] /\ generating' = generating \cup paths
    BY <1>6 DEF CachePaths, Set
  <2>2. i \in 1..MaxIdent
    BY <1>3, <1>6, DerivativeAssumption
  <2>3. paths \subseteq Key
    BY <1>1, <2>2, PathsFacts
  <2>4. next \in {"pathed", "stated"} /\ next \in WorkerStates
    BY DEF WorkerStates
  <2> HIDE DEF i, paths, next
  <2>5. s \in WorkerRec
    BY <1>1, <1>3, <2>3, <2>4 DEF WorkerRec
  <2>6. s.open = worker[w].open /\ s.cur = worker[w].cur /\ s.pc = next
    BY <1>1 DEF WorkerRec
  <2> HIDE DEF s
  <2>7. Shape(s) /\ Has(s) \subseteq Has(worker[w])
    BY <1>1, <1>2, <2>4, <2>6, GoesOn
  <2>8. World'
    BY <1>1, <1>4, <2>1, <2>3 DEF World
  <2> QED
    BY <1>4, <2>1, <2>5, <2>7, <2>8, WorkerOnlyOK
<1> QED
  BY <1>5, <1>6

\* A worker fails, or stats its source, with the claims it has.
LEMMA StatsOK ==
  ASSUME DerivInv, NEW w \in Workers, NEW s, worker' = [worker EXCEPT ![w] = s],
         worker[w].pc \in {"pathed", "keyed"}, NEW i \in 0..MaxIdent,
         s \in {[worker[w] EXCEPT !.pc = "failing", !.exc = "source_missing"],
                [worker[w] EXCEPT !.pc = "keyed", !.kid = i], [worker[w] EXCEPT !.img = i]},
         UNCHANGED generating, WorkerOnly
  PROVE  StepOK
<1>1. worker[w] \in WorkerRec /\ Shape(worker[w]) /\ World
  BY WorkerFacts
<1>2. s \in WorkerRec
  <2>1. [worker[w] EXCEPT !.pc = "failing", !.exc = "source_missing"] \in WorkerRec
    BY <1>1 DEF WorkerRec, WorkerStates, Codes
  <2>2. [worker[w] EXCEPT !.pc = "keyed", !.kid = i] \in WorkerRec
    BY <1>1 DEF WorkerRec, WorkerStates
  <2>3. [worker[w] EXCEPT !.img = i] \in WorkerRec
    BY <1>1 DEF WorkerRec
  <2> QED
    BY <2>1, <2>2, <2>3
<1>3. s.open = worker[w].open /\ s.cur = worker[w].cur /\ s.pc \in {"failing", "keyed", "pathed"}
  BY <1>1 DEF WorkerRec
<1>4. Shape(s) /\ Has(s) \subseteq Has(worker[w])
  BY <1>1, <1>3, GoesOn
<1>5. World' /\ UNCHANGED <<row, job, claims, sweep, audit, op>>
  BY <1>1, WorldStays DEF WorkerOnly, db
<1> QED
  BY <1>2, <1>4, <1>5, WorkerOnlyOK

\* The render keys are made.
LEMMA RenderKeysOK ==
  ASSUME DerivInv, NEW w \in Workers, RenderKeys(w)
  PROVE  StepOK
<1>1. worker[w].pc = "pathed" /\ UNCHANGED generating /\ WorkerOnly
  BY DEF RenderKeys
<1>2. worker[w].open # <<>>
  BY <1>1, WorkerFacts DEF Shape
<1>3. PICK i \in 0..MaxIdent : i = disk[Asset(w)]
  BY <1>2, HandFacts
<1>4. PICK s : /\ worker' = [worker EXCEPT ![w] = s]
               /\ s \in {[worker[w] EXCEPT !.pc = "failing", !.exc = "source_missing"],
                         [worker[w] EXCEPT !.pc = "keyed", !.kid = i], [worker[w] EXCEPT !.img = i]}
  BY <1>3 DEF RenderKeys, Set
<1> QED
  BY <1>1, <1>4, StatsOK

\* The source is decoded.
LEMMA DecodeOK ==
  ASSUME DerivInv, NEW w \in Workers, Decode(w)
  PROVE  StepOK
<1>1. worker[w].pc = "keyed" /\ UNCHANGED generating /\ WorkerOnly
  BY DEF Decode
<1>2. worker[w].open # <<>>
  BY <1>1, WorkerFacts DEF Shape
<1>3. PICK i \in 0..MaxIdent : i = disk[Asset(w)]
  BY <1>2, HandFacts
<1>4. PICK s : /\ worker' = [worker EXCEPT ![w] = s]
               /\ s \in {[worker[w] EXCEPT !.pc = "failing", !.exc = "source_missing"],
                         [worker[w] EXCEPT !.pc = "keyed", !.kid = i], [worker[w] EXCEPT !.img = i]}
  BY <1>3 DEF Decode, Set
<1> QED
  BY <1>1, <1>4, StatsOK

\* The claim the cascade produces next is an open one.
LEMMA NextClaimIsOpen ==
  ASSUME DerivInv, NEW w \in Workers, worker[w].open # <<>>
  PROVE  /\ NextClaim(w) \in 1..Len(worker[w].open)
         /\ Cached(w) # {} => NextClaim(w) \in Cached(w)
<1>1. worker[w].open \in Seq(Claim)
  BY WorkerFacts DEF WorkerRec
<1>2. Len(worker[w].open) \in Nat /\ Len(worker[w].open) >= 1 /\ DOMAIN worker[w].open = 1..Len(worker[w].open)
  BY <1>1, Elements
<1>3. Cached(w) \subseteq 1..Len(worker[w].open)
  BY <1>2 DEF Cached
<1>4. CASE Cached(w) = {}
  BY <1>2, <1>4 DEF NextClaim
<1>5. CASE Cached(w) # {}
  <2>1. \E n \in Cached(w) : \A m \in Cached(w) : n <= m
    BY <1>2, <1>3, <1>5, LeastOf
  <2>2. NextClaim(w) \in Cached(w)
    BY <1>5, <2>1 DEF NextClaim
  <2> QED
    BY <1>3, <2>2
<1> QED
  BY <1>4, <1>5

\* A variant is found or written.
LEMMA RenderOK ==
  ASSUME DerivInv, NEW w \in Workers, Render(w)
  PROVE  StepOK
<1>1. worker[w] \in WorkerRec /\ Shape(worker[w]) /\ World
  BY WorkerFacts
<1>2. worker[w].pc = "keyed" /\ UNCHANGED <<disk, cat, row, job, claims, generating, served, deferred, op, sweep, left, audit>>
  BY DEF Render, db
<1>3. worker[w].open # <<>>
  BY <1>1, <1>2 DEF Shape
<1>4. PICK n \in 1..Len(worker[w].open) : n = NextClaim(w)
  BY <1>3, NextClaimIsOpen
<1>5. PICK t : t = RemoveAt(worker[w].open, n)
  OBVIOUS
<1>6. PICK c : c = worker[w].open[n]
  OBVIOUS
<1>7. worker[w].open \in Seq(Claim)
  BY <1>1 DEF WorkerRec
<1>8. Less(worker[w].open, t, n) /\ t \in Seq(Claim)
  BY <1>5, <1>7, RemoveAtFacts DEF Less
<1>9. c \in Claim /\ <<c>> \in Seq(Claim)
  BY <1>6, <1>7
<1> DEFINE s == [worker[w] EXCEPT !.pc = "rendered", !.cur = <<c>>, !.open = t]
<1>10. worker' = [worker EXCEPT ![w] = s]
  BY <1>4, <1>5, <1>6 DEF Render, Set
<1>11. s \in WorkerRec
  BY <1>1, <1>8, <1>9 DEF WorkerRec, WorkerStates
<1>12. s.pc = "rendered" /\ s.open = t /\ s.cur = <<worker[w].open[n]>>
  BY <1>1, <1>6 DEF WorkerRec
<1> HIDE DEF s
<1>13. Shape(s) /\ Has(s) \subseteq Has(worker[w])
  BY <1>1, <1>2, <1>8, <1>12, TakesInHand
<1>14. file' \in [Key -> 0..MaxIdent]
  <2>1. worker[w].img \in 0..MaxIdent /\ file \in [Key -> 0..MaxIdent]
    BY <1>1 DEF WorkerRec, World
  <2>2. PICK p : file' = IF file[p] = 0 THEN [file EXCEPT ![p] = worker[w].img] ELSE file
    BY DEF Render
  <2> QED
    BY <2>1, <2>2
<1>15. World'
  BY <1>1, <1>2, <1>14 DEF World
<1> QED
  BY <1>2, <1>10, <1>11, <1>13, <1>15, WorkerOnlyOK

\* A decode or an encode fails.
LEMMA RenderFailsOK ==
  ASSUME DerivInv, NEW w \in Workers, RenderFails(w)
  PROVE  StepOK
<1>1. worker[w] \in WorkerRec /\ Shape(worker[w]) /\ World
  BY WorkerFacts
<1>2. worker[w].pc = "keyed" /\ Spend("fault")
      /\ UNCHANGED <<disk, cat, row, job, file, claims, generating, served, deferred, op, sweep, audit>>
  BY DEF RenderFails, db
<1>3. World'
  BY <1>1, <1>2, WorldStays
<1>4. PICK code \in {"invalid_source", "transient", "internal_error"} :
        worker' = [worker EXCEPT ![w] =
                     IF worker[w].img = 0 THEN [worker[w] EXCEPT !.pc = "failing", !.exc = code]
                     ELSE [worker[w] EXCEPT !.pc = "rendered", !.exc = code,
                                            !.cur = <<Head(worker[w].open)>>,
                                            !.open = Tail(worker[w].open)]]
  BY DEF RenderFails, Set
<1>5. code \in Codes \cup {"none"}
  BY DEF Codes
<1>6. CASE worker[w].img = 0
  <2> DEFINE s == [worker[w] EXCEPT !.pc = "failing", !.exc = code]
  <2>1. worker' = [worker EXCEPT ![w] = s]
    BY <1>4, <1>6
  <2>2. s \in WorkerRec
    BY <1>1, <1>5 DEF WorkerRec, WorkerStates
  <2>3. s.open = worker[w].open /\ s.cur = worker[w].cur /\ s.pc = "failing"
    BY <1>1 DEF WorkerRec
  <2> HIDE DEF s
  <2>4. Shape(s) /\ Has(s) \subseteq Has(worker[w])
    BY <1>1, <1>2, <2>3, GoesOn
  <2> QED
    BY <1>2, <1>3, <2>1, <2>2, <2>4, WorkerOnlyOK
<1>7. CASE worker[w].img # 0
  <2>1. worker[w].open # <<>> /\ worker[w].open \in Seq(Claim)
    BY <1>1, <1>2 DEF Shape, WorkerRec
  <2>2. PICK t : t = Tail(worker[w].open)
    OBVIOUS
  <2>3. PICK c : c = Head(worker[w].open)
    OBVIOUS
  <2>4. Less(worker[w].open, t, 1) /\ c = worker[w].open[1] /\ 1 \in 1..Len(worker[w].open)
    BY <2>1, <2>2, <2>3, TailIsLess
  <2>5. c \in Claim /\ <<c>> \in Seq(Claim) /\ t \in Seq(Claim)
    BY <2>1, <2>4 DEF Less
  <2> DEFINE s == [worker[w] EXCEPT !.pc = "rendered", !.exc = code, !.cur = <<c>>, !.open = t]
  <2>6. worker' = [worker EXCEPT ![w] = s]
    BY <1>4, <1>7, <2>2, <2>3
  <2>7. s \in WorkerRec
    BY <1>1, <1>5, <2>5 DEF WorkerRec, WorkerStates
  <2>8. s.pc = "rendered" /\ s.open = t /\ s.cur = <<worker[w].open[1]>>
    BY <1>1, <2>4 DEF WorkerRec
  <2> HIDE DEF s
  <2>9. Shape(s) /\ Has(s) \subseteq Has(worker[w])
    BY <1>1, <1>2, <2>4, <2>8, TakesInHand
  <2> QED
    BY <1>2, <1>3, <2>6, <2>7, <2>9, WorkerOnlyOK
<1> QED
  BY <1>6, <1>7

\* The source is validated again before the result is handed over.
LEMMA RevalidateOK ==
  ASSUME DerivInv, NEW w \in Workers, Revalidate(w)
  PROVE  StepOK
<1> DEFINE code == Verdict(InHand(w))
           next == IF code = "none" THEN "valid" ELSE "rendered"
           s == [worker[w] EXCEPT !.pc = next, !.exc = code]
<1>1. worker[w] \in WorkerRec /\ Shape(worker[w]) /\ World
  BY WorkerFacts
<1>2. /\ worker[w].pc = "rendered" /\ worker' = [worker EXCEPT ![w] = s]
      /\ UNCHANGED generating /\ WorkerOnly
  BY DEF Revalidate, Set
<1>3. code \in Codes \cup {"none"} /\ next \in {"valid", "rendered"} /\ next \in WorkerStates
  BY CodesFacts DEF WorkerStates
<1> HIDE DEF code, next
<1>4. s \in WorkerRec
  BY <1>1, <1>3 DEF WorkerRec
<1>5. s.open = worker[w].open /\ s.cur = worker[w].cur /\ s.pc = next
  BY <1>1 DEF WorkerRec
<1> HIDE DEF s
<1>6. Shape(s) /\ Has(s) \subseteq Has(worker[w])
  BY <1>1, <1>2, <1>3, <1>5, GoesOn
<1>7. World' /\ UNCHANGED <<row, job, claims, sweep, audit, op>>
  BY <1>1, <1>2, WorldStays DEF WorkerOnly, db
<1> QED
  BY <1>2, <1>4, <1>6, <1>7, WorkerOnlyOK

\* A batch goes on, yields or ends.
LEMMA ContinueOK ==
  ASSUME DerivInv, NEW w \in Workers, Continue(w)
  PROVE  StepOK
<1> DEFINE next == IF ShouldYield(w) THEN "releasing"
                   ELSE IF worker[w].open = <<>> THEN "closing" ELSE "keyed"
           s == [worker[w] EXCEPT !.pc = next]
<1>1. worker[w] \in WorkerRec /\ Shape(worker[w]) /\ World
  BY WorkerFacts
<1>2. /\ worker[w].pc = "handled" /\ worker' = [worker EXCEPT ![w] = s]
      /\ UNCHANGED generating /\ WorkerOnly
  BY DEF Continue, Set
<1>3. /\ next \in WorkerStates /\ next \in {"releasing", "closing", "keyed"}
      /\ next = "keyed" => worker[w].open # <<>>
  BY DEF WorkerStates
<1> HIDE DEF next
<1>4. s \in WorkerRec
  BY <1>1, <1>3 DEF WorkerRec
<1>5. s.open = worker[w].open /\ s.cur = worker[w].cur /\ s.pc = next
  BY <1>1 DEF WorkerRec
<1> HIDE DEF s
<1>6. Shape(s) /\ Has(s) \subseteq Has(worker[w])
  BY <1>1, <1>2, <1>3, <1>5, GoesOn
<1>7. World' /\ UNCHANGED <<row, job, claims, sweep, audit, op>>
  BY <1>1, <1>2, WorldStays DEF WorkerOnly, db
<1> QED
  BY <1>2, <1>4, <1>6, <1>7, WorkerOnlyOK

\* The paths are no longer being generated.
LEMMA CloseOK ==
  ASSUME DerivInv, NEW w \in Workers, Close(w)
  PROVE  StepOK
<1>1. worker[w] \in WorkerRec /\ World
  BY WorkerFacts
<1>2. PICK s : /\ worker' = [worker EXCEPT ![w] = s] /\ s \in {Idle, [Idle EXCEPT !.pc = "quota"]}
  BY DEF Close, Set
<1>3. generating' = generating \ worker[w].gen /\ WorkerOnly
  BY DEF Close
<1>4. s \in WorkerRec /\ Shape(s) /\ Has(s) \subseteq Has(worker[w])
  BY <1>2, IdleFacts
<1>5. UNCHANGED <<row, job, claims, sweep, audit, op, disk, cat, file, served, deferred, left>>
  BY <1>3 DEF WorkerOnly, db
<1>6. World'
  BY <1>1, <1>3, <1>5 DEF World
<1> QED
  BY <1>2, <1>4, <1>5, <1>6, WorkerOnlyOK

\* A worker asks for the quota to be enforced, and rests.
LEMMA EnforceQuotaOK ==
  ASSUME DerivInv, NEW w \in Workers, EnforceQuota(w)
  PROVE  StepOK
<1>1. World
  BY WorkerFacts
<1>2. /\ worker' = [worker EXCEPT ![w] = Idle]
      /\ UNCHANGED <<disk, cat, row, job, file, claims, generating, served, deferred, sweep, left, audit>>
  BY DEF EnforceQuota, Set, db
<1>3. PICK o : o = op' /\ o = [NoOp EXCEPT !.kind = "enforce", !.stage = "reserve"]
  BY DEF EnforceQuota
<1>4. NewOp(o)
  <2>1. Len(<<>>) = 0
    OBVIOUS
  <2>2. o = [kind |-> "enforce", stage |-> "reserve", keys |-> <<>>, cands |-> <<>>, drop |-> {},
             sel |-> {}, gone |-> {}, prio |-> 3, o |-> Interactive, by |-> "none"]
    BY <1>3 DEF NoOp
  <2> QED
    BY <2>1, <2>2 DEF NewOp
<1>5. Idle \in WorkerRec /\ Shape(Idle) /\ Has(Idle) \subseteq Has(worker[w])
  BY IdleFacts
<1>6. World'
  BY <1>1, <1>2, WorldStays
<1> QED
  BY <1>2, <1>3, <1>4, <1>5, <1>6, WorkerStepOK

-----------------------------------------------------------------------------
(* The steps of others that write no row.                                  *)

\* A source file changes.
LEMMA SourceChangeOK ==
  ASSUME DerivInv, SourceChange
  PROVE  StepOK
<1>1. World /\ NewOp(op)
  BY OpStays DEF DerivInv
<1>2. /\ Spend("change")
      /\ UNCHANGED <<cat, row, job, file, claims, worker, generating, served, deferred, op, sweep, audit>>
  BY DEF SourceChange, db
<1>3. PICK a \in Assets, i \in 0..MaxIdent : disk' = [disk EXCEPT ![a] = i]
  BY DEF SourceChange
<1>4. left' \in [DOMAIN Budget -> Nat]
  BY <1>1, <1>2, SpendFacts
<1>5. disk' \in [Assets -> 0..MaxIdent]
  BY <1>1, <1>3 DEF World
<1>6. World'
  BY <1>1, <1>2, <1>4, <1>5 DEF World
<1>7. PICK o : o = op' /\ NewOp(o)
  BY <1>1, <1>2
<1> QED
  BY <1>2, <1>6, <1>7, IdleStepOK

\* A scan changes the catalog.
LEMMA CatalogScanOK ==
  ASSUME DerivInv, CatalogScan
  PROVE  StepOK
<1>1. World /\ NewOp(op)
  BY OpStays DEF DerivInv
<1>2. /\ Spend("scan")
      /\ UNCHANGED <<disk, row, job, file, claims, worker, generating, served, deferred, op, sweep, audit>>
  BY DEF CatalogScan, db
<1>3. PICK a \in Assets : cat' = [cat EXCEPT ![a] = IF disk[a] = 0 THEN [cat[a] EXCEPT !.active = FALSE]
                                                    ELSE [ident |-> disk[a], active |-> TRUE]]
  BY DEF CatalogScan
<1>4. left' \in [DOMAIN Budget -> Nat]
  BY <1>1, <1>2, SpendFacts
<1>5. cat' \in [Assets -> [ident : Ident, active : BOOLEAN]]
  <2>1. cat \in [Assets -> [ident : Ident, active : BOOLEAN]] /\ disk[a] \in 0..MaxIdent
    BY <1>1 DEF World
  <2>2. CASE disk[a] = 0
    BY <1>3, <2>1, <2>2
  <2>3. CASE disk[a] # 0
    <3>1. disk[a] \in Ident
      BY <2>1, <2>3, DerivativeAssumption DEF Ident
    <3> QED
      BY <1>3, <2>1, <2>3, <3>1
  <2> QED
    BY <2>2, <2>3
<1>6. World'
  BY <1>1, <1>2, <1>4, <1>5 DEF World
<1>7. PICK o : o = op' /\ NewOp(o)
  BY <1>1, <1>2
<1> QED
  BY <1>2, <1>6, <1>7, IdleStepOK

\* schedule_derivative begins.
LEMMA ScheduleOK ==
  ASSUME DerivInv, Schedule
  PROVE  StepOK
<1>1. World
  BY DEF DerivInv
<1>2. /\ Spend("call")
      /\ UNCHANGED <<disk, cat, row, job, file, claims, worker, generating, served, deferred, sweep, audit>>
  BY DEF Schedule, db
<1>3. World'
  BY <1>1, <1>2, WorldStays
<1>4. PICK a \in Assets, v \in Variant, prio \in {0, 3} :
        op' = [NoOp EXCEPT !.kind = "schedule", !.stage = "want", !.prio = prio, !.by = "caller",
                           !.keys = <<<<a, v, disk[a]>>>>]
  BY DEF Schedule, ScheduleBy
<1>5. PICK o : o = op'
  OBVIOUS
<1>6. NewOp(o)
  <2>1. Len(<<>>) = 0
    OBVIOUS
  <2>2. o = [kind |-> "schedule", stage |-> "want", keys |-> <<<<a, v, disk[a]>>>>, cands |-> <<>>, drop |-> {},
             sel |-> {}, gone |-> {}, prio |-> prio, o |-> Interactive, by |-> "caller"]
    BY <1>4, <1>5 DEF NoOp
  <2> QED
    BY <2>1, <2>2 DEF NewOp
<1> QED
  BY <1>2, <1>3, <1>5, <1>6, IdleStepOK

\* The candidates are assets with an identity.
LEMMA CandidatesAre ==
  ASSUME World
  PROVE  /\ Len(Candidates) \in Nat
         /\ \A i \in 1..Len(Candidates) : Candidates[i][1] \in Assets /\ Candidates[i][2] \in Ident
<1> DEFINE S == {<<a, disk[a]>> : a \in {b \in Assets : cat[b].active /\ disk[b] # 0 /\ disk[b] = cat[b].ident}}
<1>1. S \subseteq Assets \X Ident
  BY DEF World, Ident
<1>2. IsFiniteSet(Assets \X Ident)
  <2>1. IsFiniteSet(Assets) /\ MaxIdent \in Nat
    BY DerivativeAssumption
  <2>2. IsFiniteSet(Ident)
    BY <2>1, FS_Interval DEF Ident
  <2> QED
    BY <2>1, <2>2, FS_Product
<1>3. IsFiniteSet(S)
  BY <1>1, <1>2, FS_Subset
<1>4. Candidates = SetToSeq(S)
  BY DEF Candidates, S
<1> HIDE DEF S
<1>5. Cardinality(S) \in Nat /\ ExistsBijection(1..Cardinality(S), S)
  BY <1>3, FS_CardinalityType
<1>6. PICK f \in [1..Cardinality(S) -> S] : IsInjective(f)
  BY <1>5 DEF ExistsBijection, Bijection, Injection
<1>7. SetToSeq(S) \in [1..Cardinality(S) -> S]
  BY <1>6 DEF SetToSeq
<1>8. Len(SetToSeq(S)) = Cardinality(S)
  BY <1>5, <1>7
<1>9. ASSUME NEW i \in 1..Cardinality(S)
      PROVE  SetToSeq(S)[i][1] \in Assets /\ SetToSeq(S)[i][2] \in Ident
  <2>1. SetToSeq(S)[i] \in Assets \X Ident
    BY <1>1, <1>7
  <2> QED
    BY <2>1
<1> QED
  BY <1>4, <1>5, <1>8, <1>9

\* reconcile_desired_derivatives begins.
LEMMA ReconcileOK ==
  ASSUME DerivInv, Reconcile
  PROVE  StepOK
<1>1. World
  BY DEF DerivInv
<1>2. /\ Spend("call")
      /\ UNCHANGED <<disk, cat, row, job, file, claims, worker, generating, served, deferred, sweep, audit>>
  BY DEF Reconcile, db
<1>3. World'
  BY <1>1, <1>2, WorldStays
<1>4. PICK p :
        op' = [NoOp EXCEPT !.kind = "reconcile", !.stage = "want", !.o = p, !.cands = Candidates]
  BY DEF Reconcile
<1>5. PICK o : o = op'
  OBVIOUS
<1>6. NewOp(o)
  <2>1. Len(Candidates) \in Nat
    BY <1>1, CandidatesAre
  <2>2. o = [kind |-> "reconcile", stage |-> "want", keys |-> <<>>, cands |-> Candidates, drop |-> {},
             sel |-> {}, gone |-> {}, prio |-> 3, o |-> p, by |-> "none"]
    BY <1>4, <1>5 DEF NoOp
  <2> QED
    BY <2>1, <2>2 DEF NewOp
<1> QED
  BY <1>2, <1>3, <1>5, <1>6, IdleStepOK

\* The evicted files are unlinked.
LEMMA UnlinkEvictedOK ==
  ASSUME DerivInv, UnlinkEvicted
  PROVE  StepOK
<1>1. World /\ OpOK /\ NewOp(op)
  BY OpStays DEF DerivInv
<1>2. UNCHANGED <<disk, cat, row, job, claims, worker, generating, served, deferred, sweep, audit>>
  BY DEF UnlinkEvicted, db
<1>3. PICK gone :
        /\ left' = left \/ Spend("fault")
        /\ file' = [p \in Key |-> IF \E k \in gone : PathOf(k, row[k].path) = p THEN 0 ELSE file[p]]
        /\ op' = [op EXCEPT !.stage = "unlinked", !.gone = gone]
  BY DEF UnlinkEvicted
<1>4. left' \in [DOMAIN Budget -> Nat]
  BY <1>1, <1>3, SpendFacts DEF World
<1>5. file' \in [Key -> 0..MaxIdent]
  <2>1. file \in [Key -> 0..MaxIdent] /\ 0 \in 0..MaxIdent
    BY <1>1, DerivativeAssumption DEF World
  <2> QED
    BY <1>3, <2>1
<1>6. World'
  BY <1>1, <1>2, <1>4, <1>5 DEF World
<1>7. PICK o : o = op'
  OBVIOUS
<1>8. NewOp(o)
  <2>1. o = [kind |-> op.kind, stage |-> "unlinked", keys |-> op.keys, cands |-> op.cands, drop |-> op.drop,
             sel |-> op.sel, gone |-> gone, prio |-> op.prio, o |-> op.o, by |-> op.by]
    BY <1>1, <1>3, <1>7 DEF OpOK
  <2> QED
    BY <1>1, <2>1 DEF NewOp
<1> QED
  BY <1>2, <1>6, <1>7, <1>8, IdleStepOK

\* A retired file is discarded or put off.
LEMMA DiscardOneOK ==
  ASSUME DerivInv, DiscardOne
  PROVE  StepOK
<1>1. World /\ OpOK /\ NewOp(op)
  BY OpStays DEF DerivInv
<1>2. UNCHANGED <<disk, cat, row, job, claims, worker, generating, served, sweep, left, audit>>
  BY DEF DiscardOne, db
<1>3. PICK p \in op.drop :
       /\ deferred' = IF PutOff(p) THEN deferred \cup {p} ELSE deferred
       /\ file' = IF p \in served \cup generating THEN file ELSE [file EXCEPT ![p] = 0]
       /\ op' = IF op.drop # {p} THEN [op EXCEPT !.drop = op.drop \ {p}]
                ELSE IF op.keys = <<>> THEN NoOp
                ELSE [op EXCEPT !.drop = {}, !.stage = "reserve"]
  BY DEF DiscardOne
<1>4. p \in Key /\ deferred' \subseteq Key
  BY <1>1, <1>3 DEF OpOK, World
<1>5. file' \in [Key -> 0..MaxIdent]
  <2>1. file \in [Key -> 0..MaxIdent] /\ 0 \in 0..MaxIdent
    BY <1>1, DerivativeAssumption DEF World
  <2> QED
    BY <1>3, <2>1
<1>6. World'
  BY <1>1, <1>2, <1>4, <1>5 DEF World
<1>7. PICK o : o = op'
  OBVIOUS
<1>8. NewOp(o)
  <2>1. CASE o = [op EXCEPT !.drop = op.drop \ {p}]
    <3>1. o = [kind |-> op.kind, stage |-> op.stage, keys |-> op.keys, cands |-> op.cands, drop |-> op.drop \ {p},
               sel |-> op.sel, gone |-> op.gone, prio |-> op.prio, o |-> op.o, by |-> op.by]
      BY <1>1, <2>1 DEF OpOK
    <3> QED
      BY <1>1, <3>1 DEF NewOp
  <2>2. CASE o = NoOp
    BY <2>2, NoOpIsNew
  <2>3. CASE o = [op EXCEPT !.drop = {}, !.stage = "reserve"]
    <3>1. o = [kind |-> op.kind, stage |-> "reserve", keys |-> op.keys, cands |-> op.cands, drop |-> {},
               sel |-> op.sel, gone |-> op.gone, prio |-> op.prio, o |-> op.o, by |-> op.by]
      BY <1>1, <2>3 DEF OpOK
    <3> QED
      BY <1>1, <3>1 DEF NewOp
  <2> QED
    BY <1>3, <1>7, <2>1, <2>2, <2>3
<1> QED
  BY <1>2, <1>6, <1>7, <1>8, IdleStepOK

\* The files of a clear are removed.
LEMMA ClearFilesOK ==
  ASSUME DerivInv, ClearFiles
  PROVE  StepOK
<1>1. World
  BY DEF DerivInv
<1>2. /\ UNCHANGED <<disk, cat, row, job, claims, worker, generating, served, deferred, sweep, left, audit>>
      /\ file' = [p \in Key |-> IF p \in served \cup generating THEN file[p] ELSE 0]
  BY DEF ClearFiles, db
<1>3. file' \in [Key -> 0..MaxIdent]
  <2>1. file \in [Key -> 0..MaxIdent] /\ 0 \in 0..MaxIdent
    BY <1>1, DerivativeAssumption DEF World
  <2> QED
    BY <1>2, <2>1
<1>4. World'
  BY <1>1, <1>2, <1>3 DEF World
<1>5. PICK o : o = op' /\ NewOp(o)
  BY NoOpIsNew DEF ClearFiles
<1> QED
  BY <1>2, <1>4, <1>5, IdleStepOK

\* The queue sweep reads.
LEMMA SweepReadOK ==
  ASSUME DerivInv, SweepRead
  PROVE  StepOK
<1>1. World /\ NewOp(op)
  BY OpStays DEF DerivInv
<1>2. UNCHANGED <<disk, cat, row, job, file, claims, worker, generating, served, deferred, op, left, audit>>
  BY DEF SweepRead, db
<1>3. World'
  BY <1>1, <1>2, WorldStays
<1>4. SweepOK'
  <2>1. \A k \in Stale : SweepCode(k) \in ResultCodes
    BY DEF SweepCode, ResultCodes
  <2>2. PICK todo : todo = [k \in Stale |-> SweepCode(k)]
    OBVIOUS
  <2>3. sweep'.kind = "queued" /\ sweep'.todo = todo
    BY <2>2 DEF SweepRead
  <2> QED
    BY <2>1, <2>2, <2>3 DEF SweepOK
<1>5. AuditOK'
  BY <1>2, NothingHappens, AuditKept DEF DerivInv
<1>6. PICK o : o = op' /\ NewOp(o)
  BY <1>1, <1>2
<1> QED
  BY <1>2, <1>3, <1>4, <1>5, <1>6, QuietStepOK

\* What a recovery decides of a claim that runs.
LEMMA RecoveryFacts ==
  ASSUME Rows, NEW k \in Key
  PROVE  /\ RecoveryOf(k) \in {"queued", "failed", "skipped"} \X ResultCodes
         /\ RecoveryOf(k)[1] = "queued" => job[k].attempts < MaxAttempts
<1>1. Inapplicable(k) \in ResultCodes
  BY DEF Inapplicable, ResultCodes
<1>2. CASE Inapplicable(k) # "none"
  BY <1>1, <1>2 DEF RecoveryOf
<1>3. CASE Inapplicable(k) = "none" /\ job[k].attempts >= MaxAttempts
  <2>1. RecoveryOf(k) = <<"failed", "attempts_exhausted">>
    BY <1>3 DEF RecoveryOf
  <2> QED
    BY <2>1 DEF ResultCodes
<1>4. CASE Inapplicable(k) = "none" /\ ~(job[k].attempts >= MaxAttempts)
  <2>1. RecoveryOf(k) = <<"queued", "none">>
    BY <1>4 DEF RecoveryOf
  <2>2. job[k].attempts \in Nat
    BY DEF Rows, Job
  <2> QED
    BY <1>4, <2>1, <2>2, MaxIsNumber DEF ResultCodes
<1> QED
  BY <1>2, <1>3, <1>4

\* Recovery reads: a claim it means to hand back has attempts left.
LEMMA RecoverReadOK ==
  ASSUME DerivInv, RecoverRead
  PROVE  StepOK
<1>1. World /\ NewOp(op) /\ Rows
  BY OpStays DEF DerivInv
<1>2. /\ UNCHANGED <<disk, cat, row, job, file, claims, worker, generating, served, deferred, op, audit>>
      /\ left' = left \/ Spend("expiry")
  BY DEF RecoverRead, db
<1>3. World'
  BY <1>1, <1>2, WorldStays
<1>4. PICK ks : /\ \A k \in ks : k \in Key /\ job[k].st = "running"
                /\ sweep' = [kind |-> "recover", todo |-> Recoverable(ks)]
  <2>1. CASE sweep' = [kind |-> "recover", todo |-> Recoverable({k \in Key : Abandoned(k)})]
    BY <2>1 DEF Abandoned
  <2>2. CASE \E k \in Key : job[k].st = "running" /\ sweep' = [kind |-> "recover", todo |-> Recoverable({k})]
    BY <2>2
  <2> QED
    BY <2>1, <2>2 DEF RecoverRead
<1>5. PICK todo : todo = Recoverable(ks)
  OBVIOUS
<1>6. DOMAIN todo = ks /\ \A k \in ks : todo[k].token = job[k].token /\ todo[k].end = RecoveryOf(k)
  BY <1>5 DEF Recoverable
<1>7. sweep'.kind = "recover" /\ sweep'.todo = todo
  BY <1>4, <1>5
<1>8. ASSUME NEW k \in Key, k \in DOMAIN todo
      PROVE  /\ todo[k].token \in 0..claims[k]
             /\ todo[k].end \in {"queued", "failed", "skipped"} \X ResultCodes
             /\ todo[k].end[1] = "queued" => job[k].attempts < MaxAttempts
  <2>1. k \in ks /\ job[k].st = "running" /\ KeyOK(k)
    BY <1>1, <1>4, <1>6, <1>8 DEF Rows
  <2>2. job[k].token \in 1..claims[k]
    BY <2>1 DEF KeyOK
  <2>3. claims[k] \in 0..MaxClaims
    BY <1>1 DEF Rows
  <2>4. job[k].token \in 0..claims[k]
    BY <2>2, <2>3, BudgetAssumption
  <2> QED
    BY <1>1, <1>6, <2>1, <2>4, RecoveryFacts
<1>9. SweepOK'
  BY <1>2, <1>7, <1>8 DEF SweepOK
<1>10. AuditOK'
  BY <1>2, NothingHappens, AuditKept DEF DerivInv
<1>11. PICK o : o = op' /\ NewOp(o)
  BY <1>1, <1>2
<1> QED
  BY <1>2, <1>3, <1>9, <1>10, <1>11, QuietStepOK

\* The integrity pass reads.
LEMMA AuditReadOK ==
  ASSUME DerivInv, AuditRead
  PROVE  StepOK
<1>1. World /\ NewOp(op) /\ AuditOK
  BY OpStays DEF DerivInv
<1>2. /\ UNCHANGED <<disk, cat, row, job, file, claims, worker, generating, served, deferred, op, sweep>>
      /\ Spend("audit")
  BY DEF AuditRead, db
<1>3. World'
  BY <1>1, <1>2, WorldStays
<1>4. PICK ready, done :
        /\ done = [k \in {r \in Key : job[r].st = "done" /\ row[r].st # "ready"} |-> HasFile(k, row[k])]
        /\ audit' = [audit EXCEPT !.stage = "ready", !.ready = ready, !.done = done]
  BY DEF AuditRead
<1>5. audit' = [stage |-> "ready", ready |-> ready, done |-> done,
                misled |-> audit.misled, torn |-> audit.torn]
  BY <1>1, <1>4 DEF AuditOK
<1>6. \A k \in DOMAIN done : job[k].st = "done"
  BY <1>4
<1>7. AuditOK'
  BY <1>2, <1>5, <1>6 DEF AuditOK
<1>8. audit'.misled = audit.misled
  BY <1>5
<1>9. SweepOK'
  <2>1. \A k \in Key : KeyStep(k)
    BY <1>2, <1>8, NothingHappens
  <2> QED
    BY <1>2, <2>1, SweepKept DEF DerivInv
<1>10. PICK o : o = op' /\ NewOp(o)
  BY <1>1, <1>2
<1> QED
  BY <1>2, <1>3, <1>7, <1>8, <1>9, <1>10, QuietStepOK

-----------------------------------------------------------------------------
(* The ends of claims and of waits.                                        *)

\* The derivatives in the domain of ends have active jobs, and only a claim with
\* attempts left is handed back.
EndsOK(ends) ==
  \A k \in Key : k \in DOMAIN ends =>
    /\ ends[k] \in {"queued", "failed", "skipped"} \X ResultCodes
    /\ ActiveJob(job[k])
    /\ ends[k][1] = "queued" => job[k].st = "running" /\ job[k].attempts < MaxAttempts

\* What an ended job is.
LEMMA EndedFacts ==
  ASSUME NEW j \in Job, NEW st \in {"queued", "failed", "skipped"}, NEW rc \in ResultCodes
  PROVE  /\ Ended(j, st, rc) \in Job /\ Ended(j, st, rc).st = st /\ Ended(j, st, rc).token = 0
         /\ Ended(j, st, rc).attempts = j.attempts
BY DEF Ended, Job, JobStates

\* The ends of several jobs in one transaction.
LEMMA SetEndsFacts ==
  ASSUME Rows, NEW ends, EndsOK(ends), NEW t, t = SetEnds(Tx(NoLedger), ends)
  PROVE  /\ Tables(t)
         /\ \A k \in Key :
              /\ TxStep(k, t)
              /\ k \notin DOMAIN ends => t.row[k] = row[k] /\ t.job[k] = job[k]
              /\ k \in DOMAIN ends => JobEnds(job[k], t.job[k]) \/ JobReturns(job[k], t.job[k])
<1>1. t = [row |-> [k \in Key |-> IF k \in DOMAIN ends THEN [row[k] EXCEPT !.st = ends[k][1]] ELSE row[k]],
           job |-> [k \in Key |-> IF k \in DOMAIN ends THEN Ended(job[k], ends[k][1], ends[k][2]) ELSE job[k]],
           lg |-> NoLedger, out |-> "none"]
  BY DEF SetEnds, Tx
<1>2. /\ \A k \in Key : t.row[k] = IF k \in DOMAIN ends THEN [row[k] EXCEPT !.st = ends[k][1]] ELSE row[k]
      /\ \A k \in Key : t.job[k] = IF k \in DOMAIN ends THEN Ended(job[k], ends[k][1], ends[k][2]) ELSE job[k]
      /\ t = [row |-> t.row, job |-> t.job, lg |-> t.lg, out |-> t.out]
      /\ t.row = [k \in Key |-> t.row[k]] /\ t.job = [k \in Key |-> t.job[k]]
  BY <1>1
<1>3. ASSUME NEW k \in Key
      PROVE  /\ t.row[k] \in Row /\ t.job[k] \in Job /\ TxStep(k, t)
             /\ k \in DOMAIN ends => JobEnds(job[k], t.job[k]) \/ JobReturns(job[k], t.job[k])
  <2>1. row[k] \in Row /\ job[k] \in Job /\ KeyOK(k)
    BY DEF Rows
  <2>2. CASE k \notin DOMAIN ends
    <3>1. t.row[k] = row[k] /\ t.job[k] = job[k]
      BY <1>2, <2>2
    <3>2. CoStep(k, row[k], job[k], t.row[k], t.job[k])
      BY <3>1, CoStepNothing
    <3>3. TxStep(k, t)
      BY <3>2, CoStepIsTxStep
    <3> QED
      BY <2>1, <2>2, <3>1, <3>3
  <2>3. CASE k \in DOMAIN ends
    <3>1. PICK st \in {"queued", "failed", "skipped"}, rc \in ResultCodes : ends[k] = <<st, rc>>
      BY <2>3 DEF EndsOK
    <3>2. t.row[k] = [row[k] EXCEPT !.st = st] /\ t.job[k] = Ended(job[k], st, rc)
      BY <1>2, <2>3, <3>1
    <3>3. ActiveJob(job[k]) /\ (st = "queued" => job[k].st = "running" /\ job[k].attempts < MaxAttempts)
      BY <2>3, <3>1 DEF EndsOK
    <3>4. t.row[k] \in Row /\ t.row[k].st = st /\ t.row[k].path = 0
      <4>1. row[k].path = 0
        BY <2>1, <3>3 DEF KeyOK
      <4>2. st \in RowStates
        BY DEF RowStates
      <4> QED
        BY <2>1, <3>2, <4>1, <4>2, NewRows
    <3>5. t.job[k] \in Job /\ t.job[k].st = st /\ t.job[k].token = 0 /\ t.job[k].attempts = job[k].attempts
      BY <2>1, <3>2, EndedFacts
    <3>6. job[k].attempts \in Nat /\ job[k].attempts <= MaxAttempts
      BY <2>1 DEF Job, KeyOK
    <3>7. JobEnds(job[k], t.job[k]) \/ JobReturns(job[k], t.job[k])
      <4>1. CASE st = "queued"
        <5>1. t.job[k].attempts \in 0..(MaxAttempts - 1)
          BY <3>3, <3>5, <3>6, <4>1, MaxIsNumber
        <5> QED
          BY <3>3, <3>5, <4>1, <5>1 DEF JobReturns
      <4>2. CASE st # "queued"
        BY <3>3, <3>5, <4>2 DEF JobEnds, Over
      <4> QED
        BY <4>1, <4>2
    <3>8. TxStep(k, t)
      <4>1. JobStep(job[k], t.job[k])
        BY <3>5, <3>6, <3>7 DEF JobStep
      <4>2. RowLost(row[k], t.row[k]) /\ t.row[k].st \notin {"ready", "evicted"}
        BY <3>4 DEF RowLost
      <4>3. t.row[k].st \in {"queued", "running"} => ActiveJob(t.job[k])
        BY <3>4, <3>5 DEF ActiveJob
      <4>4. ~JobQueues(job[k], t.job[k])
        BY <3>3 DEF JobQueues
      <4> QED
        BY <4>1, <4>2, <4>3, <4>4 DEF TxStep
    <3> QED
      BY <3>4, <3>5, <3>7, <3>8
  <2> QED
    BY <2>2, <2>3
<1>4. Tables(t)
  <2>1. t.row \in [Key -> Row]
    BY <1>2, <1>3
  <2>2. t.job \in [Key -> Job]
    BY <1>2, <1>3
  <2> QED
    BY <1>2, <2>1, <2>2 DEF Tables
<1> QED
  BY <1>2, <1>3, <1>4

\* The derivatives a step leaves alone.
LEMMA KeyNothing ==
  ASSUME Rows, NEW k \in Key, row'[k] = row[k], job'[k] = job[k], audit' = audit
  PROVE  KeyStep(k) /\ RowStep(k)
<1>1. job[k].attempts <= MaxAttempts
  BY DEF Rows, KeyOK
<1> QED
  BY <1>1 DEF KeyStep, RowStep, StillMoved, JobStep, JobStays, JobQueues, ActiveJob

\* A worker hands its claim in hand over with its result.
LEMMA CompleteOK ==
  ASSUME DerivInv, NEW w \in Workers, Complete(w)
  PROVE  StepOK
<1> DEFINE c == InHand(w)
<1>1. worker[w] \in WorkerRec /\ Shape(worker[w]) /\ World /\ Rows
  BY WorkerFacts DEF DerivInv
<1>2. /\ worker[w].pc = "valid"
      /\ UNCHANGED <<disk, cat, file, claims, generating, served, deferred, op, sweep, left, audit>>
  BY DEF Complete
<1>3. worker[w].cur # <<>> /\ c = worker[w].cur[1]
  <2>1. Len(worker[w].cur) = 1 /\ Len(<<>>) = 0
    BY <1>1, <1>2 DEF Shape
  <2>2. worker[w].cur # <<>>
    BY <2>1
  <2> QED
    BY <2>2 DEF InHand
<1>4. c \in Has(worker[w]) /\ c.key \in Key
  BY <1>3, HandFacts
<1> DEFINE ok == worker[w].ok \/ Owns(c)
           s == [worker[w] EXCEPT !.pc = "handled", !.cur = <<>>, !.ok = ok]
<1>5. worker' = [worker EXCEPT ![w] = s]
  BY DEF Complete, Set
<1>6. ok \in BOOLEAN
  BY <1>1 DEF WorkerRec, Owns
<1> HIDE DEF ok
<1>7. s \in WorkerRec
  <2>1. <<>> \in Seq(Claim)
    OBVIOUS
  <2> QED
    BY <1>1, <1>6, <2>1 DEF WorkerRec, WorkerStates
<1>8. s.pc = "handled" /\ s.open = worker[w].open /\ s.cur = <<>>
  BY <1>1 DEF WorkerRec
<1> HIDE DEF s
<1>9. Shape(s) /\ Has(s) \subseteq Has(worker[w]) /\ \A d \in Has(s) : d.key # c.key
  BY <1>1, <1>3, <1>8, LetsGoOfCur
<1>10. World'
  BY <1>1, <1>2, WorldStays
<1>11. CASE ~Owns(c)
  <2>1. UNCHANGED <<row, job>>
    BY <1>11 DEF Complete, db
  <2> QED
    BY <1>2, <1>5, <1>7, <1>9, <1>10, <2>1, WorkerOnlyOK
<1>12. CASE Owns(c)
  <2>1. /\ job' = [job EXCEPT ![c.key] = Ended(job[c.key], "done", "none")]
        /\ row' = [row EXCEPT ![c.key] = [st |-> "ready", path |-> worker[w].pid]]
    BY <1>12 DEF Complete
  <2> HIDE DEF c
  <2>2. PICK i : i = Ended(job[c.key], "done", "none")
    OBVIOUS
  <2>3. PICK r : r = [st |-> "ready", path |-> worker[w].pid]
    OBVIOUS
  <2>4. job[c.key] \in Job /\ KeyOK(c.key) /\ job[c.key].st = "running"
    BY <1>1, <1>4, <1>12 DEF Rows, Owns
  <2>5. i \in Job /\ i.st = "done" /\ i.token = 0 /\ i.attempts = job[c.key].attempts
    BY <2>2, <2>4 DEF Ended, Job, JobStates, ResultCodes
  <2>6. r \in Row /\ r.st = "ready"
    <3>1. worker[w].pid \in 0..MaxIdent
      BY <1>1 DEF WorkerRec
    <3> QED
      BY <2>3, <3>1 DEF Row, RowStates
  <2>7. row' \in [Key -> Row] /\ job' \in [Key -> Job]
    BY <1>1, <2>1, <2>2, <2>3, <2>5, <2>6 DEF Rows
  <2>8. /\ row'[c.key] = r /\ job'[c.key] = i
        /\ \A k \in Key : k # c.key => row'[k] = row[k] /\ job'[k] = job[k]
    BY <1>1, <1>4, <2>1, <2>2, <2>3 DEF Rows
  <2>9. JobEnds(job[c.key], job'[c.key])
    BY <2>4, <2>5, <2>8 DEF JobEnds, ActiveJob, Over
  <2>10. KeyStep(c.key)
    <3>1. JobStep(job[c.key], job'[c.key])
      BY <2>4, <2>5, <2>8, <2>9 DEF JobStep, KeyOK
    <3>2. RowMade(c.key)
      BY <2>4, <2>5, <2>6, <2>8 DEF RowMade, Over
    <3>3. ~JobQueues(job[c.key], job'[c.key])
      BY <2>4 DEF JobQueues, ActiveJob
    <3>4. StillMoved(c.key)
      BY <2>6, <2>8 DEF StillMoved
    <3> QED
      BY <1>2, <3>1, <3>2, <3>3, <3>4 DEF KeyStep
  <2>11. \A k \in Key : KeyStep(k)
    BY <1>1, <1>2, <2>8, <2>10, KeyNothing
  <2>12. EvictionStays
    BY <2>6, <2>8 DEF EvictionStays
  <2>13. \A k \in Key :
           \/ row'[k] = row[k] /\ job'[k] = job[k]
           \/ \E d \in Has(worker[w]) :
                /\ d.key = k /\ Owns(d) /\ \A e \in Has(s) : e.key # k
                /\ JobEnds(job[k], job'[k]) \/ JobReturns(job[k], job'[k])
    BY <1>4, <1>9, <1>12, <2>8, <2>9
  <2>14. NamesKept
    BY DEF Complete, NamesKept
  <2> QED
    BY <1>2, <1>5, <1>7, <1>9, <1>10, <2>7, <2>11, <2>12, <2>13, <2>14, OwnerStepOK
<1> QED
  BY <1>11, <1>12

\* What a failure leaves of a claim its worker still owns.
LEMMA FailureFacts ==
  ASSUME NEW c \in Claim, NEW code \in Codes \cup {"none"}
  PROVE  /\ FailureOf(c, code) \in {"queued", "failed", "skipped"} \X ResultCodes
         /\ FailureOf(c, code)[1] = "queued" => c.attempts < MaxAttempts
<1>1. c.attempts \in Nat
  BY DEF Claim
<1>2. CASE code \in {"source_changed", "source_missing", "asset_inactive"}
  <2>1. FailureOf(c, code) = <<"skipped", code>>
    BY <1>2 DEF FailureOf
  <2> QED
    BY <1>2, <2>1 DEF ResultCodes
<1>3. CASE code = "transient" /\ c.attempts < MaxAttempts
  <2>1. FailureOf(c, code) = <<"queued", "none">>
    BY <1>3, <1>1, MaxIsNumber DEF FailureOf
  <2> QED
    BY <1>3, <2>1 DEF ResultCodes
<1>4. CASE code = "transient" /\ ~(c.attempts < MaxAttempts)
  <2>1. c.attempts >= MaxAttempts
    BY <1>1, <1>4, MaxIsNumber
  <2>2. FailureOf(c, code) = <<"failed", "attempts_exhausted">>
    BY <1>4, <2>1 DEF FailureOf
  <2> QED
    BY <2>2 DEF ResultCodes
<1>5. CASE code \notin {"source_changed", "source_missing", "asset_inactive", "transient"}
  <2>1. FailureOf(c, code) = <<"failed", code>>
    BY <1>5 DEF FailureOf
  <2>2. code \in ResultCodes
    BY <1>5 DEF Codes, ResultCodes
  <2> QED
    BY <2>1, <2>2
<1> QED
  BY <1>2, <1>3, <1>4, <1>5

\* A worker that fails has a claim to fail.
LEMMA FailingFacts ==
  ASSUME DerivInv, NEW w \in Workers, Failing(w)
  PROVE  /\ AfterFailure(w) \in WorkerRec /\ Shape(AfterFailure(w)) /\ Has(AfterFailure(w)) \subseteq Has(worker[w])
         /\ InHand(w) \in Has(worker[w]) /\ InHand(w) \in Claim
         /\ \A d \in Has(AfterFailure(w)) : d.key # InHand(w).key
<1>1. worker[w] \in WorkerRec /\ Shape(worker[w])
  BY WorkerFacts
<1>2. worker[w].pc \in {"failing", "rendered"}
  BY DEF Failing
<1>3. PICK s : s = AfterFailure(w)
  OBVIOUS
<1>4. <<>> \in Seq(Claim) /\ Len(<<>>) = 0
  OBVIOUS
<1>5. CASE worker[w].cur # <<>>
  <2>1. s = [worker[w] EXCEPT !.pc = "handled", !.cur = <<>>, !.exc = "none"] /\ InHand(w) = worker[w].cur[1]
    BY <1>3, <1>5 DEF AfterFailure, InHand
  <2>2. s \in WorkerRec
    BY <1>1, <1>4, <2>1 DEF WorkerRec, WorkerStates
  <2>3. s.pc = "handled" /\ s.open = worker[w].open /\ s.cur = <<>>
    BY <1>1, <2>1 DEF WorkerRec
  <2>4. Shape(s) /\ Has(s) \subseteq Has(worker[w]) /\ \A d \in Has(s) : d.key # worker[w].cur[1].key
    BY <1>1, <1>5, <2>3, LetsGoOfCur
  <2> QED
    BY <1>3, <1>5, <2>1, <2>2, <2>4, HandFacts
<1>6. CASE worker[w].cur = <<>>
  <2>1. worker[w].open # <<>>
    BY <1>1, <1>2, <1>4, <1>6 DEF Shape
  <2>2. PICK t : t = Tail(worker[w].open)
    OBVIOUS
  <2>3. PICK p : p = IF Len(worker[w].open) = 1 THEN "closing" ELSE "failing"
    OBVIOUS
  <2>4. s = [worker[w] EXCEPT !.open = t, !.pc = p] /\ InHand(w) = worker[w].open[1]
    BY <1>3, <1>6, <2>2, <2>3 DEF AfterFailure, InHand
  <2>5. worker[w].open \in Seq(Claim)
    BY <1>1 DEF WorkerRec
  <2>6. t \in Seq(Claim)
    BY <2>1, <2>2, <2>5
  <2>7. p \in WorkerStates
    BY <2>3 DEF WorkerStates
  <2>8. s \in WorkerRec
    BY <1>1, <2>4, <2>6, <2>7 DEF WorkerRec
  <2>9. s.pc = p /\ s.open = Tail(worker[w].open) /\ s.cur = <<>>
    BY <1>1, <1>6, <2>2, <2>4 DEF WorkerRec
  <2>10. Shape(s) /\ Has(s) \subseteq Has(worker[w]) /\ \A d \in Has(s) : d.key # worker[w].open[1].key
    BY <1>1, <1>6, <2>1, <2>3, <2>9, LetsGoOfFirst
  <2> QED
    BY <1>3, <2>1, <2>4, <2>8, <2>10, HandFacts
<1> QED
  BY <1>5, <1>6

\* The claims that are left when one cannot be failed.
LEMMA OthersFacts ==
  ASSUME DerivInv, NEW w \in Workers, Failing(w), OthersOpen(w) # <<>>
  PROVE  LET s == [worker[w] EXCEPT !.pc = "failing", !.cur = <<>>, !.exc = "transient",
                                    !.open = OthersOpen(w)]
         IN s \in WorkerRec /\ Shape(s) /\ Has(s) \subseteq Has(worker[w])
<1>1. worker[w] \in WorkerRec /\ Shape(worker[w]) /\ worker[w].open \in Seq(Claim)
  BY WorkerFacts DEF WorkerRec
<1>2. worker[w].pc \in {"failing", "rendered"}
  BY DEF Failing
<1>3. PICK rest : rest = OthersOpen(w)
  OBVIOUS
<1>4. PICK s : s = [worker[w] EXCEPT !.pc = "failing", !.cur = <<>>, !.exc = "transient", !.open = rest]
  OBVIOUS
<1>5. <<>> \in Seq(Claim) /\ Len(<<>>) = 0
  OBVIOUS
<1>6. worker[w].cur = <<>> => worker[w].open # <<>> /\ rest = Tail(worker[w].open)
  BY <1>1, <1>2, <1>3, <1>5 DEF Shape, OthersOpen
<1>7. worker[w].cur # <<>> => rest = worker[w].open
  BY <1>3 DEF OthersOpen
<1>8. rest \in Seq(Claim)
  BY <1>1, <1>6, <1>7
<1>9. "failing" \in WorkerStates /\ "transient" \in Codes
  BY CodesFacts DEF WorkerStates
<1>10. s \in WorkerRec
  BY <1>1, <1>4, <1>5, <1>8, <1>9 DEF WorkerRec
<1>11. s.pc = "failing" /\ s.open = rest /\ s.cur = <<>>
  BY <1>1, <1>4 DEF WorkerRec
<1>12. Shape(s) /\ Has(s) \subseteq Has(worker[w])
  <2>1. CASE worker[w].cur = <<>>
    <3>1. worker[w].open # <<>> /\ rest = Tail(worker[w].open) /\ rest # <<>>
      BY <1>3, <1>6, <2>1
    <3>2. Len(worker[w].open) # 1
      BY <1>1, <3>1
    <3>3. s.pc = IF Len(worker[w].open) = 1 THEN "closing" ELSE "failing"
      BY <1>11, <3>2
    <3> QED
      BY <1>1, <1>11, <2>1, <3>1, <3>3, LetsGoOfFirst
  <2>2. CASE worker[w].cur # <<>>
    BY <1>1, <1>3, <1>7, <1>11, <2>2, LetsGoOfCur
  <2> QED
    BY <2>1, <2>2
<1> QED
  BY <1>3, <1>4, <1>10, <1>12

\* The op that would record a failure is refused.
LEMMA FailRefusedOK ==
  ASSUME DerivInv, NEW w \in Workers, FailRefused(w)
  PROVE  StepOK
<1>1. worker[w] \in WorkerRec /\ World /\ Failing(w) /\ Spend("fault")
  BY WorkerFacts DEF FailRefused
<1>2. UNCHANGED <<disk, cat, row, job, file, claims, generating, served, deferred, op, sweep, audit>>
  BY DEF FailRefused, db
<1>3. \E s : /\ worker' = [worker EXCEPT ![w] = s]
             /\ s \in WorkerRec /\ Shape(s) /\ Has(s) \subseteq Has(worker[w])
  <2>1. CASE worker' = [worker EXCEPT ![w] =
                         [worker[w] EXCEPT !.pc = "closing", !.cur = <<>>, !.open = <<>>]]
    <3> DEFINE s == [worker[w] EXCEPT !.pc = "closing", !.cur = <<>>, !.open = <<>>]
    <3>1. s \in WorkerRec
      <4>1. <<>> \in Seq(Claim)
        OBVIOUS
      <4> QED
        BY <1>1, <4>1 DEF WorkerRec, WorkerStates
    <3>2. s.open = <<>> /\ s.cur = <<>> /\ s.pc = "closing"
      BY <1>1 DEF WorkerRec
    <3>3. worker' = [worker EXCEPT ![w] = s]
      BY <2>1
    <3> HIDE DEF s
    <3>4. Shape(s) /\ Has(s) \subseteq Has(worker[w])
      BY <3>2, LetsGoOfAll
    <3> QED
      BY <3>1, <3>3, <3>4
  <2>2. CASE /\ OthersOpen(w) # <<>>
             /\ worker' = [worker EXCEPT ![w] =
                  [worker[w] EXCEPT !.pc = "failing", !.cur = <<>>, !.exc = "transient",
                                    !.open = OthersOpen(w)]]
    BY <1>1, <2>2, OthersFacts
  <2> QED
    BY <2>1, <2>2 DEF FailRefused, Set
<1>4. World'
  BY <1>1, <1>2, WorldStays
<1> QED
  BY <1>1, <1>2, <1>3, <1>4, WorkerOnlyOK

\* _handle_failure, fenced by the claim token.
LEMMA FailOK ==
  ASSUME DerivInv, NEW w \in Workers, Fail(w)
  PROVE  StepOK
<1>1. worker[w] \in WorkerRec /\ World /\ Rows /\ Drawn(worker[w])
  BY WorkerFacts DEF DerivInv, Crew
<1>2. /\ Failing(w) /\ worker' = [worker EXCEPT ![w] = AfterFailure(w)]
      /\ UNCHANGED <<disk, cat, file, claims, generating, served, deferred, op, sweep, left, audit>>
  BY DEF Fail, Set
<1>3. World'
  BY <1>1, <1>2, WorldStays
<1>4. PICK s : s = AfterFailure(w)
  OBVIOUS
<1>5. PICK c : c = InHand(w)
  OBVIOUS
<1>6. /\ s \in WorkerRec /\ Shape(s) /\ Has(s) \subseteq Has(worker[w]) /\ worker' = [worker EXCEPT ![w] = s]
      /\ c \in Has(worker[w]) /\ c \in Claim /\ \A d \in Has(s) : d.key # c.key
  BY <1>2, <1>4, <1>5, FailingFacts
<1>7. CASE ~Owns(c)
  <2>1. UNCHANGED <<row, job>>
    BY <1>5, <1>7 DEF Fail, db
  <2> QED
    BY <1>2, <1>3, <1>6, <2>1, WorkerOnlyOK
<1>8. CASE Owns(c)
  <2>1. PICK end : end = FailureOf(c, worker[w].exc)
    OBVIOUS
  <2>2. PICK ends : ends = [k \in {c.key} |-> end]
    OBVIOUS
  <2>3. PICK t : t = SetEnds(Tx(NoLedger), ends)
    OBVIOUS
  <2>4. row' = t.row /\ job' = t.job
    BY <1>5, <1>8, <2>1, <2>2, <2>3 DEF Fail, Commit
  <2>5. /\ end \in {"queued", "failed", "skipped"} \X ResultCodes
        /\ end[1] = "queued" => c.attempts < MaxAttempts
    <3>1. worker[w].exc \in Codes \cup {"none"}
      BY <1>1 DEF WorkerRec
    <3> QED
      BY <1>6, <2>1, <3>1, FailureFacts
  <2>6. job[c.key].st = "running" /\ c.attempts = job[c.key].attempts
    BY <1>1, <1>6, <1>8 DEF Drawn, Owns
  <2>7. EndsOK(ends)
    BY <2>2, <2>5, <2>6 DEF EndsOK, ActiveJob
  <2>8. /\ Tables(t)
        /\ \A k \in Key :
              /\ TxStep(k, t)
              /\ k \notin DOMAIN ends => t.row[k] = row[k] /\ t.job[k] = job[k]
              /\ k \in DOMAIN ends => JobEnds(job[k], t.job[k]) \/ JobReturns(job[k], t.job[k])
    BY <1>1, <2>3, <2>7, SetEndsFacts
  <2>9. DOMAIN ends = {c.key}
    BY <2>2
  <2>10. \A k \in Key : KeyStep(k) /\ RowStep(k)
    BY <1>2, <2>4, <2>8, TxStepIsKeyStep
  <2>11. EvictionStays /\ NamesKept
    BY <2>4, <2>8, <2>10, RowStepsKeepNames DEF EvictionStays, TxStep
  <2>12. row' \in [Key -> Row] /\ job' \in [Key -> Job]
    BY <2>4, <2>8 DEF Tables
  <2>13. ASSUME NEW k \in Key
         PROVE  \/ row'[k] = row[k] /\ job'[k] = job[k]
                \/ \E d \in Has(worker[w]) :
                     /\ d.key = k /\ Owns(d) /\ \A e \in Has(s) : e.key # k
                     /\ JobEnds(job[k], job'[k]) \/ JobReturns(job[k], job'[k])
    <3>1. CASE k = c.key
      BY <1>6, <1>8, <2>4, <2>8, <2>9, <3>1
    <3>2. CASE k # c.key
      BY <2>4, <2>8, <2>9, <3>2
    <3> QED
      BY <3>1, <3>2
  <2> QED
    BY <1>2, <1>3, <1>6, <2>10, <2>11, <2>12, <2>13, OwnerStepOK
<1> QED
  BY <1>7, <1>8

\* A job that is handed back.
LEMMA ReleasedFacts ==
  ASSUME NEW j \in Job, j.attempts <= MaxAttempts
  PROVE  /\ ReleasedJob(j) \in Job /\ ReleasedJob(j).st = "queued" /\ ReleasedJob(j).token = 0
         /\ ReleasedJob(j).attempts \in 0..(MaxAttempts - 1) /\ ReleasedJob(j).attempts <= MaxAttempts
<1>1. PICK n : n = IF j.attempts = 0 THEN 0 ELSE j.attempts - 1
  OBVIOUS
<1>2. j.attempts \in Nat
  BY DEF Job
<1>3. n \in Nat /\ n \in 0..(MaxAttempts - 1) /\ n <= MaxAttempts
  BY <1>1, <1>2, MaxIsNumber
<1>4. ReleasedJob(j) = [j EXCEPT !.st = "queued", !.token = 0, !.attempts = n]
  BY <1>1 DEF ReleasedJob
<1>5. n \in Nat /\ 0 \in Nat /\ "queued" \in JobStates
  BY <1>3 DEF JobStates
<1> DEFINE i == [j EXCEPT !.st = "queued", !.token = 0, !.attempts = n]
<1>6. i \in Job
  BY <1>5 DEF Job
<1>7. i.st = "queued" /\ i.token = 0 /\ i.attempts = n
  BY DEF Job
<1> QED
  BY <1>3, <1>4, <1>6, <1>7

\* The claims of a batch that yields are handed back.
LEMMA ReleaseClaimsOK ==
  ASSUME DerivInv, NEW w \in Workers, ReleaseClaims(w)
  PROVE  StepOK
<1>1. worker[w] \in WorkerRec /\ Shape(worker[w]) /\ World /\ Rows
  BY WorkerFacts DEF DerivInv
<1> DEFINE s == [worker[w] EXCEPT !.pc = "closing", !.open = <<>>]
           mine == StillOwned(w)
<1>2. /\ worker[w].pc = "releasing" /\ worker' = [worker EXCEPT ![w] = s]
      /\ UNCHANGED <<disk, cat, file, claims, generating, served, deferred, op, sweep, left, audit>>
      /\ job' = [k \in Key |-> IF k \in mine THEN ReleasedJob(job[k]) ELSE job[k]]
      /\ row' = [k \in Key |-> IF k \in mine /\ row[k].st = "running"
                               THEN [row[k] EXCEPT !.st = "queued"] ELSE row[k]]
  BY DEF ReleaseClaims, Set
<1>3. World'
  BY <1>1, <1>2, WorldStays
<1>4. s \in WorkerRec
  <2>1. <<>> \in Seq(Claim)
    OBVIOUS
  <2> QED
    BY <1>1, <2>1 DEF WorkerRec, WorkerStates
<1>5. s.pc = "closing" /\ s.open = <<>> /\ s.cur = <<>>
  BY <1>1, <1>2 DEF WorkerRec, Shape
<1> HIDE DEF s
<1>6. Shape(s) /\ Has(s) = {}
  BY <1>5, LetsGoOfAll
<1>7. ASSUME NEW k \in mine
      PROVE  \E c \in Has(worker[w]) : c.key = k /\ Owns(c)
  BY <1>7 DEF StillOwned, Has
<1> HIDE DEF mine
<1>8. ASSUME NEW k \in Key, k \in mine
      PROVE  /\ row'[k] \in Row /\ (row'[k].st = "evicted" => row'[k] = row[k]) /\ job'[k] \in Job
             /\ KeyStep(k) /\ RowStep(k) /\ JobReturns(job[k], job'[k])
  <2>1. job[k].st = "running"
    BY <1>7, <1>8 DEF Owns
  <2>2. row[k] \in Row /\ job[k] \in Job /\ KeyOK(k)
    BY <1>1 DEF Rows
  <2>3. row[k].path = 0
    BY <2>1, <2>2 DEF KeyOK, ActiveJob
  <2>6. job'[k] = ReleasedJob(job[k])
    BY <1>2, <1>8
  <2>7. job[k].attempts <= MaxAttempts
    BY <2>2 DEF KeyOK
  <2>8. /\ job'[k] \in Job /\ job'[k].st = "queued" /\ job'[k].token = 0
        /\ job'[k].attempts \in 0..(MaxAttempts - 1) /\ job'[k].attempts <= MaxAttempts
    BY <2>2, <2>6, <2>7, ReleasedFacts
  <2>9. JobReturns(job[k], job'[k])
    BY <2>1, <2>8 DEF JobReturns
  <2>10. JobStep(job[k], job'[k]) /\ ~JobQueues(job[k], job'[k]) /\ StillMoved(k)
    BY <2>1, <2>8, <2>9 DEF JobStep, JobQueues, ActiveJob, StillMoved
  <2>11. CASE row[k].st = "running"
    <3>0. PICK r : r = [row[k] EXCEPT !.st = "queued"]
      OBVIOUS
    <3>1. row'[k] = r
      BY <1>2, <1>8, <2>11, <3>0
    <3>4. "queued" \in RowStates
      BY DEF RowStates
    <3>5. r \in Row /\ r.st = "queued" /\ r.path = row[k].path
      BY <2>2, <3>0, <3>4, NewRows
    <3>2. row'[k] \in Row /\ row'[k].st = "queued" /\ row'[k].path = 0
      BY <2>3, <3>1, <3>5
    <3>3. RowStep(k)
      BY <3>2 DEF RowStep, RowLost
    <3> QED
      BY <1>2, <2>8, <2>9, <2>10, <3>2, <3>3 DEF KeyStep
  <2>12. CASE row[k].st # "running"
    <3>1. row'[k] = row[k]
      BY <1>2, <2>12
    <3>2. RowStep(k)
      BY <3>1 DEF RowStep
    <3> QED
      BY <1>2, <2>2, <2>8, <2>9, <2>10, <3>1, <3>2 DEF KeyStep
  <2> QED
    BY <2>11, <2>12
<1>9. ASSUME NEW k \in Key, k \notin mine
      PROVE  row'[k] = row[k] /\ job'[k] = job[k]
  BY <1>2, <1>9
<1>10. row' \in [Key -> Row] /\ job' \in [Key -> Job]
  <2>1. ASSUME NEW k \in Key PROVE row'[k] \in Row /\ job'[k] \in Job
    BY <1>1, <1>8, <1>9 DEF Rows
  <2>2. row' = [k \in Key |-> row'[k]] /\ job' = [k \in Key |-> job'[k]]
    BY <1>2
  <2>3. row' \in [Key -> Row]
    BY <2>1, <2>2
  <2>4. job' \in [Key -> Job]
    BY <2>1, <2>2
  <2> QED
    BY <2>3, <2>4
<1>11. ASSUME NEW k \in Key PROVE KeyStep(k) /\ RowStep(k)
  <2>1. CASE k \in mine
    BY <1>8, <2>1
  <2>2. CASE k \notin mine
    BY <1>1, <1>2, <1>9, <2>2, KeyNothing
  <2> QED
    BY <2>1, <2>2
<1>12. EvictionStays /\ NamesKept
  BY <1>8, <1>9, <1>11, RowStepsKeepNames DEF EvictionStays
<1>13. ASSUME NEW k \in Key
       PROVE  \/ row'[k] = row[k] /\ job'[k] = job[k]
              \/ \E d \in Has(worker[w]) :
                   /\ d.key = k /\ Owns(d) /\ \A e \in Has(s) : e.key # k
                   /\ JobEnds(job[k], job'[k]) \/ JobReturns(job[k], job'[k])
  BY <1>6, <1>7, <1>8, <1>9
<1>14. Has(s) \subseteq Has(worker[w])
  BY <1>6
<1> QED
  BY <1>2, <1>3, <1>4, <1>6, <1>10, <1>11, <1>12, <1>13, <1>14, OwnerStepOK

-----------------------------------------------------------------------------
(* The transactions of callers and of the supervisor.                      *)

\* The queue sweep ends the jobs that are still queued.
LEMMA SweepWriteOK ==
  ASSUME DerivInv, SweepWrite
  PROVE  StepOK
<1>1. World /\ Rows /\ SweepOK /\ NewOp(op)
  BY OpStays DEF DerivInv
<1>2. PICK ends : ends = [k \in {d \in DOMAIN sweep.todo : job[d].st = "queued"} |-> <<"skipped", sweep.todo[k]>>]
  OBVIOUS
<1>3. PICK t : t = SetEnds(Tx(NoLedger), ends)
  OBVIOUS
<1>4. /\ sweep.kind = "queued" /\ row' = t.row /\ job' = t.job /\ sweep' = NoSweep
      /\ UNCHANGED <<disk, cat, file, claims, worker, generating, served, deferred, op, left, audit>>
  BY <1>2, <1>3 DEF SweepWrite, Commit
<1>5. EndsOK(ends)
  <2>1. ASSUME NEW k \in Key, k \in DOMAIN ends
        PROVE  /\ ends[k] = <<"skipped", sweep.todo[k]>> /\ job[k].st = "queued"
               /\ sweep.todo[k] \in ResultCodes
    BY <1>1, <1>2, <1>4, <2>1 DEF SweepOK
  <2> QED
    BY <2>1 DEF EndsOK, ActiveJob
<1>6. Tables(t) /\ \A k \in Key : TxStep(k, t)
  BY <1>1, <1>3, <1>5, SetEndsFacts
<1>7. World'
  BY <1>1, <1>4, WorldStays
<1>8. PICK o : o = op' /\ NewOp(o)
  BY <1>1, <1>4
<1> QED
  BY <1>4, <1>6, <1>7, <1>8, TxStepOK

\* Recovery ends the claims that still run.
LEMMA RecoverWriteOK ==
  ASSUME DerivInv, RecoverWrite
  PROVE  StepOK
<1>1. World /\ Rows /\ SweepOK /\ NewOp(op)
  BY OpStays DEF DerivInv
<1>2. PICK ends : ends = Recovered(sweep.todo)
  OBVIOUS
<1>3. PICK t : t = SetEnds(Tx(NoLedger), ends)
  OBVIOUS
<1>4. /\ sweep.kind = "recover" /\ row' = t.row /\ job' = t.job /\ sweep' = NoSweep
      /\ UNCHANGED <<disk, cat, file, claims, worker, generating, served, deferred, op, left, audit>>
  BY <1>2, <1>3 DEF RecoverWrite, Commit
<1>5. EndsOK(ends)
  <2>1. ASSUME NEW k \in Key, k \in DOMAIN ends
        PROVE  /\ ends[k] = sweep.todo[k].end /\ k \in DOMAIN sweep.todo
               /\ job[k].st = "running" /\ job[k].token = sweep.todo[k].token
    BY <1>2, <2>1 DEF Recovered
  <2> QED
    BY <1>1, <1>4, <2>1 DEF EndsOK, ActiveJob, SweepOK
<1>6. Tables(t) /\ \A k \in Key : TxStep(k, t)
  BY <1>1, <1>3, <1>5, SetEndsFacts
<1>7. World'
  BY <1>1, <1>4, WorldStays
<1>8. PICK o : o = op' /\ NewOp(o)
  BY <1>1, <1>4
<1> QED
  BY <1>4, <1>6, <1>7, <1>8, TxStepOK

\* One coalesce.
LEMMA OneCoalesce ==
  ASSUME Rows, NEW lg, NEW k, NEW prio \in 0..3, NEW o, NEW t, t = Coalesce(Tx(lg), k, prio, o)
  PROVE  Tables(t) /\ \A x \in Key : TxStep(x, t)
<1>1. PICK tx : tx = Tx(lg)
  OBVIOUS
<1>2. Tables(tx) /\ tx.row = row /\ tx.job = job
  BY <1>1, TxFacts
<1>3. Tables(t) /\ \A x \in Key : CoStep(x, row[x], job[x], t.row[x], t.job[x])
  BY <1>1, <1>2, CoalesceFacts
<1> QED
  BY <1>3, CoStepIsTxStep

\* schedule_derivative coalesces.
LEMMA ScheduleCoalesceOK ==
  ASSUME DerivInv, ScheduleCoalesce
  PROVE  StepOK
<1>1. World /\ Rows /\ OpOK
  BY DEF DerivInv
<1>2. UNCHANGED <<disk, cat, file, claims, worker, generating, served, deferred, sweep, left, audit>>
  BY DEF ScheduleCoalesce
<1>3. World'
  BY <1>1, <1>2, WorldStays
<1>4. PICK k : k = Head(op.keys)
  OBVIOUS
<1>5. PICK t : t = Coalesce(Tx(NoLedger), k, op.prio, op.o)
  OBVIOUS
<1>6. PICK o : o = op'
  OBVIOUS
<1>7. CASE ~cat[k[1]].active
  <2>1. op' = NoOp /\ UNCHANGED <<row, job>>
    BY <1>4, <1>7 DEF ScheduleCoalesce, db
  <2>2. NewOp(o)
    BY <1>6, <2>1, NoOpIsNew
  <2> QED
    BY <1>2, <1>3, <1>6, <2>1, <2>2, IdleStepOK
<1>8. CASE cat[k[1]].active
  <2>1. row' = t.row /\ job' = t.job /\ op' \in {NoOp, [op EXCEPT !.stage = "reserve"]}
    BY <1>4, <1>5, <1>8 DEF ScheduleCoalesce, Commit
  <2>2. Tables(t) /\ \A x \in Key : TxStep(x, t)
    BY <1>1, <1>5, OneCoalesce DEF OpOK
  <2>3. NewOp(o)
    <3>1. CASE o = NoOp
      BY <3>1, NoOpIsNew
    <3>2. CASE o = [op EXCEPT !.stage = "reserve"]
      <4>1. o = [kind |-> op.kind, stage |-> "reserve", keys |-> op.keys, cands |-> op.cands, drop |-> op.drop,
                 sel |-> op.sel, gone |-> op.gone, prio |-> op.prio, o |-> op.o, by |-> op.by]
        BY <1>1, <3>2 DEF OpOK
      <4> QED
        BY <1>1, <4>1 DEF NewOp, OpOK
    <3> QED
      BY <1>6, <2>1, <3>1, <3>2
  <2> QED
    BY <1>2, <1>3, <1>6, <2>1, <2>2, <2>3, TxStepOK
<1> QED
  BY <1>7, <1>8

\* Retired paths are cache paths.
LEMMA RetiredAreKeys ==
  ASSUME Rows, NEW lg, NEW as
  PROVE  RetiredPaths(Tx(lg), as) \subseteq Key
<1>1. Superseded(Tx(lg), as) \subseteq Key /\ Tx(lg).row = row
  BY DEF Superseded, Tx
<1>2. ASSUME NEW k \in Key, row[k].path # 0 PROVE PathOf(k, row[k].path) \in Key
  <2>1. row[k].path \in 0..MaxIdent
    BY DEF Rows, Row
  <2>2. row[k].path \in Ident
    BY <1>2, <2>1, DerivativeAssumption DEF Ident
  <2> QED
    BY <2>2 DEF PathOf, Key
<1> QED
  BY <1>1, <1>2 DEF RetiredPaths

\* The reconcile batch.
LEMMA ReconcileBatchOK ==
  ASSUME DerivInv, ReconcileBatch
  PROVE  StepOK
<1>1. World /\ Rows /\ OpOK
  BY DEF DerivInv
<1>2. UNCHANGED <<disk, cat, file, claims, worker, generating, served, deferred, sweep, left, audit>>
  BY DEF ReconcileBatch
<1>3. World'
  BY <1>1, <1>2, WorldStays
<1>4. PICK done : done = Reconciled(Tx(NewLedger), op.cands, op.o)
  OBVIOUS
<1>5. PICK t : t = done.tx
  OBVIOUS
<1>6. PICK ps : ps = RetiredPaths(Tx(NoLedger), CandidateAssets(op.cands))
  OBVIOUS
<1>7. row' = t.row /\ job' = t.job /\ op' = Committed(t, ps, done.pending)
  BY <1>4, <1>5, <1>6 DEF ReconcileBatch, Commit
<1>8. Tables(t) /\ \A x \in Key : TxStep(x, t)
  <2>1. PICK tx : tx = Tx(NewLedger)
    OBVIOUS
  <2>2. Tables(tx) /\ tx.row = row /\ tx.job = job
    BY <1>1, <2>1, TxFacts
  <2>3. Len(op.cands) \in Nat
    BY <1>1 DEF OpOK
  <2> QED
    BY <1>1, <1>4, <1>5, <2>1, <2>2, <2>3, ReconciledFacts
<1>9. ps \subseteq Key
  BY <1>1, <1>6, RetiredAreKeys
<1>10. PICK o : o = op'
  OBVIOUS
<1>11. NewOp(o)
  <2>1. PICK drop : drop = {p \in ps : ~Referenced(t, p)}
    OBVIOUS
  <2>2. PICK keys : keys = done.pending
    OBVIOUS
  <2>3. o \in {NoOp, [op EXCEPT !.stage = "discard", !.drop = drop, !.keys = keys],
               [op EXCEPT !.stage = "reserve", !.keys = keys]}
    BY <1>7, <1>10, <2>1, <2>2 DEF Committed
  <2>4. CASE o = NoOp
    BY <2>4, NoOpIsNew
  <2>5. CASE o = [op EXCEPT !.stage = "discard", !.drop = drop, !.keys = keys]
    <3>1. o = [kind |-> op.kind, stage |-> "discard", keys |-> keys, cands |-> op.cands, drop |-> drop,
               sel |-> op.sel, gone |-> op.gone, prio |-> op.prio, o |-> op.o, by |-> op.by]
      BY <1>1, <2>5 DEF OpOK
    <3>2. drop \subseteq Key
      BY <1>9, <2>1
    <3> QED
      BY <1>1, <3>1, <3>2 DEF NewOp, OpOK
  <2>6. CASE o = [op EXCEPT !.stage = "reserve", !.keys = keys]
    <3>1. o = [kind |-> op.kind, stage |-> "reserve", keys |-> keys, cands |-> op.cands, drop |-> op.drop,
               sel |-> op.sel, gone |-> op.gone, prio |-> op.prio, o |-> op.o, by |-> op.by]
      BY <1>1, <2>6 DEF OpOK
    <3> QED
      BY <1>1, <3>1 DEF NewOp, OpOK
  <2> QED
    BY <2>3, <2>4, <2>5, <2>6
<1> QED
  BY <1>2, <1>3, <1>7, <1>8, <1>10, <1>11, TxStepOK

\* A pending derivative is coalesced after its reservation.
LEMMA ReconcilePendingOK ==
  ASSUME DerivInv, ReconcilePending
  PROVE  StepOK
<1>1. World /\ Rows /\ OpOK
  BY DEF DerivInv
<1>2. UNCHANGED <<disk, cat, file, claims, worker, generating, served, deferred, sweep, left, audit>>
  BY DEF ReconcilePending
<1>3. World'
  BY <1>1, <1>2, WorldStays
<1>4. PICK t : t = Coalesce(Tx(NoLedger), Head(op.keys), 3, op.o)
  OBVIOUS
<1>5. PICK keys : keys = Tail(op.keys)
  OBVIOUS
<1>6. row' = t.row /\ job' = t.job /\ op' \in {NoOp, [op EXCEPT !.stage = "reserve", !.keys = keys]}
  BY <1>4, <1>5 DEF ReconcilePending, Commit
<1>7. Tables(t) /\ \A x \in Key : TxStep(x, t)
  <2>1. 3 \in 0..3
    OBVIOUS
  <2> QED
    BY <1>1, <1>4, <2>1, OneCoalesce
<1>8. PICK o : o = op'
  OBVIOUS
<1>9. NewOp(o)
  <2>1. CASE o = NoOp
    BY <2>1, NoOpIsNew
  <2>2. CASE o = [op EXCEPT !.stage = "reserve", !.keys = keys]
    <3>1. o = [kind |-> op.kind, stage |-> "reserve", keys |-> keys, cands |-> op.cands, drop |-> op.drop,
               sel |-> op.sel, gone |-> op.gone, prio |-> op.prio, o |-> op.o, by |-> op.by]
      BY <1>1, <2>2 DEF OpOK
    <3> QED
      BY <1>1, <3>1 DEF NewOp, OpOK
  <2> QED
    BY <1>6, <1>8, <2>1, <2>2
<1> QED
  BY <1>2, <1>3, <1>6, <1>7, <1>8, <1>9, TxStepOK

\* retire_superseded_derivatives.
LEMMA RetireSupersededOK ==
  ASSUME DerivInv, RetireSuperseded
  PROVE  StepOK
<1>1. World /\ Rows
  BY DEF DerivInv
<1>2. /\ UNCHANGED <<disk, cat, claims, worker, generating, served, sweep, audit>>
      /\ Spend("call") /\ deferred' = deferred \cap served
      /\ file' = [p \in Key |-> IF p \in Finished(deferred \ served) THEN 0 ELSE file[p]]
  BY DEF RetireSuperseded
<1>3. World'
  <2>1. left' \in [DOMAIN Budget -> Nat]
    BY <1>1, <1>2, SpendFacts
  <2>2. file' \in [Key -> 0..MaxIdent]
    <3>1. file \in [Key -> 0..MaxIdent] /\ 0 \in 0..MaxIdent
      BY <1>1, DerivativeAssumption DEF World
    <3> QED
      BY <1>2, <3>1
  <2> QED
    BY <1>1, <1>2, <2>1, <2>2 DEF World
<1>4. PICK t : t = Retire(Tx(NoLedger), Assets)
  OBVIOUS
<1>5. PICK drop : drop = {p \in RetiredPaths(Tx(NoLedger), Assets) : ~Referenced(t, p)}
  OBVIOUS
<1>6. row' = t.row /\ job' = t.job
      /\ op' \in {NoOp, [NoOp EXCEPT !.kind = "retire", !.stage = "discard", !.drop = drop]}
  BY <1>4, <1>5 DEF RetireSuperseded, Commit
<1>7. Tables(t) /\ \A x \in Key : TxStep(x, t)
  <2>1. PICK tx : tx = Tx(NoLedger)
    OBVIOUS
  <2>2. Tables(tx) /\ tx.row = row /\ tx.job = job
    BY <1>1, <2>1, TxFacts
  <2> QED
    BY <1>1, <1>4, <2>1, <2>2, RetireFacts
<1>8. PICK o : o = op'
  OBVIOUS
<1>9. NewOp(o)
  <2>1. CASE o = NoOp
    BY <2>1, NoOpIsNew
  <2>2. CASE o = [NoOp EXCEPT !.kind = "retire", !.stage = "discard", !.drop = drop]
    <3>1. o = [kind |-> "retire", stage |-> "discard", keys |-> <<>>, cands |-> <<>>, drop |-> drop,
               sel |-> {}, gone |-> {}, prio |-> 3, o |-> Interactive, by |-> "none"]
      BY <2>2 DEF NoOp
    <3>2. drop \subseteq Key
      BY <1>1, <1>5, RetiredAreKeys
    <3>3. Len(<<>>) = 0
      OBVIOUS
    <3> QED
      BY <3>1, <3>2, <3>3 DEF NewOp
  <2> QED
    BY <1>6, <1>8, <2>1, <2>2
<1> QED
  BY <1>2, <1>3, <1>6, <1>7, <1>8, <1>9, TxStepOK

\* repair_derivative_consistency.
LEMMA RepairOK ==
  ASSUME DerivInv, Repair
  PROVE  StepOK
<1>1. World /\ Rows /\ NewOp(op)
  BY OpStays DEF DerivInv
<1>2. /\ UNCHANGED <<disk, cat, file, claims, worker, generating, served, deferred, op, sweep, audit>>
      /\ Spend("call")
  BY DEF Repair
<1>3. World'
  BY <1>1, <1>2, WorldStays
<1>4. PICK k \in Key : /\ row[k].st = "queued" /\ ~ActiveJob(job[k])
                       /\ row' = Repaired(Tx(NoLedger), k).row /\ job' = Repaired(Tx(NoLedger), k).job
  BY DEF Repair, Commit
<1>5. PICK t : t = Repaired(Tx(NoLedger), k)
  OBVIOUS
<1>6. Tx(NoLedger) = [row |-> row, job |-> job, lg |-> NoLedger, out |-> "none"]
  BY DEF Tx
<1>7. row[k] \in Row /\ job[k] \in Job /\ KeyOK(k) /\ row \in [Key -> Row] /\ job \in [Key -> Job]
  BY <1>1 DEF Rows
<1>8. row[k].path = 0
  BY <1>4, <1>7 DEF KeyOK
<1>9. Tables(Tx(NoLedger)) /\ Tx(NoLedger).row = row /\ Tx(NoLedger).job = job
  BY <1>1, TxFacts
<1>10. CASE Inapplicable(k) # "none"
  <2>1. PICK r : r = [row[k] EXCEPT !.st = "skipped"]
    OBVIOUS
  <2>2. r \in Row /\ r.st = "skipped" /\ r.path = 0
    BY <1>7, <1>8, <2>1, NewRows DEF RowStates
  <2>3. t = [row |-> [row EXCEPT ![k] = r], job |-> job, lg |-> NoLedger, out |-> "none"]
    BY <1>4, <1>5, <1>6, <1>10, <2>1 DEF Repaired
  <2>4. Writes(Tx(NoLedger), t, k, r, job[k])
    BY <1>6, <1>7, <2>3 DEF Writes
  <2>5. Changed(Tx(NoLedger), t, k) /\ t.row[k] = r /\ t.job[k] = job[k]
    BY <1>7, <1>9, <2>2, <2>4, ChangeBoth
  <2>6. CoStep(k, row[k], job[k], t.row[k], t.job[k])
    BY <2>2, <2>5 DEF CoStep, RowLost, JobStays, JobQueues, ActiveJob
  <2>7. ASSUME NEW x \in Key PROVE CoStep(x, row[x], job[x], t.row[x], t.job[x])
    BY <1>6, <2>5, <2>6, CoStepNothing DEF Changed
  <2>8. Tables(t) /\ \A x \in Key : TxStep(x, t)
    BY <1>1, <2>5, <2>7, CoStepIsTxStep DEF Changed
  <2>9. PICK o : o = op' /\ NewOp(o)
    BY <1>1, <1>2
  <2> QED
    BY <1>2, <1>3, <1>4, <1>5, <2>8, <2>9, TxStepOK
<1>11. CASE Inapplicable(k) = "none"
  <2>1. PICK i : i = QueuedJob(3)
    OBVIOUS
  <2>2. i \in Job /\ i.st = "queued" /\ i.token = 0 /\ i.attempts = 0
    BY <2>1, NewJobs
  <2>3. t = [row |-> row, job |-> [job EXCEPT ![k] = i], lg |-> NoLedger, out |-> "none"]
    BY <1>4, <1>5, <1>6, <1>11, <2>1 DEF Repaired
  <2>4. Writes(Tx(NoLedger), t, k, row[k], i)
    BY <1>6, <1>7, <2>3 DEF Writes
  <2>5. Changed(Tx(NoLedger), t, k) /\ t.row[k] = row[k] /\ t.job[k] = i
    BY <1>7, <1>9, <2>2, <2>4, ChangeBoth
  <2>6. CoStep(k, row[k], job[k], t.row[k], t.job[k])
    <3>1. 0 \in 0..(MaxAttempts - 1)
      BY MaxIsNumber
    <3> QED
      BY <1>4, <1>8, <2>2, <2>5, <3>1 DEF CoStep, JobQueues, ActiveJob
  <2>7. ASSUME NEW x \in Key PROVE CoStep(x, row[x], job[x], t.row[x], t.job[x])
    BY <1>6, <2>5, <2>6, CoStepNothing DEF Changed
  <2>8. Tables(t) /\ \A x \in Key : TxStep(x, t)
    BY <1>1, <2>5, <2>7, CoStepIsTxStep DEF Changed
  <2>9. PICK o : o = op' /\ NewOp(o)
    BY <1>1, <1>2
  <2> QED
    BY <1>2, <1>3, <1>4, <1>5, <2>8, <2>9, TxStepOK
<1> QED
  BY <1>10, <1>11

-----------------------------------------------------------------------------
(* Eviction, and the integrity pass.                                       *)

\* After a reservation no row is under eviction.
LEMMA ReservedIs ==
  ASSUME OpOK, NEW fits, NEW o, o = Reserved(fits)
  PROVE  NewOp(o) /\ o.sel = {}
<1>1. PICK keys : keys = Tail(op.keys)
  OBVIOUS
<1>2. o \in {NoOp, [op EXCEPT !.stage = "retry", !.sel = {}, !.gone = {}],
             [op EXCEPT !.stage = "reserve", !.keys = keys, !.sel = {}, !.gone = {}]}
  BY <1>1 DEF Reserved
<1>3. CASE o = NoOp
  BY <1>3, NoOpIsNew DEF NoOp
<1>4. CASE o = [op EXCEPT !.stage = "retry", !.sel = {}, !.gone = {}]
  <2>1. o = [kind |-> op.kind, stage |-> "retry", keys |-> op.keys, cands |-> op.cands, drop |-> op.drop,
             sel |-> {}, gone |-> {}, prio |-> op.prio, o |-> op.o, by |-> op.by]
    BY <1>4 DEF OpOK
  <2> QED
    BY <2>1 DEF NewOp, OpOK
<1>5. CASE o = [op EXCEPT !.stage = "reserve", !.keys = keys, !.sel = {}, !.gone = {}]
  <2>1. o = [kind |-> op.kind, stage |-> "reserve", keys |-> keys, cands |-> op.cands, drop |-> op.drop,
             sel |-> {}, gone |-> {}, prio |-> op.prio, o |-> op.o, by |-> op.by]
    BY <1>5 DEF OpOK
  <2> QED
    BY <2>1 DEF NewOp, OpOK
<1> QED
  BY <1>2, <1>3, <1>4, <1>5

\* Rows change as the step allows, jobs do not.
LEMMA RowsOnly ==
  ASSUME Rows, job' = job, audit' = audit, NEW k \in Key, RowStep(k),
         row'[k].st \in {"queued", "running"} => row'[k] = row[k]
  PROVE  KeyStep(k)
<1>1. job[k].attempts <= MaxAttempts
  BY DEF Rows, KeyOK
<1> QED
  BY <1>1 DEF KeyStep, StillMoved, JobStep, JobStays, JobQueues, ActiveJob

\* The evictions are committed before their files go.
LEMMA SelectAndEvictOK ==
  ASSUME DerivInv, SelectAndEvict
  PROVE  StepOK
<1>1. World /\ Rows /\ OpOK
  BY DEF DerivInv
<1>2. UNCHANGED <<disk, cat, file, claims, worker, generating, served, deferred, sweep, left, audit>>
  BY DEF SelectAndEvict
<1>3. World'
  BY <1>1, <1>2, WorldStays
<1>4. ASSUME UNCHANGED <<row, job>>, NEW fits, op' = Reserved(fits) PROVE StepOK
  <2>1. PICK o : o = op'
    OBVIOUS
  <2>2. NewOp(o)
    BY <1>1, <1>4, <2>1, ReservedIs
  <2> QED
    BY <1>2, <1>3, <1>4, <2>1, <2>2, IdleStepOK
<1>5. ASSUME NEW sel \in SUBSET Evictable, Commit(Evict(Tx(NoLedger), sel)),
             op' = [op EXCEPT !.stage = "evicted", !.sel = sel]
      PROVE  StepOK
  <2>1. /\ job' = job
        /\ row' = [k \in Key |-> IF k \in sel THEN [row[k] EXCEPT !.st = "evicted"] ELSE row[k]]
    BY <1>5 DEF Commit, Evict, Tx
  <2>2. \A k \in sel : k \in Key /\ row[k].st = "ready" /\ row[k].path # 0
    BY <1>5 DEF Evictable
  <2>3. ASSUME NEW k \in Key, k \in sel
        PROVE  row'[k] \in Row /\ row'[k].st = "evicted" /\ row'[k].path = row[k].path
    <3>1. PICK r : r = [row[k] EXCEPT !.st = "evicted"]
      OBVIOUS
    <3>2. row'[k] = r
      BY <2>1, <2>3, <3>1
    <3>3. row[k] \in Row /\ "evicted" \in RowStates
      BY <1>1 DEF Rows, RowStates
    <3> QED
      BY <3>1, <3>2, <3>3, NewRows
  <2>4. ASSUME NEW k \in Key, k \notin sel PROVE row'[k] = row[k] /\ row'[k] \in Row
    BY <1>1, <2>1, <2>4 DEF Rows
  <2>5. row' \in [Key -> Row] /\ job' \in [Key -> Job]
    <3>1. \A k \in Key : row'[k] \in Row
      BY <2>3, <2>4
    <3> QED
      BY <1>1, <2>1, <3>1 DEF Rows
  <2>6. ASSUME NEW k \in Key PROVE KeyStep(k) /\ RowStep(k)
    <3>1. RowStep(k)
      BY <2>2, <2>3, <2>4 DEF RowStep, RowKept
    <3>2. row'[k].st \in {"queued", "running"} => row'[k] = row[k]
      BY <2>3, <2>4
    <3> QED
      BY <1>1, <1>2, <2>1, <3>1, <3>2, RowsOnly
  <2>7. OpOK'
    <3>1. op' = [kind |-> op.kind, stage |-> "evicted", keys |-> op.keys, cands |-> op.cands, drop |-> op.drop,
                 sel |-> sel, gone |-> op.gone, prio |-> op.prio, o |-> op.o, by |-> op.by]
      BY <1>1, <1>5 DEF OpOK
    <3>2. \A k \in Key : k \in sel => row'[k].path # 0
      BY <2>2, <2>3
    <3> QED
      BY <1>1, <3>1, <3>2 DEF OpOK
  <2>8. SweepOK' /\ AuditOK'
    BY <1>2, <2>6, SweepKept, AuditKept DEF DerivInv
  <2> QED
    BY <1>2, <1>3, <2>5, <2>6, <2>7, <2>8, RowsStepOK
<1> QED
  BY <1>4, <1>5 DEF SelectAndEvict, db

\* The evictions are finalized: a file that stayed is offered again.
LEMMA FinalizeAndVerifyOK ==
  ASSUME DerivInv, FinalizeAndVerify
  PROVE  StepOK
<1>1. World /\ Rows /\ OpOK
  BY DEF DerivInv
<1>2. UNCHANGED <<disk, cat, file, claims, worker, generating, served, deferred, sweep, left, audit>>
  BY DEF FinalizeAndVerify
<1>3. World'
  BY <1>1, <1>2, WorldStays
<1>4. /\ job' = job
      /\ row' = [k \in Key |-> IF k \in op.sel /\ row[k].st = "evicted"
                               THEN IF k \in op.gone THEN [row[k] EXCEPT !.path = 0]
                                                     ELSE [row[k] EXCEPT !.st = "ready"]
                               ELSE row[k]]
  BY DEF FinalizeAndVerify, Commit, FinalizeEviction, Tx
<1>5. ASSUME NEW k \in Key
      PROVE  row'[k] \in Row /\ RowStep(k) /\ (row'[k].st \in {"queued", "running"} => row'[k] = row[k])
  <2>1. row[k] \in Row
    BY <1>1 DEF Rows
  <2>2. CASE ~(k \in op.sel /\ row[k].st = "evicted")
    BY <1>4, <2>1, <2>2 DEF RowStep
  <2>3. CASE k \in op.sel /\ row[k].st = "evicted" /\ k \in op.gone
    <3>1. PICK r : r = [row[k] EXCEPT !.path = 0]
      OBVIOUS
    <3>2. row'[k] = r
      BY <1>4, <2>3, <3>1
    <3>3. r \in Row /\ r.st = "evicted" /\ r.path = 0
      BY <2>1, <2>3, <3>1, NewRows DEF Row
    <3> QED
      BY <2>3, <3>2, <3>3 DEF RowStep, RowEmptied
  <2>4. CASE k \in op.sel /\ row[k].st = "evicted" /\ k \notin op.gone
    <3>1. PICK r : r = [row[k] EXCEPT !.st = "ready"]
      OBVIOUS
    <3>2. row'[k] = r
      BY <1>4, <2>4, <3>1
    <3>3. "ready" \in RowStates
      BY DEF RowStates
    <3>4. r \in Row /\ r.st = "ready" /\ r.path = row[k].path
      BY <2>1, <3>1, <3>3, NewRows
    <3>5. row[k].path # 0
      BY <1>1, <2>4 DEF OpOK
    <3> QED
      BY <2>4, <3>2, <3>4, <3>5 DEF RowStep, RowKept
  <2> QED
    BY <2>2, <2>3, <2>4
<1>6. row' \in [Key -> Row] /\ job' \in [Key -> Job]
  BY <1>1, <1>4, <1>5 DEF Rows
<1>7. \A k \in Key : KeyStep(k) /\ RowStep(k)
  BY <1>1, <1>2, <1>4, <1>5, RowsOnly
<1>8. OpOK'
  <2>1. PICK fits : op' = Reserved(fits)
    BY DEF FinalizeAndVerify
  <2>2. PICK o : o = op'
    OBVIOUS
  <2>3. NewOp(o) /\ o.sel = {}
    BY <1>1, <2>1, <2>2, ReservedIs
  <2> QED
    BY <2>2, <2>3 DEF OpOK, NewOp
<1>9. SweepOK' /\ AuditOK'
  BY <1>2, <1>7, SweepKept, AuditKept DEF DerivInv
<1> QED
  BY <1>2, <1>3, <1>6, <1>7, <1>8, <1>9, RowsStepOK

\* What the integrity pass does to the job of a row whose file is gone.
LEMMA AuditedFacts ==
  ASSUME NEW k, NEW j \in Job, j.attempts <= MaxAttempts
  PROVE  /\ AuditedJob(j, k) \in Job
         /\ JobStep(j, AuditedJob(j, k))
         /\ Applicable(k) => ActiveJob(AuditedJob(j, k))
<1>1. PICK i : i = AuditedJob(j, k)
  OBVIOUS
<1>2. CASE Applicable(k) /\ ~ActiveJob(j)
  <2>1. i = QueuedJob(3) /\ 3 \in 0..3
    BY <1>1, <1>2 DEF AuditedJob
  <2>2. i \in Job /\ i.st = "queued" /\ i.token = 0 /\ i.attempts = 0
    BY <2>1, NewJobs
  <2>3. 0 \in 0..(MaxAttempts - 1) /\ 0 <= MaxAttempts
    BY MaxIsNumber
  <2>4. JobQueues(j, i)
    BY <1>2, <2>2, <2>3 DEF JobQueues
  <2>5. JobStep(j, i)
    BY <2>2, <2>3, <2>4 DEF JobStep
  <2> QED
    BY <1>1, <2>2, <2>5 DEF ActiveJob
<1>3. CASE ~Applicable(k) /\ ActiveJob(j)
  <2>1. i = Ended(j, "skipped", AuditCode(k))
    BY <1>1, <1>3 DEF AuditedJob
  <2>2. AuditCode(k) \in ResultCodes
    BY DEF AuditCode, ResultCodes
  <2>3. i \in Job /\ i.st = "skipped" /\ i.token = 0 /\ i.attempts = j.attempts
    BY <2>1, <2>2, EndedFacts
  <2>4. JobEnds(j, i)
    BY <1>3, <2>3 DEF JobEnds, Over
  <2> QED
    BY <1>1, <1>3, <2>3, <2>4 DEF JobStep
<1>4. CASE Applicable(k) <=> ActiveJob(j)
  <2>1. i = j
    BY <1>1, <1>4 DEF AuditedJob
  <2> QED
    BY <1>1, <1>4, <2>1 DEF JobStep, JobStays
<1> QED
  BY <1>2, <1>3, <1>4

\* The integrity pass writes the ready rows without a file, unfenced.
LEMMA AuditReadyOK ==
  ASSUME DerivInv, AuditReady
  PROVE  StepOK
<1>1. World /\ Rows /\ OpOK /\ AuditOK /\ NewOp(op)
  BY OpStays DEF DerivInv
<1>2. UNCHANGED <<disk, cat, file, claims, worker, generating, served, deferred, op, sweep, left>>
  BY DEF AuditReady
<1>3. World'
  BY <1>1, <1>2, WorldStays
<1>4. PICK due :
        /\ row' = [k \in Key |-> IF k \notin due THEN row[k]
                                ELSE [st |-> IF Applicable(k) THEN "queued" ELSE "skipped", path |-> 0]]
        /\ job' = [k \in Key |-> IF k \in due THEN AuditedJob(job[k], k) ELSE job[k]]
  BY DEF AuditReady
<1>5. audit' = [stage |-> "done", ready |-> <<>>, done |-> audit.done,
                misled |-> audit.misled, torn |-> audit.torn]
  BY <1>1 DEF AuditReady, AuditOK
<1>6. ASSUME NEW k \in Key
      PROVE  /\ row'[k] \in Row /\ job'[k] \in Job /\ KeyStep(k) /\ RowStep(k)
             /\ row'[k].st = "evicted" => row'[k] = row[k]
  <2>1. row[k] \in Row /\ job[k] \in Job /\ job[k].attempts <= MaxAttempts
    BY <1>1 DEF Rows, KeyOK
  <2>2. k \in audit.misled => k \in audit'.misled
    BY <1>5
  <2>3. CASE k \notin due
    <3>1. row'[k] = row[k] /\ job'[k] = job[k]
      BY <1>4, <2>3
    <3> QED
      BY <2>1, <2>2, <3>1 DEF KeyStep, RowStep, StillMoved, JobStep, JobStays, JobQueues, ActiveJob
  <2>4. CASE k \in due
    <3>1. row'[k] = [st |-> IF Applicable(k) THEN "queued" ELSE "skipped", path |-> 0]
          /\ job'[k] = AuditedJob(job[k], k)
      BY <1>4, <2>4
    <3>2. row'[k] \in Row /\ row'[k].st \in {"queued", "skipped"} /\ row'[k].path = 0
          /\ (row'[k].st = "queued" => Applicable(k))
      BY <3>1, NewRows DEF RowStates
    <3>3. job'[k] \in Job /\ JobStep(job[k], job'[k]) /\ (Applicable(k) => ActiveJob(job'[k]))
      BY <2>1, <3>1, AuditedFacts
    <3>4. RowStep(k) /\ StillMoved(k)
      BY <3>2, <3>3 DEF RowStep, RowLost, StillMoved
    <3> QED
      BY <2>2, <3>2, <3>3, <3>4 DEF KeyStep
  <2> QED
    BY <2>3, <2>4
<1>7. row' \in [Key -> Row] /\ job' \in [Key -> Job]
  <2>1. row' = [k \in Key |-> row'[k]] /\ job' = [k \in Key |-> job'[k]]
    BY <1>4
  <2>2. row' \in [Key -> Row]
    BY <1>6, <2>1
  <2>3. job' \in [Key -> Job]
    BY <1>6, <2>1
  <2> QED
    BY <2>2, <2>3
<1>8. EvictionStays
  BY <1>6 DEF EvictionStays
<1>9. OpOK'
  <2>1. PICK o : o = op' /\ NewOp(o)
    BY <1>1, <1>2
  <2> QED
    BY <1>1, <1>8, <2>1, OpMoves
<1>10. AuditOK'
  BY <1>1, <1>5, <1>6, HasJob DEF AuditOK
<1>11. SweepOK'
  BY <1>2, <1>6, SweepKept DEF DerivInv
<1>12. UNCHANGED <<claims, worker>>
  BY <1>2
<1> QED
  BY <1>3, <1>6, <1>7, <1>9, <1>10, <1>11, <1>12, RowsStepOK

\* The integrity pass writes the done jobs whose row is not ready, unfenced.
LEMMA AuditDoneOK ==
  ASSUME DerivInv, AuditDone
  PROVE  StepOK
<1>1. World /\ Rows /\ OpOK /\ AuditOK /\ NewOp(op)
  BY OpStays DEF DerivInv
<1>2. UNCHANGED <<disk, cat, file, claims, worker, generating, served, deferred, op, sweep, left>>
  BY DEF AuditDone
<1>3. World'
  BY <1>1, <1>2, WorldStays
<1>13. PICK there : there = {k \in DOMAIN audit.done : audit.done[k]}
  OBVIOUS
<1>14. PICK gone : gone = {k \in DOMAIN audit.done \ there : job[k].st = "done"}
  OBVIOUS
<1>4. /\ \A k \in there : k \in DOMAIN audit.done
      /\ \A k \in gone : job[k].st = "done"
      /\ row' = [k \in Key |-> IF k \in there /\ row[k].st # "absent"
                               THEN [row[k] EXCEPT !.st = "ready"] ELSE row[k]]
      /\ job' = [k \in Key |-> IF k \in gone THEN [job[k] EXCEPT !.st = "failed", !.rc = "internal_error"]
                               ELSE job[k]]
      /\ audit' = [AuditOver EXCEPT !.misled =
           audit.misled \cup {k \in there : k \in op.sel \/ ~HasFile(k, row[k])}]
  BY <1>13, <1>14 DEF AuditDone
<1>5. audit' = [stage |-> "none", ready |-> <<>>, done |-> <<>>,
                misled |-> audit.misled \cup {k \in there : k \in op.sel \/ ~HasFile(k, row[k])},
                torn |-> audit.torn]
  BY <1>4 DEF AuditOver, NoAudit
<1>6. ASSUME NEW k \in Key
      PROVE  /\ row'[k] \in Row /\ job'[k] \in Job /\ KeyStep(k) /\ RowStep(k)
             /\ row'[k].st = "evicted" => row'[k] = row[k]
  <2>1. row[k] \in Row /\ job[k] \in Job /\ KeyOK(k)
    BY <1>1 DEF Rows
  <2>2. k \in audit.misled => k \in audit'.misled
    BY <1>5
  <2>3. job'[k] \in Job /\ JobStep(job[k], job'[k]) /\ ~JobQueues(job[k], job'[k])
        /\ (ActiveJob(job'[k]) <=> ActiveJob(job[k]))
    <3>1. CASE k \notin gone
      <4>1. job'[k] = job[k]
        BY <1>4, <3>1
      <4> QED
        BY <2>1, <4>1 DEF JobStep, JobStays, JobQueues, ActiveJob, KeyOK
    <3>2. CASE k \in gone
      <4>1. PICK i : i = [job[k] EXCEPT !.st = "failed", !.rc = "internal_error"]
        OBVIOUS
      <4>2. job'[k] = i
        BY <1>4, <3>2, <4>1
      <4>3. "failed" \in JobStates /\ "internal_error" \in ResultCodes
        BY DEF JobStates, ResultCodes
      <4>4. i \in Job
        BY <2>1, <4>1, <4>3 DEF Job
      <4>5. i.st = "failed" /\ i.token = job[k].token /\ i.attempts = job[k].attempts
        BY <2>1, <4>1 DEF Job
      <4>6. job[k].st = "done" /\ job[k].token = 0 /\ job[k].attempts <= MaxAttempts
        BY <1>4, <2>1, <3>2 DEF KeyOK
      <4> QED
        BY <4>2, <4>4, <4>5, <4>6 DEF JobStep, JobSettled, JobQueues, ActiveJob, Over
    <3> QED
      BY <3>1, <3>2
  <2>4. CASE ~(k \in there /\ row[k].st # "absent")
    <3>1. row'[k] = row[k]
      BY <1>4, <2>4
    <3>2. RowStep(k) /\ StillMoved(k)
      BY <2>3, <3>1 DEF RowStep, StillMoved
    <3> QED
      BY <2>1, <2>2, <2>3, <3>1, <3>2 DEF KeyStep
  <2>5. CASE k \in there /\ row[k].st # "absent"
    <3>1. PICK r : r = [row[k] EXCEPT !.st = "ready"]
      OBVIOUS
    <3>2. row'[k] = r
      BY <1>4, <2>5, <3>1
    <3>3. "ready" \in RowStates
      BY DEF RowStates
    <3>4. r \in Row /\ r.st = "ready" /\ r.path = row[k].path
      BY <2>1, <3>1, <3>3, NewRows
    <3>5. RowStep(k)
      <4>1. CASE row[k].path # 0
        BY <2>1, <3>2, <3>4, <4>1 DEF RowStep, RowKept, KeyOK
      <4>2. CASE row[k].path = 0
        <5>1. ~HasFile(k, row[k])
          BY <4>2 DEF HasFile
        <5>2. k \in audit'.misled
          BY <1>5, <2>5, <5>1
        <5>3. job[k].st # "none"
          BY <1>1, <1>4, <2>5 DEF AuditOK
        <5> QED
          BY <3>2, <3>4, <5>2, <5>3 DEF RowStep
      <4> QED
        BY <4>1, <4>2
    <3>6. StillMoved(k)
      BY <3>2, <3>4 DEF StillMoved
    <3> QED
      BY <2>2, <2>3, <3>2, <3>4, <3>5, <3>6 DEF KeyStep
  <2> QED
    BY <2>4, <2>5
<1>7. row' \in [Key -> Row] /\ job' \in [Key -> Job]
  <2>1. row' = [k \in Key |-> row'[k]] /\ job' = [k \in Key |-> job'[k]]
    BY <1>4
  <2>2. row' \in [Key -> Row]
    BY <1>6, <2>1
  <2>3. job' \in [Key -> Job]
    BY <1>6, <2>1
  <2> QED
    BY <2>2, <2>3
<1>8. EvictionStays
  BY <1>6 DEF EvictionStays
<1>9. OpOK'
  <2>1. PICK o : o = op' /\ NewOp(o)
    BY <1>1, <1>2
  <2> QED
    BY <1>1, <1>8, <2>1, OpMoves
<1>10. AuditOK'
  <2>1. DOMAIN <<>> = {}
    OBVIOUS
  <2> QED
    BY <1>5, <2>1 DEF AuditOK
<1>11. SweepOK'
  BY <1>2, <1>6, SweepKept DEF DerivInv
<1>12. UNCHANGED <<claims, worker>>
  BY <1>2
<1> QED
  BY <1>3, <1>6, <1>7, <1>9, <1>10, <1>11, <1>12, RowsStepOK

-----------------------------------------------------------------------------
(* The steps that start over.                                              *)

\* Idle workers hold nothing.
LEMMA IdleHoldsNothing ==
  ASSUME NEW rs \in [Workers -> WorkerRec], \A w \in Workers : rs[w] = Idle, NEW k
  PROVE  Tokens(rs, k) = {}
<1>1. \A w \in Workers : Has(rs[w]) = {}
  BY IdleFacts
<1> QED
  BY <1>1 DEF Tokens

\* A derivative that nobody asked for.
LEMMA NoJobFacts ==
  /\ NoJob \in Job /\ NoJob.st = "none" /\ NoJob.token = 0 /\ NoJob.attempts = 0
  /\ NoRow \in Row /\ NoRow.st = "absent" /\ NoRow.path = 0
BY NewRows DEF NoJob, Job, JobStates, ResultCodes, NoRow, RowStates

\* Imported data is cleared while nothing runs.
LEMMA ClearRowsOK ==
  ASSUME DerivInv, ClearRows
  PROVE  StepOK
<1>1. World /\ Rows /\ Crew /\ AuditOK /\ SweepOK
  BY DEF DerivInv
<1>2. /\ Spend("call") /\ Quiet
      /\ row' = [k \in Key |-> NoRow] /\ job' = [k \in Key |-> NoJob]
      /\ cat' = [a \in Assets |-> [cat[a] EXCEPT !.active = FALSE]]
      /\ UNCHANGED <<disk, file, claims, worker, generating, served, deferred, sweep, audit>>
  BY DEF ClearRows
<1>3. World'
  <2>1. left' \in [DOMAIN Budget -> Nat]
    BY <1>1, <1>2, SpendFacts
  <2>2. cat' \in [Assets -> [ident : Ident, active : BOOLEAN]]
    BY <1>1, <1>2 DEF World
  <2> QED
    BY <1>1, <1>2, <2>1, <2>2 DEF World
<1>4. /\ row' \in [Key -> Row] /\ job' \in [Key -> Job]
      /\ \A k \in Key : row'[k].st = "absent" /\ row'[k].path = 0
      /\ \A k \in Key : job'[k].st = "none" /\ job'[k].token = 0 /\ job'[k].attempts = 0
  BY <1>2, NoJobFacts
<1>5. Rows'
  <2>1. \A k \in Key : KeyOK(k)'
    BY <1>4, MaxIsNumber DEF KeyOK
  <2> QED
    BY <1>1, <1>2, <1>4, <2>1 DEF Rows
<1>6. \A w \in Workers : worker[w] = Idle
  BY <1>2 DEF Quiet
<1>7. Crew'
  <2>1. \A w \in Workers : Has(worker[w]) = {}
    BY <1>6, IdleFacts
  <2>2. \A w \in Workers : Drawn(worker[w])'
    BY <1>2, <2>1 DEF Drawn
  <2> QED
    BY <1>1, <1>2, <2>2 DEF Crew
<1>8. OpOK'
  <2>1. PICK o : o = op'
    OBVIOUS
  <2>2. o = [kind |-> "clear", stage |-> "want", keys |-> <<>>, cands |-> <<>>, drop |-> {},
             sel |-> {}, gone |-> {}, prio |-> 3, o |-> Interactive, by |-> "none"]
    BY <2>1 DEF ClearRows, NoOp
  <2>3. Len(<<>>) = 0
    OBVIOUS
  <2> QED
    BY <2>1, <2>2, <2>3 DEF OpOK
<1>9. SweepOK'
  BY <1>2, SweepOver DEF Quiet
<1>10. AuditOK'
  <2>1. \A k \in Key : k \notin DOMAIN audit.done
    BY <1>1, <1>2 DEF AuditOK, Quiet
  <2> QED
    BY <1>1, <1>2, <2>1 DEF AuditOK
<1>11. \A k \in Key : StillMoved(k)
  BY <1>4 DEF StillMoved
<1>12. ASSUME NEW k \in Key PROVE Queue!Move(k)
  <2>1. worker \in [Workers -> WorkerRec] /\ worker' \in [Workers -> WorkerRec]
    BY <1>1, <1>2 DEF Crew
  <2>2. HeldTokens(k) = {} /\ HeldTokens(k)' = {}
    <3>1. Tokens(worker, k) = {} /\ Tokens(worker', k) = {}
      BY <1>2, <1>6, <2>1, IdleHoldsNothing
    <3> QED
      BY <2>1, <3>1, HeldNow
  <2>3. Phase(job'[k]) = "none" /\ job'[k].token = 0
    BY <1>4 DEF Phase
  <2>4. Offered(k)' = "none"
    BY <1>4 DEF Offered, OfferOf
  <2> QED
    BY <2>2, <2>3, <2>4 DEF Queue!Move, Queue!Clear, Queue!Offer, Offered
<1>13. NamesKept
  BY <1>4 DEF NamesKept
<1> QED
  BY <1>3, <1>5, <1>7, <1>8, <1>9, <1>10, <1>11, <1>12, <1>13 DEF StepOK, DerivInv, Queue!Next

\* The process ends and starts again.
LEMMA RestartOK ==
  ASSUME DerivInv, Restart
  PROVE  StepOK
<1>1. World /\ Rows /\ Crew
  BY DEF DerivInv
<1>2. PICK ends : ends = [k \in Stale \cup {r \in Key : job[r].st = "running"} |->
                            IF k \in Stale THEN <<"skipped", SweepCode(k)>> ELSE RecoveryOf(k)]
  OBVIOUS
<1>3. PICK t : t = SetEnds(Tx(NoLedger), ends)
  OBVIOUS
<1>4. /\ Spend("restart") /\ row' = t.row /\ job' = t.job
      /\ worker' = [w \in Workers |-> Idle]
      /\ generating' = {} /\ served' = {} /\ deferred' = {}
      /\ op' = NoOp /\ sweep' = NoSweep /\ audit' = [AuditOver EXCEPT !.torn = @ \cup op.gone]
      /\ UNCHANGED <<disk, cat, file, claims>>
  BY <1>2, <1>3 DEF Restart, Commit, RestartedRows
<1>5. audit' = [stage |-> "none", ready |-> <<>>, done |-> <<>>,
                misled |-> audit.misled, torn |-> audit.torn \cup op.gone]
  BY <1>4 DEF AuditOver, NoAudit
<1>6. EndsOK(ends)
  <2>1. ASSUME NEW k \in Key, k \in DOMAIN ends
        PROVE  /\ ends[k] \in {"queued", "failed", "skipped"} \X ResultCodes /\ ActiveJob(job[k])
               /\ ends[k][1] = "queued" => job[k].st = "running" /\ job[k].attempts < MaxAttempts
    <3>1. CASE k \in Stale
      <4>1. ends[k] = <<"skipped", SweepCode(k)>> /\ job[k].st = "queued"
        BY <1>2, <2>1, <3>1 DEF Stale
      <4>2. SweepCode(k) \in ResultCodes
        BY DEF SweepCode, ResultCodes
      <4> QED
        BY <4>1, <4>2 DEF ActiveJob
    <3>2. CASE k \notin Stale
      <4>1. ends[k] = RecoveryOf(k) /\ job[k].st = "running"
        BY <1>2, <2>1, <3>2
      <4> QED
        BY <1>1, <4>1, RecoveryFacts DEF ActiveJob
    <3> QED
      BY <3>1, <3>2
  <2> QED
    BY <2>1 DEF EndsOK
<1>7. /\ Tables(t)
      /\ \A k \in Key :
           /\ TxStep(k, t)
           /\ k \notin DOMAIN ends => t.row[k] = row[k] /\ t.job[k] = job[k]
  BY <1>1, <1>3, <1>6, SetEndsFacts
<1>8. \A k \in Key : KeyStep(k) /\ RowStep(k)
  <2>1. audit'.misled = audit.misled
    BY <1>5
  <2> QED
    BY <1>4, <1>7, <2>1, TxStepIsKeyStep
<1>9. World'
  <2>1. left' \in [DOMAIN Budget -> Nat]
    BY <1>1, <1>4, SpendFacts
  <2> QED
    BY <1>1, <1>4, <2>1 DEF World
<1>10. /\ worker' \in [Workers -> WorkerRec]
       /\ \A w \in Workers : worker'[w] = Idle /\ Shape(worker'[w]) /\ Has(worker'[w]) \subseteq Has(worker[w])
  BY <1>4, IdleFacts
<1>11. OpOK'
  <2>1. PICK o : o = op' /\ NewOp(o)
    BY <1>4, NoOpIsNew
  <2>2. EvictionStays
    BY <1>4, <1>7 DEF EvictionStays, TxStep
  <2> QED
    BY <2>1, <2>2, OpMoves DEF DerivInv
<1>12. SweepOK'
  BY <1>4, SweepOver
<1>13. AuditOK'
  <2>1. DOMAIN <<>> = {}
    OBVIOUS
  <2> QED
    BY <1>5, <2>1 DEF AuditOK
<1>14. row' \in [Key -> Row] /\ job' \in [Key -> Job]
  BY <1>4, <1>7 DEF Tables
<1>15. claims' = claims
  BY <1>4
<1>16. DerivInv' /\ \A k \in Key : StillMoved(k)
  BY <1>8, <1>9, <1>10, <1>11, <1>12, <1>13, <1>14, <1>15, AllKept
<1>17. ASSUME NEW k \in Key PROVE Queue!Move(k)
  <2>1. HeldTokens(k)' = {}
    <3>1. Tokens(worker', k) = {}
      BY <1>10, IdleHoldsNothing
    <3> QED
      BY <1>1, <1>10, <3>1, HeldNow DEF Crew
  <2>2. ~JobQueues(job[k], job'[k])
    <3>1. CASE k \in DOMAIN ends
      BY <1>6, <3>1 DEF EndsOK, JobQueues
    <3>2. CASE k \notin DOMAIN ends
      BY <1>4, <1>7, <3>2 DEF JobQueues, ActiveJob
    <3> QED
      BY <3>1, <3>2
  <2>3. KeyOK(k) /\ job[k].st \in JobStates
    BY <1>1 DEF Rows, Job
  <2>4. KeyStep(k) /\ RowStep(k)
    BY <1>8
  <2> QED
    BY <2>1, <2>2, <2>3, <2>4, KeyStepMoves
<1>18. NamesKept
  BY <1>8, RowStepsKeepNames
<1> QED
  BY <1>16, <1>17, <1>18 DEF StepOK, Queue!Next

-----------------------------------------------------------------------------
(* A worker takes claims.                                                  *)

\* The derivative of k's asset and identity with the n-th variant.
KeyAt(k, n) == <<k[1], Variants[n], k[3]>>

\* The claims are collected variant by variant: f has what is there after each.
Collected(f, k, sibs, n) ==
  f = [m \in 0..n |-> IF m = 0 THEN <<k>>
                      ELSE IF KeyAt(k, m) \in sibs THEN Append(f[m - 1], KeyAt(k, m)) ELSE f[m - 1]]

\* Such an f exists.
LEMMA CollectedExists ==
  ASSUME NEW k, NEW sibs, NEW n \in Nat
  PROVE  \E f : Collected(f, k, sibs, n)
<1> DEFINE b == <<k>>
           Then(a, m) == IF KeyAt(k, m) \in sibs THEN Append(a, KeyAt(k, m)) ELSE a
<1>1. \A f, m : Collected(f, k, sibs, m) <=> f = [i \in 0..m |-> IF i = 0 THEN b ELSE Then(f[i - 1], i)]
  BY DEF Collected
<1> HIDE DEF Then, b
<1>2. \E f : Collected(f, k, sibs, 0)
  <2> DEFINE f == [i \in 0..0 |-> b]
  <2>1. f = [i \in 0..0 |-> IF i = 0 THEN b ELSE Then(f[i - 1], i)]
    <3>1. \A i \in 0..0 : i = 0
      OBVIOUS
    <3> QED
      BY <3>1
  <2> QED
    BY <1>1, <2>1
<1>3. ASSUME NEW m \in Nat, NEW f, Collected(f, k, sibs, m) PROVE \E h : Collected(h, k, sibs, m + 1)
  <2> DEFINE h == [i \in 0..(m + 1) |-> IF i = m + 1 THEN Then(f[m], m + 1) ELSE f[i]]
  <2>1. \A i \in 0..m : i \in 0..(m + 1) /\ h[i] = f[i]
    OBVIOUS
  <2>2. h[m + 1] = Then(h[m], m + 1)
    BY <2>1
  <2>3. \A i \in 0..m : f[i] = IF i = 0 THEN b ELSE Then(f[i - 1], i)
    BY <1>1, <1>3
  <2>4. ASSUME NEW i \in 0..(m + 1) PROVE h[i] = IF i = 0 THEN b ELSE Then(h[i - 1], i)
    <3>1. CASE i = m + 1
      BY <2>2, <3>1
    <3>2. CASE i = 0
      BY <2>1, <2>3, <3>2
    <3>3. CASE i \in 1..m
      <4>1. i \in 0..m /\ i - 1 \in 0..m /\ i # 0
        BY <3>3
      <4> QED
        BY <2>1, <2>3, <4>1
    <3> QED
      BY <3>1, <3>2, <3>3
  <2>5. h = [i \in 0..(m + 1) |-> h[i]]
    OBVIOUS
  <2> HIDE DEF h
  <2>6. h = [i \in 0..(m + 1) |-> IF i = 0 THEN b ELSE Then(h[i - 1], i)]
    BY <2>4, <2>5
  <2> QED
    BY <1>1, <2>6
<1> DEFINE Bad == {m \in 1..n : ~\E f : Collected(f, k, sibs, m)}
<1>4. ASSUME Bad # {} PROVE FALSE
  <2>1. PICK m \in Bad : \A y \in Bad : m <= y
    BY <1>4, LeastOf
  <2>2. m \in 1..n /\ m - 1 \in Nat /\ (m - 1) + 1 = m /\ m - 1 \notin Bad
    BY <2>1
  <2>3. \E f : Collected(f, k, sibs, m - 1)
    BY <1>2, <2>2
  <2> QED
    BY <1>3, <2>1, <2>2, <2>3
<1> QED
  BY <1>2, <1>4

\* A claim of key x, as a worker is about to take it.
FreshClaim(x) == [key |-> x, token |-> claims[x] + 1, attempts |-> job[x].attempts + 1]

\* The claims are made of the collected keys.
LEMMA ClaimsOfIs ==
  ASSUME NEW k, NEW sibs
  PROVE  \E f : /\ Collected(f, k, sibs, Len(Variants))
                /\ ClaimsOf(k, sibs) = [n \in DOMAIN f[Len(Variants)] |-> FreshClaim(f[Len(Variants)][n])]
<1>1. Len(Variants) \in Nat
  BY DerivativeAssumption
<1>2. \E f : Collected(f, k, sibs, Len(Variants))
  BY <1>1, CollectedExists
<1> QED
  BY <1>2 DEF ClaimsOf, Collected, KeyAt, FreshClaim

\* The leader first, then its siblings among the first m variants, each once.
Ordered(s, k, sibs, m) ==
  /\ s \in Seq(Key)
  /\ \A i \in 1..Len(s) : s[i] = k \/ \E j \in 1..m : s[i] = KeyAt(k, j) /\ s[i] \in sibs
  /\ \A i, j \in 1..Len(s) : s[i] = s[j] => i = j
  /\ \A j \in 1..m : KeyAt(k, j) \in sibs => \E i \in 1..Len(s) : s[i] = KeyAt(k, j)
  /\ \E i \in 1..Len(s) : s[i] = k

\* One more variant.
LEMMA OrderedGrows ==
  ASSUME NEW k \in Key, NEW sibs \in SUBSET (Key \ {k}), NEW m \in Nat, m + 1 <= Len(Variants),
         NEW s, Ordered(s, k, sibs, m), NEW t,
         t = IF KeyAt(k, m + 1) \in sibs THEN Append(s, KeyAt(k, m + 1)) ELSE s
  PROVE  Ordered(t, k, sibs, m + 1)
<1>1. \A i : i \in 1..(m + 1) <=> i \in 1..m \/ i = m + 1
  OBVIOUS
<1>2. CASE KeyAt(k, m + 1) \notin sibs
  <2>1. t = s
    BY <1>2
  <2> QED
    BY <1>1, <1>2, <2>1 DEF Ordered
<1>3. CASE KeyAt(k, m + 1) \in sibs
  <2>1. PICK x : x = KeyAt(k, m + 1)
    OBVIOUS
  <2>2. x \in sibs /\ x \in Key /\ x # k
    BY <1>3, <2>1
  <2>3. s \in Seq(Key) /\ Len(s) \in Nat
    BY DEF Ordered
  <2>4. /\ t \in Seq(Key) /\ Len(t) = Len(s) + 1 /\ t[Len(s) + 1] = x
        /\ \A i \in 1..Len(s) : t[i] = s[i]
    BY <1>3, <2>1, <2>2, <2>3
  <2>5. \A i : i \in 1..Len(t) <=> i \in 1..Len(s) \/ i = Len(s) + 1
    BY <2>3, <2>4
  <2>6. ASSUME NEW i \in 1..Len(s) PROVE s[i] # x
    <3>1. CASE s[i] = k
      BY <2>2, <3>1
    <3>2. CASE s[i] # k
      <4>1. PICK j \in 1..m : s[i] = KeyAt(k, j)
        BY <2>6, <3>2 DEF Ordered
      <4>2. j \in 1..Len(Variants) /\ m + 1 \in 1..Len(Variants) /\ j # m + 1
        OBVIOUS
      <4>3. Variants[j] # Variants[m + 1]
        <5>1. DOMAIN Variants = 1..Len(Variants)
          BY DerivativeAssumption
        <5>2. \A a, b \in DOMAIN Variants : Variants[a] = Variants[b] => a = b
          BY DerivativeAssumption DEF IsInjective
        <5> QED
          BY <4>2, <5>1, <5>2
      <4>4. KeyAt(k, j)[2] = Variants[j] /\ KeyAt(k, m + 1)[2] = Variants[m + 1]
        BY DEF KeyAt
      <4> QED
        BY <2>1, <4>1, <4>3, <4>4
    <3> QED
      BY <3>1, <3>2
  <2>7. \A i \in 1..Len(t) : t[i] = k \/ \E j \in 1..(m + 1) : t[i] = KeyAt(k, j) /\ t[i] \in sibs
    <3>1. ASSUME NEW i \in 1..Len(s)
          PROVE  t[i] = k \/ \E j \in 1..(m + 1) : t[i] = KeyAt(k, j) /\ t[i] \in sibs
      BY <1>1, <2>4, <3>1 DEF Ordered
    <3>2. t[Len(s) + 1] = KeyAt(k, m + 1) /\ t[Len(s) + 1] \in sibs /\ m + 1 \in 1..(m + 1)
      BY <2>1, <2>2, <2>4
    <3> QED
      BY <2>5, <3>1, <3>2
  <2>8. ASSUME NEW i \in 1..Len(t), NEW j \in 1..Len(t), t[i] = t[j] PROVE i = j
    <3>1. CASE i \in 1..Len(s) /\ j \in 1..Len(s)
      BY <2>4, <2>8, <3>1 DEF Ordered
    <3>2. CASE i \in 1..Len(s) /\ j = Len(s) + 1
      BY <2>4, <2>6, <2>8, <3>2
    <3>3. CASE i = Len(s) + 1 /\ j \in 1..Len(s)
      BY <2>4, <2>6, <2>8, <3>3
    <3>4. CASE i = Len(s) + 1 /\ j = Len(s) + 1
      BY <3>4
    <3> QED
      BY <2>5, <3>1, <3>2, <3>3, <3>4
  <2>9. ASSUME NEW j \in 1..(m + 1), KeyAt(k, j) \in sibs PROVE \E i \in 1..Len(t) : t[i] = KeyAt(k, j)
    <3>1. CASE j \in 1..m
      <4>1. PICK i \in 1..Len(s) : s[i] = KeyAt(k, j)
        BY <2>9, <3>1 DEF Ordered
      <4> QED
        BY <2>4, <2>5, <4>1
    <3>2. CASE j = m + 1
      BY <2>1, <2>4, <2>5, <3>2
    <3> QED
      BY <1>1, <3>1, <3>2
  <2>10. \E i \in 1..Len(t) : t[i] = k
    <3>1. PICK i \in 1..Len(s) : s[i] = k
      BY DEF Ordered
    <3> QED
      BY <2>4, <2>5, <3>1
  <2> QED
    BY <2>4, <2>7, <2>8, <2>9, <2>10 DEF Ordered
<1> QED
  BY <1>2, <1>3

\* The claims a worker takes: the leader's and its siblings', one of each.
LEMMA ClaimsOfFacts ==
  ASSUME Rows, NEW k \in Key
  PROVE  LET mine == ClaimsOf(k, Siblings(k))
             taken == {k} \cup Siblings(k)
         IN /\ mine \in Seq(Claim) /\ mine # <<>>
            /\ \A i, j \in 1..Len(mine) : mine[i].key = mine[j].key => i = j
            /\ \A c \in ToSet(mine) : c.key \in taken /\ c = FreshClaim(c.key)
            /\ \A x \in taken : \E c \in ToSet(mine) : c.key = x
<1>1. PICK sibs : sibs = Siblings(k)
  OBVIOUS
<1>2. /\ sibs \in SUBSET (Key \ {k})
      /\ \A s \in sibs : s \in Key /\ s[1] = k[1] /\ s[3] = k[3]
  BY <1>1 DEF Siblings
<1>3. PICK n : n = Len(Variants) /\ n \in Nat /\ DOMAIN Variants = 1..n
  BY DerivativeAssumption
<1>4. ASSUME NEW s \in sibs PROVE \E j \in 1..n : s = KeyAt(k, j)
  <2>1. s \in Key /\ s[1] = k[1] /\ s[3] = k[3]
    BY <1>2
  <2>2. s = <<s[1], s[2], s[3]>> /\ s[2] \in Variant
    BY <2>1 DEF Key
  <2>3. PICK j \in 1..n : s[2] = Variants[j]
    BY <1>3, <2>2 DEF Variant, ToSet
  <2> QED
    BY <2>1, <2>2, <2>3 DEF KeyAt
<1>5. PICK f : /\ Collected(f, k, sibs, n)
               /\ ClaimsOf(k, sibs) = [i \in DOMAIN f[n] |-> FreshClaim(f[n][i])]
  BY <1>3, ClaimsOfIs
<1>6. f[0] = <<k>>
  BY <1>3, <1>5 DEF Collected
<1>7. \A m \in 1..n : f[m] = IF KeyAt(k, m) \in sibs THEN Append(f[m - 1], KeyAt(k, m)) ELSE f[m - 1]
  <2> DEFINE Then(s, m) == IF KeyAt(k, m) \in sibs THEN Append(s, KeyAt(k, m)) ELSE s
  <2>1. f = [m \in 0..n |-> IF m = 0 THEN <<k>> ELSE Then(f[m - 1], m)]
    BY <1>5 DEF Collected
  <2>2. n \in Nat
    BY <1>3
  <2> HIDE DEF Then
  <2>3. \A m \in 1..n : f[m] = Then(f[m - 1], m)
    BY <2>1, <2>2
  <2> QED
    BY <2>3 DEF Then
<1>8. Ordered(f[0], k, sibs, 0)
  <2>1. f[0] \in Seq(Key) /\ Len(f[0]) = 1 /\ f[0][1] = k
    BY <1>6
  <2>2. \A i \in 1..Len(f[0]) : i = 1
    BY <2>1
  <2>3. \A i : i \notin 1..0
    OBVIOUS
  <2>4. \E i \in 1..Len(f[0]) : f[0][i] = k
    BY <2>1
  <2> QED
    BY <2>1, <2>2, <2>3, <2>4 DEF Ordered
<1>9. ASSUME NEW m \in 1..n, Ordered(f[m - 1], k, sibs, m - 1) PROVE Ordered(f[m], k, sibs, m)
  <2>1. PICK l : l = m - 1
    OBVIOUS
  <2>2. l \in Nat /\ l + 1 = m /\ l + 1 <= Len(Variants)
    BY <1>3, <2>1
  <2>3. PICK t : t = f[m]
    OBVIOUS
  <2>4. PICK s : s = f[l] /\ Ordered(s, k, sibs, l)
    BY <1>9, <2>1
  <2>5. t = IF KeyAt(k, l + 1) \in sibs THEN Append(s, KeyAt(k, l + 1)) ELSE s
    BY <1>7, <2>1, <2>2, <2>3, <2>4
  <2>6. Ordered(t, k, sibs, l + 1)
    BY <1>2, <2>2, <2>4, <2>5, OrderedGrows
  <2> QED
    BY <2>2, <2>3, <2>6
<1> DEFINE Bad == {m \in 1..n : ~Ordered(f[m], k, sibs, m)}
<1>10. ASSUME Bad # {} PROVE FALSE
  <2>1. PICK m \in Bad : \A y \in Bad : m <= y
    BY <1>3, <1>10, LeastOf
  <2>2. m \in 1..n /\ (m - 1 = 0 \/ m - 1 \in 1..n) /\ m - 1 \notin Bad
    BY <1>3, <2>1
  <2>3. Ordered(f[m - 1], k, sibs, m - 1)
    BY <1>8, <2>2
  <2> QED
    BY <1>9, <2>1, <2>2, <2>3
<1>11. Ordered(f[n], k, sibs, n)
  <2>1. n = 0 \/ n \in 1..n
    BY <1>3
  <2> QED
    BY <1>8, <1>10, <2>1
<1>12. PICK s : s = f[n]
  OBVIOUS
<1>13. /\ s \in Seq(Key) /\ Len(s) \in Nat /\ DOMAIN s = 1..Len(s)
       /\ \A i \in 1..Len(s) : s[i] \in Key /\ s[i] \in {k} \cup sibs
       /\ \A i, j \in 1..Len(s) : s[i] = s[j] => i = j
       /\ \A x \in {k} \cup sibs : \E i \in 1..Len(s) : s[i] = x
  <2>1. Ordered(s, k, sibs, n)
    BY <1>11, <1>12
  <2>2. s \in Seq(Key) /\ Len(s) \in Nat /\ DOMAIN s = 1..Len(s)
    BY <2>1 DEF Ordered
  <2>3. \A i \in 1..Len(s) : s[i] \in {k} \cup sibs
    BY <2>1 DEF Ordered
  <2>4. \A x \in {k} \cup sibs : \E i \in 1..Len(s) : s[i] = x
    BY <1>4, <2>1 DEF Ordered
  <2>5. \A i, j \in 1..Len(s) : s[i] = s[j] => i = j
    BY <2>1 DEF Ordered
  <2> QED
    BY <1>2, <2>2, <2>3, <2>4, <2>5
<1>14. PICK mine : mine = ClaimsOf(k, sibs)
  OBVIOUS
<1>15. mine = [i \in 1..Len(s) |-> FreshClaim(s[i])]
  BY <1>5, <1>12, <1>13, <1>14
<1>16. ASSUME NEW x \in Key PROVE FreshClaim(x) \in Claim /\ FreshClaim(x).key = x
  <2>1. claims[x] + 1 \in Nat /\ job[x].attempts + 1 \in Nat
    BY DEF Rows, Job
  <2> QED
    BY <2>1 DEF FreshClaim, Claim
<1>17. \A i \in 1..Len(s) : mine[i] \in Claim /\ mine[i] = FreshClaim(s[i]) /\ mine[i].key = s[i]
  BY <1>13, <1>15, <1>16
<1> HIDE DEF FreshClaim
<1>18. mine \in Seq(Claim) /\ Len(mine) = Len(s)
  BY <1>13, <1>15, <1>17
<1>19. ToSet(mine) = {mine[i] : i \in 1..Len(s)}
  BY <1>13, <1>15 DEF ToSet
<1>20. mine # <<>>
  <2>1. \E i \in 1..Len(s) : s[i] = k
    BY <1>13
  <2>2. Len(mine) # 0
    BY <1>13, <1>18, <2>1
  <2> QED
    BY <2>2
<1>21. \A i, j \in 1..Len(mine) : mine[i].key = mine[j].key => i = j
  BY <1>13, <1>17, <1>18
<1>22. \A c \in ToSet(mine) : c.key \in {k} \cup sibs /\ c = FreshClaim(c.key)
  BY <1>13, <1>17, <1>19
<1>23. \A x \in {k} \cup sibs : \E c \in ToSet(mine) : c.key = x
  BY <1>13, <1>17, <1>19
<1> QED
  BY <1>1, <1>14, <1>18, <1>20, <1>21, <1>22, <1>23

\* A worker claims the most urgent job and its siblings.
LEMMA ClaimJobsOK ==
  ASSUME DerivInv, NEW w \in Workers, ClaimJobs(w)
  PROVE  StepOK
<1>1. /\ World /\ Rows /\ Crew /\ OpOK /\ SweepOK /\ AuditOK
      /\ row \in [Key -> Row] /\ job \in [Key -> Job] /\ claims \in [Key -> 0..MaxClaims]
      /\ \A x \in Key : KeyOK(x)
      /\ worker \in [Workers -> WorkerRec] /\ MaxClaims \in Nat
  BY BudgetAssumption DEF DerivInv, Rows, Crew
<1>2. PICK k \in Leaders : \E taken, mine :
        /\ taken = {k} \cup Siblings(k) /\ mine = ClaimsOf(k, Siblings(k))
        /\ \A s \in taken : claims[s] < MaxClaims
        /\ Commit(ClaimEach(Tx(NoLedger), [s \in taken |-> claims[s] + 1]))
        /\ claims' = [s \in Key |-> IF s \in taken THEN claims[s] + 1 ELSE claims[s]]
        /\ worker' = [worker EXCEPT ![w] = [Idle EXCEPT
             !.pc = "claimed", !.open = mine, !.batch = Len(mine) > 1, !.bg = job[k].prio >= 2]]
  BY DEF ClaimJobs
<1>3. PICK taken, mine :
        /\ taken = {k} \cup Siblings(k) /\ mine = ClaimsOf(k, Siblings(k))
        /\ \A s \in taken : claims[s] < MaxClaims
        /\ Commit(ClaimEach(Tx(NoLedger), [s \in taken |-> claims[s] + 1]))
        /\ claims' = [s \in Key |-> IF s \in taken THEN claims[s] + 1 ELSE claims[s]]
        /\ worker' = [worker EXCEPT ![w] = [Idle EXCEPT
             !.pc = "claimed", !.open = mine, !.batch = Len(mine) > 1, !.bg = job[k].prio >= 2]]
  BY <1>2
<1>4. UNCHANGED <<disk, cat, file, generating, served, deferred, op, sweep, left, audit>>
      /\ worker[w].pc = "idle"
  BY DEF ClaimJobs
<1>5. taken \subseteq Key /\ (\A x \in taken : job[x].st = "queued") /\ k \in Key
  BY <1>2, <1>3 DEF Leaders, Siblings, Runnable
<1>6. /\ mine \in Seq(Claim) /\ mine # <<>>
      /\ \A i, j \in 1..Len(mine) : mine[i].key = mine[j].key => i = j
      /\ \A c \in ToSet(mine) : c.key \in taken /\ c = FreshClaim(c.key)
  BY <1>1, <1>3, <1>5, ClaimsOfFacts
<1>7. \A x \in taken : \E c \in ToSet(mine) : c.key = x
  BY <1>1, <1>3, <1>5, ClaimsOfFacts
<1>8. /\ row' = [x \in Key |-> IF x \in taken THEN [row[x] EXCEPT !.st = "running"] ELSE row[x]]
      /\ job' = [x \in Key |-> IF x \in taken THEN ClaimedJob(job[x], claims[x] + 1) ELSE job[x]]
  <2>1. PICK fresh : fresh = [s \in taken |-> claims[s] + 1]
    OBVIOUS
  <2>2. DOMAIN fresh = taken /\ \A x \in taken : fresh[x] = claims[x] + 1
    BY <2>1
  <2>3. PICK t : t = Tx(NoLedger)
    OBVIOUS
  <2>4. t = [row |-> t.row, job |-> t.job, lg |-> t.lg, out |-> t.out] /\ t.row = row /\ t.job = job
    BY <1>1, <2>3, TxFacts DEF Tables
  <2>5. row' = ClaimEach(t, fresh).row /\ job' = ClaimEach(t, fresh).job
    BY <1>3, <2>1, <2>3 DEF Commit
  <2>6. /\ ClaimEach(t, fresh).row =
             [x \in Key |-> IF x \in DOMAIN fresh THEN [t.row[x] EXCEPT !.st = "running"] ELSE t.row[x]]
        /\ ClaimEach(t, fresh).job =
             [x \in Key |-> IF x \in DOMAIN fresh THEN ClaimedJob(t.job[x], fresh[x]) ELSE t.job[x]]
    BY <2>4 DEF ClaimEach
  <2> QED
    BY <2>2, <2>4, <2>5, <2>6
<1>9. ASSUME NEW x \in taken
      PROVE  /\ row'[x] \in Row /\ row'[x].st = "running" /\ row'[x].path = 0
             /\ job'[x] \in Job /\ job'[x].st = "running" /\ job'[x].token = claims[x] + 1
             /\ job'[x].attempts = job[x].attempts + 1 /\ job'[x].attempts <= MaxAttempts
             /\ claims[x] \in Nat /\ claims[x] < MaxClaims /\ claims'[x] = claims[x] + 1
  <2>1. x \in Key /\ job[x] \in Job /\ row[x] \in Row /\ KeyOK(x) /\ job[x].st = "queued"
    BY <1>1, <1>5
  <2>2. claims[x] \in Nat /\ claims[x] < MaxClaims /\ claims'[x] = claims[x] + 1
    BY <1>1, <1>3, <2>1
  <2>3. PICK r : r = [row[x] EXCEPT !.st = "running"]
    OBVIOUS
  <2>4. r \in Row /\ r.st = "running" /\ r.path = row[x].path
    BY <2>1, <2>3, NewRows DEF RowStates
  <2>5. row[x].path = 0
    BY <2>1 DEF KeyOK, ActiveJob
  <2>6. PICK i : i = ClaimedJob(job[x], claims[x] + 1)
    OBVIOUS
  <2>7. i = [job[x] EXCEPT !.st = "running", !.attempts = job[x].attempts + 1, !.token = claims[x] + 1, !.rc = "none"]
    BY <2>6 DEF ClaimedJob
  <2>8. claims[x] + 1 \in Nat /\ job[x].attempts + 1 \in Nat
    BY <2>1, <2>2 DEF Job
  <2>9. i \in Job
    BY <2>1, <2>7, <2>8 DEF Job, JobStates, ResultCodes
  <2>10. i.st = "running" /\ i.token = claims[x] + 1 /\ i.attempts = job[x].attempts + 1
    BY <2>1, <2>7 DEF Job
  <2>11. job[x].attempts + 1 <= MaxAttempts
    <3>1. job[x].attempts \in Nat /\ job[x].attempts < MaxAttempts
      BY <2>1 DEF Job, KeyOK
    <3> QED
      BY <3>1, MaxIsNumber
  <2>12. row'[x] = r /\ job'[x] = i
    BY <1>8, <2>1, <2>3, <2>6
  <2> QED
    BY <2>2, <2>4, <2>5, <2>9, <2>10, <2>11, <2>12
<1>10. ASSUME NEW x \in Key, x \notin taken
       PROVE  row'[x] = row[x] /\ job'[x] = job[x] /\ claims'[x] = claims[x]
  BY <1>3, <1>8, <1>10
<1>11. row' \in [Key -> Row] /\ job' \in [Key -> Job] /\ claims' \in [Key -> 0..MaxClaims]
  <2>1. \A x \in Key : row'[x] \in Row /\ job'[x] \in Job
    BY <1>1, <1>9, <1>10
  <2>2. row' = [x \in Key |-> row'[x]] /\ job' = [x \in Key |-> job'[x]]
    BY <1>8
  <2>3. \A x \in Key : claims'[x] \in 0..MaxClaims
    BY <1>1, <1>9, <1>10
  <2>4. claims' = [x \in Key |-> claims'[x]]
    BY <1>3
  <2> QED
    BY <2>1, <2>2, <2>3, <2>4
<1>12. Rows'
  <2>1. ASSUME NEW x \in Key PROVE KeyOK(x)'
    <3>1. CASE x \in taken
      <4>1. job'[x].token \in 1..claims'[x]
        BY <1>9, <3>1
      <4> QED
        BY <1>9, <3>1, <4>1 DEF KeyOK
    <3>2. CASE x \notin taken
      BY <1>1, <1>10, <3>2 DEF KeyOK
    <3> QED
      BY <3>1, <3>2
  <2> QED
    BY <1>11, <2>1 DEF Rows
<1>13. PICK s : s = [Idle EXCEPT !.pc = "claimed", !.open = mine, !.batch = Len(mine) > 1, !.bg = job[k].prio >= 2]
  OBVIOUS
<1>14. worker' = [worker EXCEPT ![w] = s]
  BY <1>3, <1>13
<1>15. s.pc = "claimed" /\ s.open = mine /\ s.cur = <<>>
  BY <1>13 DEF Idle
<1>16. s \in WorkerRec
  <2>1. PICK p, q : p = (Len(mine) > 1) /\ q = (job[k].prio >= 2)
    OBVIOUS
  <2>2. p \in BOOLEAN /\ q \in BOOLEAN
    BY <2>1
  <2>3. s = [Idle EXCEPT !.pc = "claimed", !.open = mine, !.batch = p, !.bg = q]
    BY <1>13, <2>1
  <2> QED
    BY <1>6, <2>2, <2>3, IdleFacts DEF WorkerRec, WorkerStates
<1>17. Has(s) = ToSet(mine)
  <2>1. ToSet(<<>>) = {}
    BY DEF ToSet
  <2> QED
    BY <1>15, <2>1 DEF Has
<1>18. Shape(s)
  <2>1. Len(<<>>) = 0
    OBVIOUS
  <2> QED
    BY <1>6, <1>15, <2>1 DEF Shape
<1>19. /\ worker' \in [Workers -> WorkerRec] /\ worker'[w] = s
       /\ \A v \in Workers : v # w => worker'[v] = worker[v]
  BY <1>1, <1>14, <1>16
<1>20. ASSUME NEW c \in Has(s)
       PROVE  c.key \in taken /\ c.token = claims[c.key] + 1 /\ c.attempts = job[c.key].attempts + 1
  BY <1>6, <1>17 DEF FreshClaim
<1>21. ASSUME NEW v \in Workers, NEW c \in Has(worker[v])
       PROVE  c.key \in Key /\ c.token \in 1..claims[c.key] /\ claims[c.key] \in Nat
  <2>1. c \in Claim /\ c.token \in 1..claims[c.key]
    BY <1>1, HasClaims DEF Crew, Drawn
  <2>2. c.key \in Key
    BY <2>1 DEF Claim
  <2> QED
    BY <1>1, <2>1, <2>2
<1>22. Crew'
  <2>1. \A v \in Workers : Shape(worker'[v])
    BY <1>1, <1>18, <1>19 DEF Crew
  <2>2. Drawn(s)'
    <3>1. ASSUME NEW c \in Has(s)
          PROVE  c.token \in 1..claims'[c.key] /\ c.attempts = job'[c.key].attempts
      BY <1>9, <1>20
    <3> QED
      BY <3>1 DEF Drawn
  <2>3. ASSUME NEW v \in Workers, v # w PROVE Drawn(worker[v])'
    <3>1. ASSUME NEW c \in Has(worker[v])
          PROVE  c.token \in 1..claims'[c.key] /\ (Owns(c)' => c.attempts = job'[c.key].attempts)
      <4>1. c.key \in Key /\ c.token \in 1..claims[c.key] /\ claims[c.key] \in Nat
        BY <1>21
      <4>2. Owns(c) => c.attempts = job[c.key].attempts
        BY <1>1 DEF Crew, Drawn
      <4>3. CASE c.key \in taken
        <5>1. claims'[c.key] = claims[c.key] + 1 /\ job'[c.key].token = claims[c.key] + 1
          BY <1>9, <4>3
        <5>2. c.token \in 1..claims'[c.key] /\ c.token # job'[c.key].token
          BY <4>1, <5>1
        <5> QED
          BY <5>2 DEF Owns
      <4>4. CASE c.key \notin taken
        <5>1. job'[c.key] = job[c.key] /\ claims'[c.key] = claims[c.key]
          BY <1>10, <4>1, <4>4
        <5> QED
          BY <4>1, <4>2, <5>1 DEF Owns
      <4> QED
        BY <4>3, <4>4
    <3>2. worker'[v] = worker[v]
      BY <1>19, <2>3
    <3> QED
      BY <3>1, <3>2 DEF Drawn, Owns
  <2>4. ASSUME NEW v \in Workers, NEW c \in Has(s), NEW d \in Has(worker[v]), c.key = d.key
        PROVE  c.token # d.token
    BY <1>20, <1>21, <2>4
  <2>5. ASSUME NEW u \in Workers, NEW v \in Workers, u # v PROVE Differ(worker'[u], worker'[v])
    <3>1. CASE u = w
      BY <1>19, <2>4, <2>5, <3>1 DEF Differ
    <3>2. CASE v = w
      BY <1>19, <2>4, <2>5, <3>2 DEF Differ
    <3>3. CASE u # w /\ v # w
      BY <1>1, <1>19, <2>5, <3>3 DEF Crew
    <3> QED
      BY <3>1, <3>2, <3>3
  <2>6. ASSUME NEW v \in Workers PROVE Drawn(worker[v])'
    <3>1. CASE v = w
      <4>1. worker'[v] = s
        BY <1>19, <3>1
      <4> QED
        BY <2>2, <4>1 DEF Drawn, Owns
    <3>2. CASE v # w
      <4>1. worker'[v] = worker[v]
        BY <1>19, <3>2
      <4> QED
        BY <2>3, <3>2, <4>1 DEF Drawn, Owns
    <3> QED
      BY <3>1, <3>2
  <2> QED
    BY <1>19, <2>1, <2>5, <2>6 DEF Crew
<1>23. OpOK'
  <2>1. PICK o : o = op'
    OBVIOUS
  <2>2. NewOp(o)
    BY <1>1, <1>4, <2>1, OpStays
  <2>3. EvictionStays
    BY <1>9, <1>10 DEF EvictionStays
  <2> QED
    BY <1>1, <2>1, <2>2, <2>3, OpMoves
<1>24. SweepOK'
  <2>1. ASSUME NEW x \in Key, x \in DOMAIN sweep.todo, sweep.kind = "recover"
        PROVE  /\ sweep.todo[x].token \in 0..claims'[x]
               /\ /\ sweep.todo[x].end[1] = "queued"
                  /\ job'[x].st = "running" /\ job'[x].token = sweep.todo[x].token
                  => job'[x].attempts < MaxAttempts
    <3>1. sweep.todo[x].token \in 0..claims[x]
      BY <1>1, <2>1 DEF SweepOK
    <3>2. CASE x \in taken
      <4>1. claims[x] \in Nat /\ claims'[x] = claims[x] + 1 /\ job'[x].token = claims[x] + 1
        BY <1>9, <3>2
      <4> QED
        BY <3>1, <4>1
    <3>3. CASE x \notin taken
      <4>1. job'[x] = job[x] /\ claims'[x] = claims[x]
        BY <1>10, <3>3
      <4> QED
        BY <1>1, <2>1, <3>1, <4>1 DEF SweepOK
    <3> QED
      BY <3>2, <3>3
  <2> QED
    BY <1>1, <1>4, <2>1 DEF SweepOK
<1>25. AuditOK'
  <2>1. \A x \in Key : job[x].st # "none" => job'[x].st # "none"
    BY <1>9, <1>10
  <2> QED
    BY <1>1, <1>4, <2>1 DEF AuditOK
<1>26. World'
  BY <1>1, <1>4, WorldStays
<1>27. ASSUME NEW x \in Key PROVE StillMoved(x)
  <2>1. CASE x \in taken
    BY <1>9, <2>1 DEF StillMoved, ActiveJob
  <2>2. CASE x \notin taken
    BY <1>10, <2>2 DEF StillMoved
  <2> QED
    BY <2>1, <2>2
<1>28. ASSUME NEW x \in Key PROVE Queue!Move(x)
  <2>1. HeldTokens(x) = Tokens(worker, x) /\ HeldTokens(x)' = Tokens(worker', x)
    BY <1>1, <1>19, HeldNow
  <2>2. Has(worker[w]) = {}
    <3>1. worker[w].open = <<>> /\ worker[w].cur = <<>>
      BY <1>1, <1>4 DEF Crew, Shape
    <3> QED
      BY <3>1 DEF Has, ToSet
  <2>3. CASE x \in taken
    <3>1. PICK t : t = claims[x] + 1
      OBVIOUS
    <3>2. t \in 1..MaxClaims /\ claims[x] \in Nat
      BY <1>1, <1>9, <2>3, <3>1
    <3>3. t \notin Tokens(worker, x)
      <4>1. ASSUME NEW v \in Workers, NEW c \in Has(worker[v]), c.key = x PROVE c.token # t
        BY <1>21, <3>1, <3>2, <4>1
      <4> QED
        BY <4>1, TokenIn
    <3>4. ASSUME NEW u PROVE u \in Tokens(worker', x) <=> u \in Tokens(worker, x) \cup {t}
      <4>1. ASSUME NEW v \in Workers, NEW c \in Has(worker'[v]), c.key = x, c.token = u
            PROVE  u \in Tokens(worker, x) \cup {t}
        <5>1. CASE v = w
          BY <1>19, <1>20, <3>1, <4>1, <5>1
        <5>2. CASE v # w
          BY <1>19, <4>1, <5>2, TokenIn
        <5> QED
          BY <5>1, <5>2
      <4>2. ASSUME NEW v \in Workers, NEW c \in Has(worker[v]), c.key = x, c.token = u
            PROVE  u \in Tokens(worker', x)
        <5>1. v # w
          BY <2>2, <4>2
        <5> QED
          BY <1>19, <4>2, <5>1, TokenIn
      <4>3. ASSUME u = t PROVE u \in Tokens(worker', x)
        <5>1. PICK c \in Has(s) : c.key = x
          BY <1>7, <1>17, <2>3
        <5>2. c.token = t
          BY <1>20, <3>1, <5>1
        <5> QED
          BY <1>19, <4>3, <5>1, <5>2, TokenIn
      <4> QED
        BY <4>1, <4>2, <4>3, TokenIn
    <3>5. HeldTokens(x)' = HeldTokens(x) \cup {t}
      BY <2>1, <3>4
    <3>6. Phase(job[x]) = "waiting" /\ Phase(job'[x]) = "leased" /\ job'[x].token = t
      BY <1>5, <1>9, <2>3, <3>1 DEF Phase
    <3>7. Offered(x)' = "none"
      BY <1>9, <2>3 DEF Offered, OfferOf
    <3> QED
      BY <2>1, <3>2, <3>3, <3>5, <3>6, <3>7 DEF Queue!Move, Queue!Take, Queue!Offer, Offered
  <2>4. CASE x \notin taken
    <3>1. row'[x] = row[x] /\ job'[x] = job[x]
      BY <1>10, <2>4
    <3>2. HeldTokens(x)' \subseteq HeldTokens(x)
      <4>1. ASSUME NEW u, NEW v \in Workers, NEW c \in Has(worker'[v]), c.key = x, c.token = u
            PROVE  u \in Tokens(worker, x)
        <5>1. v # w
          BY <1>19, <1>20, <2>4, <4>1
        <5> QED
          BY <1>19, <4>1, <5>1, TokenIn
      <4> QED
        BY <2>1, <4>1, TokenIn
    <3>3. Phase(job'[x]) = Phase(job[x]) /\ job'[x].token = job[x].token
      BY <3>1
    <3>4. OfferStep(x)
      BY <1>1, <1>4, <3>1, KeyNothing, RowStepOffers
    <3> QED
      BY <3>2, <3>3, <3>4, LetsGo
  <2> QED
    BY <2>3, <2>4
<1>29. NamesKept
  BY <1>9, <1>10 DEF NamesKept
<1> QED
  BY <1>12, <1>22, <1>23, <1>24, <1>25, <1>26, <1>27, <1>28, <1>29 DEF StepOK, DerivInv, Queue!Next

-----------------------------------------------------------------------------
(* The theorems.                                                           *)

\* The invariant holds when the process starts for the first time.
LEMMA DerivInitially == DInit => DerivInv
<1> SUFFICES ASSUME DInit PROVE DerivInv
  OBVIOUS
<1>1. World
  <2>1. 1 \in 0..MaxIdent /\ 1 \in Ident /\ 0 \in 0..MaxIdent
    BY DerivativeAssumption DEF Ident
  <2>2. disk \in [Assets -> 0..MaxIdent] /\ file \in [Key -> 0..MaxIdent]
    BY <2>1 DEF DInit
  <2>3. cat \in [Assets -> [ident : Ident, active : BOOLEAN]]
    BY <2>1 DEF DInit
  <2>4. left \in [DOMAIN Budget -> Nat]
    BY BudgetAssumption DEF DInit
  <2> QED
    BY <2>2, <2>3, <2>4 DEF World, DInit
<1>2. ASSUME NEW k \in Key
      PROVE  /\ row[k] \in Row /\ row[k].st \in {"absent", "queued"} /\ row[k].path = 0
             /\ job[k] = NoJob /\ claims[k] = 0
  <2>1. row[k] = IF <<k[1], k[2]>> \in Orphans /\ k[3] = 1 THEN [NoRow EXCEPT !.st = "queued"] ELSE NoRow
    BY DEF DInit
  <2>2. [NoRow EXCEPT !.st = "queued"] = [st |-> "queued", path |-> 0]
    BY DEF NoRow
  <2>3. job[k] = NoJob /\ claims[k] = 0
    BY DEF DInit
  <2> QED
    BY <2>1, <2>2, <2>3, NewRows, NoJobFacts DEF RowStates, NoRow
<1>3. Rows
  <2>1. row \in [Key -> Row] /\ job \in [Key -> Job] /\ claims \in [Key -> 0..MaxClaims]
    <3>1. row = [k \in Key |-> row[k]] /\ job = [k \in Key |-> job[k]] /\ claims = [k \in Key |-> claims[k]]
      BY DEF DInit
    <3>2. 0 \in 0..MaxClaims
      BY BudgetAssumption
    <3> QED
      BY <1>2, <3>1, <3>2, NoJobFacts
  <2>2. \A k \in Key : KeyOK(k)
    BY <1>2, NoJobFacts, MaxIsNumber DEF KeyOK
  <2> QED
    BY <2>1, <2>2 DEF Rows
<1>4. worker \in [Workers -> WorkerRec] /\ \A w \in Workers : worker[w] = Idle
  BY IdleFacts DEF DInit
<1>5. Crew
  <2>1. \A w \in Workers : Shape(worker[w]) /\ Has(worker[w]) = {}
    BY <1>4, IdleFacts
  <2> QED
    BY <1>4, <2>1 DEF Crew, Drawn, Differ
<1>6. OpOK
  <2>1. op = [kind |-> "none", stage |-> "none", keys |-> <<>>, cands |-> <<>>, drop |-> {},
              sel |-> {}, gone |-> {}, prio |-> 3, o |-> Interactive, by |-> "none"]
    BY DEF DInit, NoOp
  <2>2. Len(<<>>) = 0
    OBVIOUS
  <2> QED
    BY <2>1, <2>2 DEF OpOK
<1>7. SweepOK
  <2>1. sweep.kind = "none" /\ DOMAIN sweep.todo = {}
    BY DEF DInit, NoSweep
  <2> QED
    BY <2>1 DEF SweepOK
<1>8. AuditOK
  <2>1. audit = [stage |-> "none", ready |-> <<>>, done |-> <<>>, misled |-> {}, torn |-> {}]
    BY DEF DInit, NoAudit
  <2>2. DOMAIN <<>> = {}
    OBVIOUS
  <2> QED
    BY <2>1, <2>2 DEF AuditOK
<1> QED
  BY <1>1, <1>3, <1>5, <1>6, <1>7, <1>8 DEF DerivInv

\* The queue is empty then.
LEMMA QueueInitially == DInit => Queue!Init
<1> SUFFICES ASSUME DInit PROVE Queue!Init
  OBVIOUS
<1>1. \A k \in Key : job[k] = NoJob
  BY DEF DInit
<1>2. \A k \in Key : Phase(job[k]) = "none" /\ job[k].token = 0
  BY <1>1, NoJobFacts DEF Phase
<1>3. \A k \in Key : HeldTokens(k) = {}
  <2>1. worker \in [Workers -> WorkerRec] /\ \A w \in Workers : worker[w] = Idle
    BY IdleFacts DEF DInit
  <2>2. \A k : HeldTokens(k) = Tokens(worker, k)
    BY <2>1, HeldAre DEF HeldTokens
  <2> QED
    BY <2>1, <2>2, IdleHoldsNothing
<1>4. \A k \in Key : OfferOf(row[k]) = "none"
  <2>1. ASSUME NEW k \in Key PROVE row[k].st \in {"absent", "queued"}
    BY DEF DInit, NoRow
  <2> QED
    BY <2>1 DEF OfferOf
<1>5. \A k \in Key : (IF k \in audit.misled THEN "none" ELSE OfferOf(row[k])) = "none"
  BY <1>4
<1> QED
  BY <1>2, <1>3, <1>5 DEF Queue!Init

\* A step of a worker.
LEMMA WorkOK ==
  ASSUME DerivInv, NEW w \in Workers, Work(w) \/ RenderFails(w) \/ FailRefused(w)
  PROVE  StepOK
BY ClaimJobsOK, ValidateOK, CachePathsOK, RenderKeysOK, DecodeOK, RenderOK, RevalidateOK, CompleteOK,
   FailOK, ContinueOK, ReleaseClaimsOK, CloseOK, EnforceQuotaOK, RenderFailsOK, FailRefusedOK DEF Work

\* A step of a caller.
LEMMA CallersOK ==
  ASSUME DerivInv, Hold \/ Call
  PROVE  StepOK
<1>1. CASE Hold
  BY <1>1, SelectAndEvictOK, UnlinkEvictedOK, FinalizeAndVerifyOK, ScheduleCoalesceOK, ReconcileBatchOK,
     ReconcilePendingOK, DiscardOneOK, ClearFilesOK DEF Hold
<1>2. CASE Call
  BY <1>2, ScheduleOK, ReconcileOK, RetireSupersededOK, RepairOK, ClearRowsOK, AuditReadOK DEF Call
<1> QED
  BY <1>1, <1>2

\* Every step.
LEMMA EveryStepOK ==
  ASSUME DerivInv, DNext \/ Restart
  PROVE  StepOK
<1>1. CASE \E w \in Workers : Work(w) \/ RenderFails(w) \/ FailRefused(w)
  BY <1>1, WorkOK
<1>2. CASE Hold \/ Call
  BY <1>2, CallersOK
<1>3. CASE Supervise
  BY <1>3, SweepReadOK, SweepWriteOK, RecoverReadOK, RecoverWriteOK, AuditReadyOK, AuditDoneOK DEF Supervise
<1>4. CASE SourceChange \/ CatalogScan \/ Restart
  BY <1>4, SourceChangeOK, CatalogScanOK, RestartOK
<1> QED
  BY <1>1, <1>2, <1>3, <1>4 DEF DNext

\* Nothing happens at all.
LEMMA Stutter ==
  ASSUME DerivInv, UNCHANGED dvars
  PROVE  DerivInv' /\ UNCHANGED Queue!lqvars
<1>1. UNCHANGED <<disk, cat, row, job, file, claims, worker, generating, served, deferred, op, sweep, audit, left>>
  BY DEF dvars
<1>2. DerivInv'
  <2>1. World' /\ OpOK' /\ SweepOK' /\ AuditOK'
    BY <1>1 DEF DerivInv, World, OpOK, SweepOK, AuditOK
  <2>2. Rows'
    BY <1>1 DEF DerivInv, Rows, KeyOK
  <2>3. Crew'
    BY <1>1 DEF DerivInv, Crew, Drawn, Owns
  <2> QED
    BY <2>1, <2>2, <2>3 DEF DerivInv
<1>3. \A k : HeldTokens(k)' = HeldTokens(k)
  BY <1>1 DEF HeldTokens
<1>4. UNCHANGED Queue!lqvars
  BY <1>1, <1>3 DEF Queue!lqvars
<1> QED
  BY <1>2, <1>4

\* The invariant holds always.
LEMMA DerivAlways == DSpec => []DerivInv
<1>1. DerivInv /\ [DNext \/ Restart]_dvars => DerivInv'
  BY EveryStepOK, Stutter DEF StepOK
<1> QED
  BY <1>1, DerivInitially, PTL DEF DSpec

\* Every variable has its type and no job is tried more often than _MAX_ATTEMPTS,
\* through every claim, failure, release, recovery and restart (_claim_job,
\* _handle_failure, _release_claims, _recover_running_jobs).
THEOREM DerivativeTypeCorrect == DSpec => []DTypeOK
<1>1. DerivInv => DTypeOK
  <2> SUFFICES ASSUME DerivInv PROVE DTypeOK
    OBVIOUS
  <2>1. World /\ Rows /\ Crew /\ SweepOK /\ AuditOK
    BY DEF DerivInv
  <2>2. \A w \in Workers : worker[w].pc \in WorkerStates /\ worker[w].open \in Seq(Claim)
    BY <2>1 DEF Crew, WorkerRec
  <2>3. \A k \in Key : job[k].attempts <= MaxAttempts
    BY <2>1 DEF Rows, KeyOK
  <2> QED
    BY <2>1, <2>2, <2>3 DEF DTypeOK, World, Rows, SweepOK, AuditOK
<1> QED
  BY <1>1, DerivAlways, PTL

\* The scheduler implements the leased queue: only the holder of the current claim
\* token turns its job into a ready row (_complete_claim, _handle_failure), whoever
\* recovers, sweeps, supersedes or restarts meanwhile.
THEOREM DerivativesImplementQueue == DSpec => LeasesFence
<1>1. DerivInv /\ [DNext \/ Restart]_dvars => [Queue!Next]_(Queue!lqvars)
  BY EveryStepOK, Stutter DEF StepOK
<1> QED
  BY <1>1, QueueInitially, DerivAlways, PTL DEF DSpec, LeasesFence, Queue!Spec

\* No step leaves a queued or running row without a job (_coalesce_derivative_job,
\* the two sweeps, the integrity pass).
THEOREM NoWorkIsLost == DSpec => NoLostWork
<1> DEFINE Moved == \A k \in Key :
       row'[k].st \in {"queued", "running"} /\ ~ActiveJob(job'[k])
       => row[k].st \in {"queued", "running"} /\ ~ActiveJob(job[k])
<1>1. DerivInv /\ [DNext \/ Restart]_dvars => [Moved]_dvars
  BY EveryStepOK DEF StepOK, StillMoved
<1> QED
  BY <1>1, DerivAlways, PTL DEF DSpec, NoLostWork

-----------------------------------------------------------------------------
(* The running account of a batch.                                         *)

\* There are finitely many derivatives.
LEMMA KeysAreFinite == IsFiniteSet(Key)
<1>1. IsFiniteSet(Assets) /\ MaxIdent \in Nat /\ Len(Variants) \in Nat
  BY DerivativeAssumption
<1>2. IsFiniteSet(Variant)
  <2>1. Variants \in [1..Len(Variants) -> Variant]
    BY DerivativeAssumption DEF Variant, ToSet
  <2>2. Variants \in Surjection(1..Len(Variants), Variant)
    BY <2>1, DerivativeAssumption DEF Variant, ToSet, Surjection
  <2>3. IsFiniteSet(1..Len(Variants))
    BY <1>1, FS_Interval
  <2> QED
    BY <2>2, <2>3, FS_Surjection
<1>3. IsFiniteSet(Ident)
  BY <1>1, FS_Interval DEF Ident
<1> DEFINE P == (Assets \X Variant) \X Ident
           f == [p \in P |-> <<p[1][1], p[1][2], p[2]>>]
<1>4. IsFiniteSet(P)
  BY <1>1, <1>2, <1>3, FS_Product
<1>5. f \in [P -> Key]
  BY DEF Key
<1>6. ASSUME NEW k \in Key PROVE \E p \in P : f[p] = k
  <2>1. <<<<k[1], k[2]>>, k[3]>> \in P /\ k = <<k[1], k[2], k[3]>>
    BY DEF Key
  <2> QED
    BY <2>1
<1> HIDE DEF P, f
<1>7. f \in Surjection(P, Key)
  BY <1>5, <1>6 DEF Surjection
<1> QED
  BY <1>4, <1>7, FS_Surjection

\* Two sets of derivatives that differ in k at most have nearly the same size.
LEMMA CountOne ==
  ASSUME NEW S, NEW T, S \subseteq Key, T \subseteq Key, NEW k, S \ {k} = T \ {k}
  PROVE  /\ Cardinality(S) \in Nat /\ Cardinality(T) \in Nat
         /\ k \in S /\ k \in T => Cardinality(T) = Cardinality(S)
         /\ k \notin S /\ k \notin T => Cardinality(T) = Cardinality(S)
         /\ k \in S /\ k \notin T => Cardinality(T) = Cardinality(S) - 1
         /\ k \notin S /\ k \in T => Cardinality(T) = Cardinality(S) + 1
<1>1. IsFiniteSet(S) /\ IsFiniteSet(T)
  BY KeysAreFinite, FS_Subset
<1>2. Cardinality(S) \in Nat /\ Cardinality(T) \in Nat
  BY <1>1, FS_CardinalityType
<1>3. Cardinality(S \ {k}) = IF k \in S THEN Cardinality(S) - 1 ELSE Cardinality(S)
  BY <1>1, FS_RemoveElement
<1>4. Cardinality(T \ {k}) = IF k \in T THEN Cardinality(T) - 1 ELSE Cardinality(T)
  BY <1>1, FS_RemoveElement
<1> QED
  BY <1>2, <1>3, <1>4

Ready(rs) == {k \in Key : rs[k].st = "ready"}
Queued(rs, js) == {k \in Key : ActiveJob(js[k]) /\ rs[k].st # "ready"}

\* What the aggregates are after a change of one derivative.
LEMMA CountsFollow ==
  ASSUME NEW rs, NEW js, NEW rt, NEW jt, NEW k \in Key,
         \A x \in Key : x # k => rt[x] = rs[x] /\ jt[x] = js[x]
  PROVE  /\ ReadyUsed(rs) \in Nat /\ ActiveJobs(rs, js) \in Nat
         /\ ReadyUsed(rt) = ReadyUsed(rs) + (IF rt[k].st = "ready" THEN 1 ELSE 0)
                                          - (IF rs[k].st = "ready" THEN 1 ELSE 0)
         /\ ActiveJobs(rt, jt) = ActiveJobs(rs, js)
              + (IF ActiveJob(jt[k]) /\ rt[k].st # "ready" THEN 1 ELSE 0)
              - (IF ActiveJob(js[k]) /\ rs[k].st # "ready" THEN 1 ELSE 0)
<1>1. /\ Ready(rs) \subseteq Key /\ Ready(rt) \subseteq Key
      /\ Queued(rs, js) \subseteq Key /\ Queued(rt, jt) \subseteq Key
  BY DEF Ready, Queued
<1>2. Ready(rs) \ {k} = Ready(rt) \ {k}
  BY DEF Ready
<1>3. Queued(rs, js) \ {k} = Queued(rt, jt) \ {k}
  BY DEF Queued
<1>4. /\ k \in Ready(rs) <=> rs[k].st = "ready"
      /\ k \in Ready(rt) <=> rt[k].st = "ready"
      /\ k \in Queued(rs, js) <=> ActiveJob(js[k]) /\ rs[k].st # "ready"
      /\ k \in Queued(rt, jt) <=> ActiveJob(jt[k]) /\ rt[k].st # "ready"
  BY DEF Ready, Queued
<1>5. /\ ReadyUsed(rs) = Cardinality(Ready(rs)) /\ ReadyUsed(rt) = Cardinality(Ready(rt))
      /\ ActiveJobs(rs, js) = Cardinality(Queued(rs, js)) /\ ActiveJobs(rt, jt) = Cardinality(Queued(rt, jt))
  BY DEF ReadyUsed, ActiveJobs, Ready, Queued
<1>6. /\ Cardinality(Ready(rs)) \in Nat /\ Cardinality(Ready(rt)) \in Nat
      /\ k \in Ready(rs) /\ k \in Ready(rt) => Cardinality(Ready(rt)) = Cardinality(Ready(rs))
      /\ k \notin Ready(rs) /\ k \notin Ready(rt) => Cardinality(Ready(rt)) = Cardinality(Ready(rs))
      /\ k \in Ready(rs) /\ k \notin Ready(rt) => Cardinality(Ready(rt)) = Cardinality(Ready(rs)) - 1
      /\ k \notin Ready(rs) /\ k \in Ready(rt) => Cardinality(Ready(rt)) = Cardinality(Ready(rs)) + 1
  BY <1>1, <1>2, CountOne
<1>7. LET q == Cardinality(Queued(rs, js))
          p == Cardinality(Queued(rt, jt))
          i == k \in Queued(rs, js)
          h == k \in Queued(rt, jt)
      IN q \in Nat /\ p \in Nat /\ (i /\ h => p = q) /\ (~i /\ ~h => p = q)
         /\ (i /\ ~h => p = q - 1) /\ (~i /\ h => p = q + 1)
  BY <1>1, <1>3, CountOne
<1> QED
  BY <1>4, <1>5, <1>6, <1>7

\* A ledger in use: once loaded it has the aggregates of the tables.
Account(t) ==
  /\ t.lg = [on |-> TRUE, loaded |-> t.lg.loaded, ready |-> t.lg.ready, active |-> t.lg.active]
  /\ t.lg.loaded \in BOOLEAN
  /\ t.lg.loaded => t.lg.ready = ReadyUsed(t.row) /\ t.lg.active = ActiveJobs(t.row, t.job)

\* Transaction t with a ledger and transaction u without one have the same tables.
Agree(t, u) ==
  /\ Tables(t) /\ Tables(u) /\ Account(t) /\ u.lg = NoLedger
  /\ t.row = u.row /\ t.job = u.job

\* Then they come to the same verdict.
LEMMA SameVerdict ==
  ASSUME NEW t, NEW u, Agree(t, u), NEW k, NEW o
  PROVE  CoalesceVerdict(t, k, o) = CoalesceVerdict(u, k, o)
<1>1. Usage(t, 1) = Usage(u, 1)
  <2>1. ~u.lg.on /\ t.lg.on
    BY DEF Agree, Account, NoLedger
  <2>2. Loaded(t).lg.ready = ReadyUsed(t.row) /\ Loaded(t).lg.active = ActiveJobs(t.row, t.job)
    BY <2>1 DEF Agree, Account, Loaded, Tables
  <2> QED
    BY <2>1, <2>2 DEF Usage, Agree
<1>2. Fits(t, 1) = Fits(u, 1)
  BY <1>1 DEF Fits
<1> QED
  BY <1>2 DEF CoalesceVerdict, Agree

\* Loading the ledger keeps them so.
LEMMA LoadedAgrees ==
  ASSUME NEW t, NEW u, Agree(t, u)
  PROVE  /\ Agree(Loaded(t), u) /\ Loaded(u) = u /\ Loaded(t).lg.loaded
         /\ Loaded(t).row = t.row /\ Loaded(t).job = t.job
<1>1. Loaded(u) = u
  BY DEF Agree, NoLedger, Loaded
<1>2. t.lg.on
  BY DEF Agree, Account
<1>3. CASE t.lg.loaded
  BY <1>1, <1>3 DEF Agree, Account, Loaded
<1>4. CASE ~t.lg.loaded
  <2>1. Loaded(t) = [row |-> t.row, job |-> t.job, out |-> t.out,
                     lg |-> [on |-> TRUE, loaded |-> TRUE, ready |-> ReadyUsed(t.row),
                             active |-> ActiveJobs(t.row, t.job)]]
    BY <1>2, <1>4 DEF Agree, Tables, Loaded
  <2>2. PICK l : l = Loaded(t)
    OBVIOUS
  <2>3. /\ l = [row |-> l.row, job |-> l.job, lg |-> l.lg, out |-> l.out]
        /\ l.row = t.row /\ l.job = t.job
        /\ l.lg = [on |-> TRUE, loaded |-> TRUE, ready |-> ReadyUsed(t.row), active |-> ActiveJobs(t.row, t.job)]
    BY <2>1, <2>2
  <2>4. Tables(l)
    BY <2>3 DEF Agree, Tables
  <2>5. Account(l) /\ l.lg.loaded
    BY <2>3 DEF Account
  <2> QED
    BY <1>1, <2>2, <2>3, <2>4, <2>5 DEF Agree
<1> QED
  BY <1>3, <1>4 DEF Agree, Account
\* An account whose figures are numbers once it is loaded.
Figures(lg) ==
  /\ lg = [on |-> TRUE, loaded |-> lg.loaded, ready |-> lg.ready, active |-> lg.active]
  /\ lg.loaded \in BOOLEAN
  /\ lg.loaded => lg.ready \in Nat /\ lg.active \in Nat

\* Account m is lg with r more rows and a more jobs, if it is loaded.
Moved(lg, m, r, a) ==
  /\ m = [on |-> TRUE, loaded |-> lg.loaded, ready |-> m.ready, active |-> m.active]
  /\ lg.loaded => m.ready = lg.ready + r /\ m.active = lg.active + a

\* ready_row_left, ready_row_restored and job_queued move it so.
LEMMA LedgerFacts ==
  /\ \A n : LedgerLeft(NoLedger, n) = NoLedger
  /\ \A n : LedgerRestored(NoLedger, n) = NoLedger
  /\ LedgerQueued(NoLedger) = NoLedger
  /\ \A lg : Figures(lg) =>
       /\ Moved(lg, lg, 0, 0)
       /\ \A n \in Nat : /\ Moved(lg, LedgerLeft(lg, n), 0 - n, 0)
                         /\ Moved(lg, LedgerRestored(lg, n), 1, 0 - n)
                         /\ Moved(lg, LedgerQueued(LedgerLeft(lg, n)), 0 - n, 1)
<1>1. ASSUME NEW lg, Figures(lg), NEW n \in Nat
      PROVE  /\ Moved(lg, lg, 0, 0)
             /\ Moved(lg, LedgerLeft(lg, n), 0 - n, 0)
             /\ Moved(lg, LedgerRestored(lg, n), 1, 0 - n)
             /\ Moved(lg, LedgerQueued(LedgerLeft(lg, n)), 0 - n, 1)
  <2>1. CASE lg.loaded
    <3> DEFINE Of(x, y) == [on |-> TRUE, loaded |-> TRUE, ready |-> x, active |-> y]
    <3>1. PICK x \in Nat, y \in Nat : lg = Of(x, y)
      BY <1>1, <2>1 DEF Figures
    <3>2. \A z, q : LedgerLeft(Of(z, q), n) = Of(z - n, q)
      BY DEF LedgerLeft
    <3>3. \A z, q : LedgerRestored(Of(z, q), n) = Of(z + 1, q - n)
      BY DEF LedgerRestored
    <3>4. \A z, q : LedgerQueued(Of(z, q)) = Of(z, q + 1)
      BY DEF LedgerQueued
    <3>5. /\ Moved(Of(x, y), Of(x, y), 0, 0) /\ Moved(Of(x, y), Of(x - n, y), 0 - n, 0)
          /\ Moved(Of(x, y), Of(x + 1, y - n), 1, 0 - n) /\ Moved(Of(x, y), Of(x - n, y + 1), 0 - n, 1)
      BY DEF Moved
    <3> HIDE DEF Of
    <3>6. /\ LedgerLeft(lg, n) = Of(x - n, y) /\ LedgerRestored(lg, n) = Of(x + 1, y - n)
          /\ LedgerQueued(LedgerLeft(lg, n)) = Of(x - n, y + 1)
      BY <3>1, <3>2, <3>3, <3>4
    <3> QED
      BY <3>1, <3>5, <3>6
  <2>2. CASE ~lg.loaded
    BY <1>1, <2>2 DEF Figures, Moved, LedgerLeft, LedgerRestored, LedgerQueued
  <2> QED
    BY <2>1, <2>2
<1>2. 0 \in Nat
  OBVIOUS
<1> QED
  BY <1>1, <1>2 DEF LedgerLeft, LedgerRestored, LedgerQueued, NoLedger

\* Two transactions go on agreeing when they write the same row and job of k and the
\* account follows.
LEMMA AgreeOn ==
  ASSUME NEW t, NEW u, Agree(t, u), NEW k \in Key, NEW r \in Row, NEW j \in Job,
         NEW c, NEW d, Writes(t, c, k, r, j), Writes(u, d, k, r, j), d.lg = NoLedger,
         NEW dr \in Int, NEW da \in Int, Moved(t.lg, c.lg, dr, da),
         dr = (IF r.st = "ready" THEN 1 ELSE 0) - (IF t.row[k].st = "ready" THEN 1 ELSE 0),
         da = (IF ActiveJob(j) /\ r.st # "ready" THEN 1 ELSE 0)
              - (IF ActiveJob(t.job[k]) /\ t.row[k].st # "ready" THEN 1 ELSE 0)
  PROVE  Agree(c, d)
<1>1. Changed(t, c, k) /\ c.row[k] = r /\ c.job[k] = j
  BY ChangeBoth DEF Agree
<1>2. Changed(u, d, k)
  BY ChangeBoth DEF Agree
<1>3. c.row = d.row /\ c.job = d.job
  BY DEF Writes, Agree
<1>4. /\ ReadyUsed(c.row) = ReadyUsed(t.row) + dr
      /\ ActiveJobs(c.row, c.job) = ActiveJobs(t.row, t.job) + da
  <2>1. PICK rs, js, rt, jt : rs = t.row /\ js = t.job /\ rt = c.row /\ jt = c.job
    OBVIOUS
  <2>2. \A x \in Key : x # k => rt[x] = rs[x] /\ jt[x] = js[x]
    BY <1>1, <2>1 DEF Changed
  <2>3. rt[k] = r /\ jt[k] = j
    BY <1>1, <2>1
  <2>4. /\ ReadyUsed(rs) \in Nat /\ ActiveJobs(rs, js) \in Nat
        /\ ReadyUsed(rt) = ReadyUsed(rs) + (IF rt[k].st = "ready" THEN 1 ELSE 0)
                                          - (IF rs[k].st = "ready" THEN 1 ELSE 0)
        /\ ActiveJobs(rt, jt) = ActiveJobs(rs, js)
              + (IF ActiveJob(jt[k]) /\ rt[k].st # "ready" THEN 1 ELSE 0)
              - (IF ActiveJob(js[k]) /\ rs[k].st # "ready" THEN 1 ELSE 0)
    BY <2>2, CountsFollow
  <2> QED
    BY <2>1, <2>3, <2>4
<1>5. Account(c)
  <2>1. t.lg.loaded \in BOOLEAN /\ c.lg.loaded = t.lg.loaded
    BY DEF Account, Agree, Moved
  <2>2. t.lg.loaded => t.lg.ready = ReadyUsed(t.row) /\ t.lg.active = ActiveJobs(t.row, t.job)
    BY DEF Account, Agree
  <2>3. c.lg.loaded => c.lg.ready = ReadyUsed(c.row) /\ c.lg.active = ActiveJobs(c.row, c.job)
    BY <1>4, <2>1, <2>2 DEF Moved
  <2>4. c.lg = [on |-> TRUE, loaded |-> c.lg.loaded, ready |-> c.lg.ready, active |-> c.lg.active]
    BY <2>1 DEF Moved
  <2> QED
    BY <2>1, <2>3, <2>4 DEF Account
<1> QED
  BY <1>1, <1>2, <1>3, <1>5 DEF Agree, Changed

\* A coalesce of the same derivative keeps two transactions in agreement, with one outcome.
LEMMA CoalesceAgrees ==
  ASSUME NEW t, NEW u, Agree(t, u), NEW k \in Key, NEW prio \in 0..3, NEW o
  PROVE  /\ Agree(Coalesce(t, k, prio, o), Coalesce(u, k, prio, o))
         /\ Coalesce(t, k, prio, o).out = Coalesce(u, k, prio, o).out
<1>1. PICK v : v = CoalesceVerdict(t, k, o)
  OBVIOUS
<1>2. v = CoalesceVerdict(u, k, o)
  BY <1>1, SameVerdict
<1>3. PICK a : a = IF v \in {"capacity_needed", "queued"} /\ NeedsRoom(t.row[k], o) THEN Loaded(t) ELSE t
  OBVIOUS
<1>4. Agree(a, u) /\ a.row = t.row /\ a.job = t.job /\ Loaded(u) = u
  BY <1>3, LoadedAgrees
<1>5. u.row = t.row /\ u.job = t.job
  BY DEF Agree
<1>6. PICK c, d : c = Coalesce(t, k, prio, o) /\ d = Coalesce(u, k, prio, o)
  OBVIOUS
<1> DEFINE answered == [a EXCEPT !.out = v]
           replied == [u EXCEPT !.out = v]
           out1 == IF t.row[k].st = "ready" THEN 1 ELSE 0
<1>7. /\ answered = [row |-> t.row, job |-> t.job, lg |-> a.lg, out |-> v]
      /\ replied = [row |-> t.row, job |-> t.job, lg |-> NoLedger, out |-> v]
  BY <1>4, <1>5 DEF Agree, Tables
<1>8. t.row = [t.row EXCEPT ![k] = t.row[k]] /\ t.job = [t.job EXCEPT ![k] = t.job[k]]
  BY DEF Agree, Tables
<1>9. t.row[k] \in Row /\ t.job[k] \in Job
  BY DEF Agree, Tables
<1>10. Figures(a.lg)
  <2>1. ReadyUsed(t.row) \in Nat /\ ActiveJobs(t.row, t.job) \in Nat
    BY CountsFollow
  <2> QED
    BY <1>4, <2>1 DEF Agree, Account, Figures
<1>11. CASE v = "restored"
  <2>1. PICK n : n = IF ActiveJob(t.job[k]) THEN 1 ELSE 0
    OBVIOUS
  <2>2. a = t
    BY <1>3, <1>11
  <2>3. /\ c = [answered EXCEPT !.row[k].st = "ready", !.out = "ready", !.lg = LedgerRestored(a.lg, n)]
        /\ d = [replied EXCEPT !.row[k].st = "ready", !.out = "ready", !.lg = LedgerRestored(NoLedger, n)]
    BY <1>1, <1>2, <1>3, <1>5, <1>6, <1>11, <2>1, <2>2 DEF Coalesce, Agree
  <2> HIDE DEF answered, replied
  <2>4. PICK r : r = [t.row[k] EXCEPT !.st = "ready"]
    OBVIOUS
  <2>5. r \in Row /\ r.st = "ready" /\ t.row[k].st = "evicted"
    <3>1. t.row[k].st = "evicted"
      BY <1>1, <1>11, VerdictFacts
    <3> QED
      BY <1>9, <2>4, <3>1, NewRows DEF RowStates
  <2>6. Writes(a, c, k, r, t.job[k]) /\ Writes(u, d, k, r, t.job[k]) /\ c.out = d.out
    BY <1>4, <1>5, <1>7, <1>8, <2>3, <2>4 DEF Writes
  <2>7. c.lg = LedgerRestored(a.lg, n) /\ d.lg = NoLedger
    BY <1>7, <2>3, LedgerFacts
  <2>8. Moved(a.lg, c.lg, 1, 0 - n)
    BY <1>10, <2>1, <2>7, LedgerFacts
  <2>9. Agree(c, d)
    <3>1. ActiveJob(a.job[k]) \in BOOLEAN /\ a.row[k].st # "ready" /\ n \in {0, 1}
          /\ (n = 1 <=> ActiveJob(a.job[k]))
      BY <1>4, <2>1, <2>5 DEF ActiveJob
    <3>2. /\ 1 = (IF r.st = "ready" THEN 1 ELSE 0) - (IF a.row[k].st = "ready" THEN 1 ELSE 0)
          /\ 0 - n = (IF ActiveJob(t.job[k]) /\ r.st # "ready" THEN 1 ELSE 0)
                     - (IF ActiveJob(a.job[k]) /\ a.row[k].st # "ready" THEN 1 ELSE 0)
          /\ 0 - n \in Int
      BY <2>5, <3>1
    <3> QED
      BY <1>4, <1>9, <2>5, <2>6, <2>7, <2>8, <3>2, AgreeOn
  <2> QED
    BY <1>6, <2>6, <2>9
<1>12. CASE v = "active"
  <2> DEFINE j == [t.job[k] EXCEPT !.prio = IF prio < t.job[k].prio THEN prio ELSE t.job[k].prio]
  <2>1. /\ c = [answered EXCEPT !.job[k].prio = IF prio < @ THEN prio ELSE @]
        /\ d = [replied EXCEPT !.job[k].prio = IF prio < @ THEN prio ELSE @]
    BY <1>1, <1>2, <1>3, <1>5, <1>6, <1>12 DEF Coalesce, Agree
  <2> HIDE DEF answered, replied
  <2>2. Writes(a, c, k, t.row[k], j) /\ Writes(u, d, k, t.row[k], j) /\ c.out = d.out
        /\ c.lg = a.lg /\ d.lg = NoLedger
    BY <1>4, <1>5, <1>7, <1>8, <2>1 DEF Writes
  <2>3. j \in Job /\ (ActiveJob(j) <=> ActiveJob(t.job[k]))
    BY <1>9, NewJobs DEF Job, ActiveJob
  <2> HIDE DEF j
  <2>4. Agree(c, d)
    <3>1. Moved(a.lg, c.lg, 0, 0)
      BY <1>10, <2>2, LedgerFacts
    <3>2. /\ 0 = (IF t.row[k].st = "ready" THEN 1 ELSE 0) - (IF a.row[k].st = "ready" THEN 1 ELSE 0)
          /\ 0 = (IF ActiveJob(j) /\ t.row[k].st # "ready" THEN 1 ELSE 0)
                 - (IF ActiveJob(a.job[k]) /\ a.row[k].st # "ready" THEN 1 ELSE 0)
      BY <1>4, <2>3
    <3> QED
      BY <1>4, <1>9, <2>2, <2>3, <3>1, <3>2, AgreeOn
  <2> QED
    BY <1>6, <2>2, <2>4
<1>13. CASE v = "capacity_needed"
  <2> DEFINE r == [st |-> "deferred_capacity", path |-> 0]
  <2>1. /\ c = [answered EXCEPT !.row[k] = r, !.lg = LedgerLeft(a.lg, out1)]
        /\ d = [replied EXCEPT !.row[k] = r, !.lg = LedgerLeft(NoLedger, out1)]
    BY <1>1, <1>2, <1>3, <1>4, <1>5, <1>6, <1>13 DEF Coalesce, Agree
  <2>2. ~ActiveJob(t.job[k])
    BY <1>1, <1>13, VerdictFacts
  <2> HIDE DEF answered, replied
  <2>3. Writes(a, c, k, r, t.job[k]) /\ Writes(u, d, k, r, t.job[k]) /\ c.out = d.out
    BY <1>4, <1>5, <1>7, <1>8, <2>1 DEF Writes
  <2>4. c.lg = LedgerLeft(a.lg, out1) /\ d.lg = NoLedger
    BY <1>7, <2>1, LedgerFacts
  <2>5. r \in Row /\ r.st # "ready"
    BY NewRows DEF RowStates
  <2>6. Moved(a.lg, c.lg, 0 - out1, 0)
    BY <1>10, <2>4, LedgerFacts
  <2> HIDE DEF r
  <2>7. Agree(c, d)
    <3>1. /\ 0 - out1 = (IF r.st = "ready" THEN 1 ELSE 0) - (IF a.row[k].st = "ready" THEN 1 ELSE 0)
          /\ 0 = (IF ActiveJob(t.job[k]) /\ r.st # "ready" THEN 1 ELSE 0)
                 - (IF ActiveJob(a.job[k]) /\ a.row[k].st # "ready" THEN 1 ELSE 0)
          /\ 0 - out1 \in Int
      BY <1>4, <2>2, <2>5
    <3> QED
      BY <1>4, <1>9, <2>3, <2>4, <2>5, <2>6, <3>1, AgreeOn
  <2> QED
    BY <1>6, <2>3, <2>7
<1>14. CASE v = "queued"
  <2> DEFINE r == [st |-> "queued", path |-> 0]
  <2>1. /\ c = [answered EXCEPT !.row[k] = r, !.job[k] = QueuedJob(prio),
                                !.lg = LedgerQueued(LedgerLeft(a.lg, out1))]
        /\ d = [replied EXCEPT !.row[k] = r, !.job[k] = QueuedJob(prio),
                               !.lg = LedgerQueued(LedgerLeft(NoLedger, out1))]
    BY <1>1, <1>2, <1>3, <1>4, <1>5, <1>6, <1>14 DEF Coalesce, Agree
  <2>2. ~ActiveJob(t.job[k])
    BY <1>1, <1>14, VerdictFacts
  <2> HIDE DEF answered, replied
  <2>3. Writes(a, c, k, r, QueuedJob(prio)) /\ Writes(u, d, k, r, QueuedJob(prio)) /\ c.out = d.out
    BY <1>4, <1>5, <1>7, <1>8, <2>1 DEF Writes
  <2>4. c.lg = LedgerQueued(LedgerLeft(a.lg, out1)) /\ d.lg = NoLedger
    BY <1>7, <2>1, LedgerFacts
  <2>5. r \in Row /\ r.st # "ready" /\ QueuedJob(prio) \in Job /\ ActiveJob(QueuedJob(prio))
    BY NewRows, NewJobs DEF RowStates, ActiveJob
  <2>6. Moved(a.lg, c.lg, 0 - out1, 1)
    BY <1>10, <2>4, LedgerFacts
  <2> HIDE DEF r
  <2>7. Agree(c, d)
    <3>1. /\ 0 - out1 = (IF r.st = "ready" THEN 1 ELSE 0) - (IF a.row[k].st = "ready" THEN 1 ELSE 0)
          /\ 1 = (IF ActiveJob(QueuedJob(prio)) /\ r.st # "ready" THEN 1 ELSE 0)
                 - (IF ActiveJob(a.job[k]) /\ a.row[k].st # "ready" THEN 1 ELSE 0)
          /\ 0 - out1 \in Int
      BY <1>4, <2>2, <2>5
    <3> QED
      BY <1>4, <1>9, <2>3, <2>4, <2>5, <2>6, <3>1, AgreeOn
  <2> QED
    BY <1>6, <2>3, <2>7
<1>15. CASE v \notin {"restored", "active", "capacity_needed", "queued"}
  <2>1. c = answered /\ d = replied
    BY <1>1, <1>2, <1>3, <1>5, <1>6, <1>15 DEF Coalesce, Agree
  <2> HIDE DEF answered, replied
  <2>2. /\ c = [row |-> t.row, job |-> t.job, lg |-> a.lg, out |-> v]
        /\ d = [row |-> t.row, job |-> t.job, lg |-> NoLedger, out |-> v]
    BY <1>7, <2>1
  <2>3. c.row = a.row /\ c.job = a.job /\ c.lg = a.lg /\ d.lg = NoLedger /\ c.out = d.out
        /\ d.row = c.row /\ d.job = c.job
    BY <1>4, <2>2
  <2>4. Tables(c) /\ Tables(d)
    BY <2>2, <2>3 DEF Agree, Tables
  <2>5. Agree(c, d)
    BY <1>4, <2>3, <2>4 DEF Agree, Account
  <2> QED
    BY <1>6, <2>3, <2>5
<1> QED
  BY <1>11, <1>12, <1>13, <1>14, <1>15

\* The place of key n of a batch: candidate and variant.
LEMMA PlaceOf ==
  ASSUME NEW c \in Nat, NEW v \in Nat, NEW n \in 1..(c * v)
  PROVE  ((n - 1) \div v) + 1 \in 1..c /\ ((n - 1) % v) + 1 \in 1..v
<1>1. v > 0
  <2>1. v = 0 => c * v = 0
    OBVIOUS
  <2>2. c * v \in Nat /\ c * v >= 1
    OBVIOUS
  <2> QED
    BY <2>1, <2>2
<1>2. PICK q, r : q = (n - 1) \div v /\ r = (n - 1) % v
  OBVIOUS
<1>3. n - 1 \in Nat /\ c * v \in Nat /\ n - 1 < c * v
  OBVIOUS
<1>4. q \in Nat /\ r \in 0..(v - 1) /\ n - 1 = v * q + r
  BY <1>1, <1>2, <1>3
<1>5. q < c
  <2>1. ASSUME q >= c PROVE FALSE
    <3>1. v * q >= v * c
      BY <1>1, <1>4, <2>1
    <3>2. v * c = c * v /\ v * q \in Nat
      BY <1>4
    <3> QED
      BY <1>3, <1>4, <3>1, <3>2
  <2> QED
    BY <1>4, <2>1
<1> QED
  BY <1>1, <1>2, <1>4, <1>5

\* The keys of a batch are derivatives.
LEMMA WantedAre ==
  ASSUME World
  PROVE  /\ Len(Wanted(Candidates)) \in Nat
         /\ \A n \in 1..Len(Wanted(Candidates)) : Wanted(Candidates)[n] \in Key
<1>1. Len(Candidates) \in Nat /\ Len(Variants) \in Nat
  BY CandidatesAre, DerivativeAssumption
<1> DEFINE N == Len(Candidates) * Len(Variants)
           place(n) == ((n - 1) \div Len(Variants)) + 1
           turn(n) == ((n - 1) % Len(Variants)) + 1
           e(n) == <<Candidates[place(n)][1], Variants[turn(n)], Candidates[place(n)][2]>>
<1>2. Wanted(Candidates) = [n \in 1..N |-> e(n)]
  BY DEF Wanted
<1>3. N \in Nat
  BY <1>1
<1>4. ASSUME NEW n \in 1..N PROVE e(n) \in Key
  <2>1. place(n) \in 1..Len(Candidates) /\ turn(n) \in 1..Len(Variants)
    BY <1>1, PlaceOf
  <2> HIDE DEF place, turn
  <2>2. Candidates[place(n)][1] \in Assets /\ Candidates[place(n)][2] \in Ident
    BY <2>1, CandidatesAre
  <2>3. Variants[turn(n)] \in Variant
    BY <2>1, DerivativeAssumption DEF Variant, ToSet
  <2> QED
    BY <2>2, <2>3 DEF Key
<1> HIDE DEF N, e
<1>5. Len(Wanted(Candidates)) = N
  BY <1>2, <1>3
<1> QED
  BY <1>2, <1>3, <1>4, <1>5

\* Retirement comes before the ledger is loaded.
LEMMA RetireAgrees ==
  ASSUME Rows, NEW as
  PROVE  Agree(Retire(Tx(NewLedger), as), Retire(Tx(NoLedger), as))
<1>1. PICK t, u : t = Retire(Tx(NewLedger), as) /\ u = Retire(Tx(NoLedger), as)
  OBVIOUS
<1>2. /\ Tables(Tx(NewLedger)) /\ Tx(NewLedger).row = row /\ Tx(NewLedger).job = job
      /\ Tables(Tx(NoLedger)) /\ Tx(NoLedger).row = row /\ Tx(NoLedger).job = job
  BY TxFacts
<1>3. Tables(t) /\ Tables(u)
  BY <1>1, <1>2, RetireFacts
<1>4. Superseded(Tx(NewLedger), as) = Superseded(Tx(NoLedger), as)
  BY <1>2 DEF Superseded
<1>5. PICK gone : gone = Superseded(Tx(NoLedger), as)
  OBVIOUS
<1> DEFINE rows == [k \in Key |-> IF k \in gone THEN [st |-> "skipped", path |-> 0] ELSE row[k]]
           jobs == [k \in Key |-> IF k \in gone THEN SupersededJob(job[k]) ELSE job[k]]
<1>6. /\ t = [Tx(NewLedger) EXCEPT !.row = rows, !.job = jobs, !.lg = LedgerLeft(NewLedger, Cardinality(gone))]
      /\ u = [Tx(NoLedger) EXCEPT !.row = rows, !.job = jobs, !.lg = LedgerLeft(NoLedger, Cardinality(gone))]
  BY <1>1, <1>2, <1>4, <1>5 DEF Retire, Tx
<1> HIDE DEF rows, jobs
<1>7. /\ LedgerLeft(NewLedger, Cardinality(gone)) = NewLedger
      /\ LedgerLeft(NoLedger, Cardinality(gone)) = NoLedger
  BY DEF LedgerLeft, NewLedger, NoLedger
<1>8. t.row = rows /\ u.row = rows /\ t.job = jobs /\ u.job = jobs /\ t.lg = NewLedger /\ u.lg = NoLedger
  BY <1>6, <1>7 DEF Tx
<1>9. Account(t)
  BY <1>8 DEF Account, NewLedger, NoLedger
<1> QED
  BY <1>1, <1>3, <1>8, <1>9 DEF Agree

\* A whole batch comes to the same tables with and without a ledger.
LEMMA ReconciledAgree ==
  ASSUME World, Rows, NEW o
  PROVE  LET kept == Reconciled(Tx(NewLedger), Candidates, o)
             fresh == Reconciled(Tx(NoLedger), Candidates, o)
         IN kept.tx.row = fresh.tx.row /\ kept.tx.job = fresh.tx.job /\ kept.pending = fresh.pending
<1> DEFINE n == Len(Wanted(Candidates))
           keys == Wanted(Candidates)
<1>1. n \in Nat /\ \A m \in 1..n : keys[m] \in Key
  BY WantedAre
<1>2. PICK t, u : /\ t = Retire(Tx(NewLedger), CandidateAssets(Candidates))
                  /\ u = Retire(Tx(NoLedger), CandidateAssets(Candidates))
  OBVIOUS
<1>3. Agree(t, u)
  BY <1>2, RetireAgrees
<1>4. PICK f : After(f, [tx |-> t, pending |-> <<>>], keys, o, n)
               /\ Reconciled(Tx(NewLedger), Candidates, o) = f[n]
  BY <1>1, <1>2, ReconciledIs
<1>5. PICK h : After(h, [tx |-> u, pending |-> <<>>], keys, o, n)
               /\ Reconciled(Tx(NoLedger), Candidates, o) = h[n]
  BY <1>1, <1>2, ReconciledIs
<1> HIDE DEF n, keys
<1> DEFINE Good(m) == Agree(f[m].tx, h[m].tx) /\ f[m].pending = h[m].pending
<1>6. f[0] = [tx |-> t, pending |-> <<>>] /\ h[0] = [tx |-> u, pending |-> <<>>]
  BY <1>1, <1>4, <1>5 DEF After
<1>7. \A m \in 1..n :
        /\ f[m] = IF Current(keys[m]) THEN Counted(f[m - 1], keys[m], o) ELSE f[m - 1]
        /\ h[m] = IF Current(keys[m]) THEN Counted(h[m - 1], keys[m], o) ELSE h[m - 1]
  BY <1>1, <1>4, <1>5 DEF After
<1>8. Good(0)
  BY <1>3, <1>6
<1>9. ASSUME NEW m \in 1..n, Good(m - 1) PROVE Good(m)
  <2>1. CASE ~Current(keys[m])
    BY <1>7, <1>9, <2>1
  <2>2. CASE Current(keys[m])
    <3>1. PICK a, b, k : a = f[m - 1] /\ b = h[m - 1] /\ k = keys[m]
      OBVIOUS
    <3>2. Agree(a.tx, b.tx) /\ a.pending = b.pending /\ k \in Key
      BY <1>1, <1>9, <3>1
    <3>3. 3 \in 0..3
      OBVIOUS
    <3>4. /\ Agree(Coalesce(a.tx, k, 3, o), Coalesce(b.tx, k, 3, o))
          /\ Coalesce(a.tx, k, 3, o).out = Coalesce(b.tx, k, 3, o).out
      BY <3>2, <3>3, CoalesceAgrees
    <3>5. f[m] = Counted(a, k, o) /\ h[m] = Counted(b, k, o)
      BY <1>7, <2>2, <3>1
    <3> QED
      BY <3>2, <3>4, <3>5 DEF Counted
  <2> QED
    BY <2>1, <2>2
<1> HIDE DEF Good
<1> DEFINE Bad == {m \in 1..n : ~Good(m)}
<1>10. ASSUME Bad # {} PROVE FALSE
  <2>1. PICK m \in Bad : \A y \in Bad : m <= y
    BY <1>1, <1>10, LeastOf
  <2>2. m \in 1..n /\ (m - 1 = 0 \/ m - 1 \in 1..n) /\ m - 1 \notin Bad
    BY <1>1, <2>1
  <2>3. Good(m - 1)
    BY <1>8, <2>2
  <2> QED
    BY <1>9, <2>1, <2>2, <2>3
<1>11. n = 0 \/ n \in 1..n
  BY <1>1
<1>12. Good(n)
  BY <1>8, <1>10, <1>11
<1> QED
  BY <1>4, <1>5, <1>12 DEF Good, Agree

\* The running account of a batch decides for each identity what fresh aggregates
\* would (CapacityLedger, reconcile_desired_derivatives).
THEOREM LedgersAreExact == DSpec => []LedgerExact
<1>1. DerivInv => LedgerExact
  BY ReconciledAgree DEF DerivInv, LedgerExact
<1> QED
  BY <1>1, DerivAlways, PTL
=============================================================================
