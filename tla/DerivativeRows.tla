----------------------------- MODULE DerivativeRows -----------------------------
(***************************************************************************)
(* The write transactions of the derivative scheduler                      *)
(* (backend/derivative_scheduler/): every operation that the database      *)
(* writer runs on asset_derivatives and derivative_jobs, as an operator    *)
(* from the rows it finds to the rows it leaves.  Derivatives interleaves  *)
(* them with the threads that ask for them.                                *)
(*                                                                         *)
(* A derivative row is named by what its unique index names: the asset,    *)
(* the variant and the source identity (mtime_ns, size), a number here.    *)
(* A row's cache path is the identity its file name was hashed from, for   *)
(* the same asset and variant: normally the row's own.  Of a row's jobs    *)
(* only the last is kept, the one every query of the source selects (an    *)
(* earlier job is always terminal).  Every file counts one unit of quota   *)
(* and every estimate is one unit.                                         *)
(***************************************************************************)
EXTENDS Naturals, Sequences, FiniteSets, SequencesExt

CONSTANTS
  Assets,       \* image assets
  Variants,     \* configured variants, all kinds, in the order of DERIVATIVE_VARIANTS
  MaxIdent,     \* bound: source identities a file can have
  Quota,        \* quota_bytes, in files
  MaxAttempts   \* _MAX_ATTEMPTS

ASSUME DerivativeAssumption ==
  /\ IsFiniteSet(Assets)
  /\ Variants \in Seq(STRING) /\ IsInjective(Variants)
  /\ MaxIdent \in Nat \ {0}
  /\ Quota \in Nat
  /\ MaxAttempts \in Nat \ {0}

VARIABLES
  disk,  \* the source file of each asset: its identity, 0 when it is missing
  cat,   \* assets row: catalogued identity, active (an image, not deleted, not offline)
  row,   \* asset_derivatives
  job,   \* derivative_jobs, the latest of each derivative
  file   \* the cache directory: which identity's pixels a path holds, 0 for no file

-----------------------------------------------------------------------------
Ident == 1..MaxIdent
Variant == ToSet(Variants)
Key == Assets \X Variant \X Ident
PathOf(k, i) == <<k[1], k[2], i>>

RowStates == {"absent", "queued", "running", "ready", "failed", "skipped",
              "deferred_capacity", "evicted"}
Row == [st : RowStates, path : 0..MaxIdent]
NoRow == [st |-> "absent", path |-> 0]

JobStates == {"none", "queued", "running", "done", "failed", "skipped"}
ResultCodes == {"none", "source_changed", "source_missing", "asset_inactive",
                "source_superseded", "invalid_source", "attempts_exhausted", "internal_error"}
Job == [st : JobStates, prio : 0..3, attempts : Nat, token : Nat, rc : ResultCodes]
NoJob == [st |-> "none", prio |-> 0, attempts |-> 0, token |-> 0, rc |-> "none"]
QueuedJob(prio) == [NoJob EXCEPT !.st = "queued", !.prio = prio]
ActiveJob(j) == j.st \in {"queued", "running"}

\* The file a row's cache_path names is there.
HasFile(k, r) == r.path # 0 /\ file[PathOf(k, r.path)] # 0

\* The catalog has the asset, active, with the row's identity.
Current(k) == cat[k[1]].active /\ cat[k[1]].ident = k[3]

-----------------------------------------------------------------------------
(* Capacity.  A transaction carries its rows, its jobs, its CapacityLedger   *)
(* (lg) and the outcome of the last coalesce (out).                          *)

NoLedger == [on |-> FALSE, loaded |-> FALSE, ready |-> 0, active |-> 0]
NewLedger == [NoLedger EXCEPT !.on = TRUE]
Tx(lg) == [row |-> row, job |-> job, lg |-> lg, out |-> "none"]

ReadyUsed(rs) == Cardinality({k \in Key : rs[k].st = "ready"})
ActiveJobs(rs, js) == Cardinality({k \in Key : ActiveJob(js[k]) /\ rs[k].st # "ready"})

\* CapacityLedger.available loads the aggregates on its first use only.
Loaded(tx) ==
  IF tx.lg.on /\ ~tx.lg.loaded
  THEN [tx EXCEPT !.lg = [on |-> TRUE, loaded |-> TRUE, ready |-> ReadyUsed(tx.row),
                          active |-> ActiveJobs(tx.row, tx.job)]]
  ELSE tx

Usage(tx, est) ==
  IF tx.lg.on THEN Loaded(tx).lg.ready + Loaded(tx).lg.active * est
              ELSE ReadyUsed(tx.row) + ActiveJobs(tx.row, tx.job) * est
Fits(tx, est) == Usage(tx, est) + est <= Quota

\* ready_row_left, ready_row_restored and job_queued: ignored until loaded.
LedgerLeft(lg, n) == IF lg.loaded THEN [lg EXCEPT !.ready = @ - n] ELSE lg
LedgerRestored(lg, jobs) ==
  IF lg.loaded THEN [lg EXCEPT !.ready = @ + 1, !.active = @ - jobs] ELSE lg
\* Mutant: a queued job is not added to the running account.
MutantLedgerQueued(lg) == lg

LedgerQueued(lg) == IF lg.loaded THEN [lg EXCEPT !.active = @ + 1] ELSE lg

-----------------------------------------------------------------------------
(* _coalesce_derivative_job: one identity, inside the caller's transaction.  *)
(* o = [retry |-> retry_failed, deferrable |-> deferrable,                   *)
(*      reconsider |-> reconsider_deferred_capacity]                         *)

Interactive == [retry |-> TRUE, deferrable |-> FALSE, reconsider |-> TRUE]
Automatic == [retry |-> FALSE, deferrable |-> TRUE, reconsider |-> FALSE]
Startup == [Automatic EXCEPT !.reconsider = TRUE]
WarmLibrary == [Startup EXCEPT !.retry = TRUE]

\* A skip that is tried again without retry_failed.
Retriable(r, j) ==
  r.st = "skipped" /\ j.rc \in {"source_missing", "asset_inactive", "source_superseded"}

NeedsRoom(r, o) == r.st \in {"absent", "deferred_capacity", "evicted"} \/ o.deferrable

CoalesceVerdict(tx, k, o) ==
  LET r == tx.row[k]
      j == tx.job[k]
  IN IF r.st = "ready" /\ HasFile(k, r) THEN "ready"
     ELSE IF r.st = "evicted" /\ HasFile(k, r) THEN "restored"
     ELSE IF r.st \in {"failed", "skipped"} /\ ~o.retry /\ ~Retriable(r, j) THEN r.st
     ELSE IF ActiveJob(j) THEN "active"
     ELSE IF r.st \in {"deferred_capacity", "evicted"} /\ o.deferrable /\ ~o.reconsider
       THEN "deferred_capacity"
     ELSE IF NeedsRoom(r, o) /\ ~Fits(tx, 1) THEN "capacity_needed"
     ELSE "queued"

Coalesce(tx, k, prio, o) ==
  LET r == tx.row[k]
      verdict == CoalesceVerdict(tx, k, o)
      asked == IF verdict \in {"capacity_needed", "queued"} /\ NeedsRoom(r, o)
               THEN Loaded(tx) ELSE tx
      left == IF r.st = "ready" THEN 1 ELSE 0
      answered == [asked EXCEPT !.out = verdict]
  IN CASE verdict = "restored" ->
            [answered EXCEPT !.row[k].st = "ready", !.out = "ready",
               !.lg = LedgerRestored(tx.lg, IF ActiveJob(tx.job[k]) THEN 1 ELSE 0)]
       [] verdict = "active" ->
            [answered EXCEPT !.job[k].prio = IF prio < @ THEN prio ELSE @]
       [] verdict = "capacity_needed" ->
            [answered EXCEPT !.row[k] = [st |-> "deferred_capacity", path |-> 0],
               !.lg = LedgerLeft(asked.lg, left)]
       [] verdict = "queued" ->
            [answered EXCEPT !.row[k] = [st |-> "queued", path |-> 0],
               !.job[k] = QueuedJob(prio),
               !.lg = LedgerQueued(LedgerLeft(asked.lg, left))]
       [] OTHER -> answered

-----------------------------------------------------------------------------
(* Supersession: _retire_superseded_in_txn for the assets as.                *)

Superseded(tx, as) ==
  {k \in Key : /\ k[1] \in as
               /\ tx.row[k].st = "ready"
               /\ cat[k[1]].active
               /\ cat[k[1]].ident # k[3]}

RetiredPaths(tx, as) ==
  {PathOf(k, tx.row[k].path) : k \in {s \in Superseded(tx, as) : tx.row[s].path # 0}}

\* Queued, running and done jobs become the superseded one; any other latest
\* job gets a superseded successor.
SupersededJob(j) ==
  [(IF j.st \in {"queued", "running", "done"} THEN j ELSE [NoJob EXCEPT !.prio = 3])
     EXCEPT !.st = "skipped", !.rc = "source_superseded", !.token = 0]

Retire(tx, as) ==
  LET gone == Superseded(tx, as)
  IN [tx EXCEPT !.row = [k \in Key |-> IF k \in gone THEN [st |-> "skipped", path |-> 0] ELSE tx.row[k]],
                !.job = [k \in Key |-> IF k \in gone THEN SupersededJob(tx.job[k]) ELSE tx.job[k]],
                !.lg = LedgerLeft(tx.lg, Cardinality(gone))]

-----------------------------------------------------------------------------
(* The reconcile batch: retire, then coalesce every variant of every         *)
(* candidate that is still current, against one ledger.                      *)

\* Candidate by candidate, each with every variant.
Wanted(cands) ==
  LET V == Len(Variants)
  IN [n \in 1..(Len(cands) * V) |->
        LET c == cands[((n - 1) \div V) + 1]
        IN <<c[1], Variants[((n - 1) % V) + 1], c[2]>>]

CandidateAssets(cands) == {c[1] : c \in ToSet(cands)}

Counted(acc, k, o) ==
  LET next == Coalesce(acc.tx, k, 3, o)
  IN [tx |-> next,
      pending |-> IF next.out = "capacity_needed" THEN Append(acc.pending, k) ELSE acc.pending]

Reconciled(tx, cands, o) ==
  LET keys == Wanted(cands)
      after[n \in 0..Len(keys)] ==
        IF n = 0 THEN [tx |-> Retire(tx, CandidateAssets(cands)), pending |-> <<>>]
        ELSE IF Current(keys[n]) THEN Counted(after[n - 1], keys[n], o) ELSE after[n - 1]
  IN after[Len(keys)]

-----------------------------------------------------------------------------
(* Eviction: the two ops of _reserve_capacity.                               *)

Evict(tx, sel) ==
  [tx EXCEPT !.row = [k \in Key |-> IF k \in sel THEN [tx.row[k] EXCEPT !.st = "evicted"] ELSE tx.row[k]]]

FinalizeEviction(tx, sel, unlinked) ==
  [tx EXCEPT !.row =
     [k \in Key |-> IF k \in sel /\ tx.row[k].st = "evicted"
                    THEN IF k \in unlinked THEN [tx.row[k] EXCEPT !.path = 0]
                                           ELSE [tx.row[k] EXCEPT !.st = "ready"]
                    ELSE tx.row[k]]]

-----------------------------------------------------------------------------
(* The ends of a claim.                                                      *)

\* A terminal or requeued state with its result code, as _handle_failure,
\* recovery and the queue sweep write it.
Ended(j, st, rc) == [j EXCEPT !.st = st, !.rc = rc, !.token = 0]

\* Mutant: the derivative row does not follow its job.
MutantSetEnds(tx, ends) ==
  [tx EXCEPT !.job = [k \in Key |-> IF k \in DOMAIN ends THEN Ended(tx.job[k], ends[k][1], ends[k][2])
                                   ELSE tx.job[k]]]

\* Every derivative in the domain of ends goes to its state there, and so does its
\* job, with the result code.
SetEnds(tx, ends) ==
  [tx EXCEPT
     !.row = [k \in Key |-> IF k \in DOMAIN ends THEN [tx.row[k] EXCEPT !.st = ends[k][1]] ELSE tx.row[k]],
     !.job = [k \in Key |-> IF k \in DOMAIN ends THEN Ended(tx.job[k], ends[k][1], ends[k][2])
                           ELSE tx.job[k]]]

\* Mutant: the claim is recognised by its state, not by its token.
MutantOwns(c) == job[c.key].st = "running"

Owns(c) == job[c.key].st = "running" /\ job[c.key].token = c.token

\* _claim_job and _claim_siblings_conn: running rows, each with a fresh token.
ClaimedJob(j, token) ==
  [j EXCEPT !.st = "running", !.attempts = @ + 1, !.token = token, !.rc = "none"]

ClaimEach(tx, fresh) ==
  [tx EXCEPT
     !.row = [k \in Key |-> IF k \in DOMAIN fresh THEN [tx.row[k] EXCEPT !.st = "running"] ELSE tx.row[k]],
     !.job = [k \in Key |-> IF k \in DOMAIN fresh THEN ClaimedJob(tx.job[k], fresh[k]) ELSE tx.job[k]]]

\* What _inapplicable_result reads of a claimed or queued row.
Inapplicable(k) ==
  IF ~cat[k[1]].active THEN "asset_inactive"
  ELSE IF disk[k[1]] = 0 THEN "source_missing"
  ELSE IF disk[k[1]] # k[3] \/ cat[k[1]].ident # k[3] THEN "source_changed"
  ELSE "none"

\* Mutant: recovery hands a job back however often it was tried.
MutantRecoveryOf(k) ==
  IF Inapplicable(k) # "none" THEN <<"skipped", Inapplicable(k)>> ELSE <<"queued", "none">>

\* _recover_running_jobs decides this for each abandoned claim it reads.
RecoveryOf(k) ==
  IF Inapplicable(k) # "none" THEN <<"skipped", Inapplicable(k)>>
  ELSE IF job[k].attempts >= MaxAttempts THEN <<"failed", "attempts_exhausted">>
  ELSE <<"queued", "none">>

\* _reconcile_queued_jobs compares with the catalog only.
SweepCode(k) == IF cat[k[1]].active THEN "source_changed" ELSE "asset_inactive"

\* repair_derivative_consistency, for one queued row without an active job.
Repaired(tx, k) ==
  IF tx.row[k].st # "queued" \/ ActiveJob(tx.job[k]) THEN tx
  ELSE IF Inapplicable(k) # "none" THEN [tx EXCEPT !.row[k].st = "skipped"]
  ELSE [tx EXCEPT !.job[k] = QueuedJob(3)]
=============================================================================
