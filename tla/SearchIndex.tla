---------------------------- MODULE SearchIndex ----------------------------
(***************************************************************************)
(* The durable jobs that build one derived search index of one library     *)
(* (metadata_store/search_index_store.py, search_indexer.py) beside the    *)
(* metadata commits that invalidate its rows.  Two kinds of index differ   *)
(* in what protects a row: "prompt" (prompt_values, workflow_properties)   *)
(* is invalidated together with its state and is scheduled when the        *)
(* library's metadata has drained; "signature" (generation_signatures) is  *)
(* persisted under a check of the source revision, is scheduled after      *)
(* every metadata commit, and makes a second, repairing pass.              *)
(* Assets are images: they arrive with growing ids, change, go offline and *)
(* come back, and metadata is stored for the file identity it was read at. *)
(*                                                                         *)
(* One thread works for the index (search-index-writer), so the token of   *)
(* a running job is always the thread's own and only the lease can be      *)
(* lost.  A row is "ready" when it was written with a payload, whatever    *)
(* status the code gives it (no index modelled here has skipped rows), and *)
(* "blank" when a signature extractor found no metadata for the identity   *)
(* of its asset: not_applicable without a payload.                         *)
(***************************************************************************)
EXTENDS Naturals, FiniteSets, FiniteSetsExt, Functions

CONSTANTS Assets,      \* asset ids, an interval 1..n: the keyset order
          BatchSize,   \* GALLERY_SEARCH_INDEX_BATCH_SIZE
          KnownAtStart, \* how many assets there may be when the first job is to come
          MaxJobs,     \* bound: jobs ever created
          Budget       \* bound: disturbances of all kinds in one behaviour

ASSUME SearchIndexAssumption ==
    /\ IsFiniteSet(Assets) /\ Assets = 1..Cardinality(Assets)
    /\ BatchSize \in Nat \ {0}
    /\ MaxJobs \in Nat \ {0}
    /\ KnownAtStart \subseteq Assets \cup {0}
    /\ Budget \in Nat

VARIABLES kind,      \* which of the two kinds of index this is
          asset,     \* a -> [src: file identity, 0 until it arrives; on: active;
                     \*       meta: revision of its stored metadata, read at identity of]
          todo,      \* assets with a queued or running metadata job
          row,       \* a -> the extraction row and its derived rows, or NoRow
          idx,       \* the search_index_states row
          job,       \* search_index_jobs, by id
          worker,    \* what the index thread is doing
          due,       \* assets whose metadata committed, backfill not yet scheduled
          booting,   \* the startup backfill has not run yet
          owed,      \* history: assets whose backfill request was never made or
                     \* came to nothing
          used       \* disturbances so far

svars == <<kind, asset, todo, row, idx, job, worker, due, booting, owed, used>>

----------------------------------------------------------------------------
(* late is history: metadata was committed between the extraction of this  *)
(* row and its write.                                                      *)
NoRow == [st |-> "none", src |-> 0, meta |-> 0, late |-> FALSE]
NoJob == [st |-> "none", mode |-> "missing", cursor |-> 0, failed |-> FALSE, lease |-> FALSE]
Idle  == [step |-> "idle", job |-> 0, mode |-> "missing", cursor |-> 0,
          batch |-> <<>>, snap |-> NoRow, repaired |-> FALSE, outcome |-> "none"]

ActiveStates == {"queued", "running", "cancel_requested", "interrupted"}
Claimed      == {"running", "cancel_requested"}
Indexed      == {"ready", "blank"}
Live         == {a \in Assets : asset[a].on}
Active       == {j \in 1..MaxJobs : job[j].st \in ActiveStates}

SInit ==
    /\ kind \in {"prompt", "signature"}
    /\ \E known \in KnownAtStart :
          asset = [a \in Assets |-> IF a <= known
                                    THEN [src |-> 1, on |-> TRUE, meta |-> 1, of |-> 1]
                                    ELSE [src |-> 0, on |-> FALSE, meta |-> 0, of |-> 0]]
    /\ todo = {} /\ due = {} /\ owed = {}
    /\ row = [a \in Assets |-> NoRow]
    /\ idx = [st |-> "pending", indexed |-> 0, active |-> 0]
    /\ job = [j \in 1..MaxJobs |-> NoJob]
    /\ worker = Idle
    /\ booting = TRUE
    /\ used = 0

Spend ==
    /\ used < Budget
    /\ used' = used + 1

----------------------------------------------------------------------------
(* create_search_index_job: one active job for an index and a library *)
CanCreate == Active = {} /\ \E j \in 1..MaxJobs : job[j].st = "none"

Create(mode) ==
    LET j == CHOOSE k \in 1..MaxJobs :
                 job[k].st = "none" /\ \A m \in 1..(k - 1) : job[m].st # "none"
    IN  /\ CanCreate
        /\ job' = [job EXCEPT ![j] = [NoJob EXCEPT !.st = "queued", !.mode = mode]]
        /\ owed' = {}
        /\ idx' = [idx EXCEPT !.active = j,
                              !.st = IF @ \in {"ready", "degraded"} THEN @ ELSE "pending"]

(* POST /api/search/indexes/{name}/rebuild *)
Rebuild(mode) ==
    /\ Create(mode)
    /\ Spend
    /\ UNCHANGED <<kind, asset, todo, row, worker, due, booting>>

(* schedule_search_index_backfill suppresses SearchIndexJobConflict; an    *)
(* auto-built index is asked for only when the metadata jobs have drained. *)
Wanted == kind = "prompt" => todo = {}

Backfill(asking) ==
    \/ /\ Wanted /\ Create("missing")
    \/ /\ ~Wanted \/ Active # {}
       /\ owed' = owed \cup asking
       /\ UNCHANGED <<idx, job>>

(* The metadata worker schedules after its commit, outside the writer op. *)
(* A request the writer refuses or that times out before its op is applied *)
(* raises, and the worker only logs it: the metadata job is done already.  *)
Schedule(a) ==
    /\ a \in due
    /\ due' = due \ {a}
    /\ \/ /\ Backfill({a})
          /\ UNCHANGED used
       \/ /\ Spend
          /\ owed' = owed \cup {a}
          /\ UNCHANGED <<idx, job>>
    /\ UNCHANGED <<kind, asset, todo, row, worker, booting>>

(* schedule_startup_search_index_backfills: auto-built and not ready; the  *)
(* application starts whether it fails or not.                             *)
StartupBackfill ==
    /\ booting
    /\ booting' = FALSE
    /\ \/ /\ IF kind = "prompt" /\ idx.st # "ready"
             THEN Backfill({})
             ELSE UNCHANGED <<idx, job, owed>>
          /\ UNCHANGED used
       \/ /\ Spend
          /\ UNCHANGED <<idx, job, owed>>
    /\ UNCHANGED <<kind, asset, todo, row, worker, due>>

----------------------------------------------------------------------------
(* Mutant: the rows that were invalidated do not count as missing *)
MutantMissing(a) == row[a].st = "failed"

(* What list_search_index_asset_batch selects in the mode missing *)
Missing(a) == row[a].st \in {"none", "failed"} \/ row[a].src # asset[a].src

(* The catalog finds a new file, or a file changed; or metadata is queued  *)
(* again for the same file (its sidecar changed).                          *)
FileChanges(a) ==
    /\ Spend
    /\ \A b \in Assets : b < a => asset[b].src > 0
    /\ asset' = [asset EXCEPT ![a] = [asset[a] EXCEPT !.src = @ + 1, !.on = TRUE]]
    /\ todo' = todo \cup {a}
    /\ UNCHANGED <<kind, row, idx, job, worker, due, booting, owed>>

MetadataAgain(a) ==
    /\ a \in Live \ todo
    /\ Spend
    /\ todo' = todo \cup {a}
    /\ UNCHANGED <<kind, asset, row, idx, job, worker, due, booting, owed>>

(* The catalog marks a file that is gone offline; nothing derived changes *)
GoesOffline(a) ==
    /\ a \in Live
    /\ Spend
    /\ asset' = [asset EXCEPT ![a].on = FALSE]
    /\ UNCHANGED <<kind, todo, row, idx, job, worker, due, booting, owed>>

(* It comes back as it was: a job is queued only if its metadata is not    *)
(* complete, and then no backfill is asked for on its account.             *)
Returns(a) ==
    /\ a \in Assets \ Live /\ asset[a].src > 0
    /\ asset' = [asset EXCEPT ![a].on = TRUE]
    /\ todo' = IF asset[a].of = asset[a].src THEN todo ELSE todo \cup {a}
    /\ owed' = IF Missing(a) THEN owed \cup {a} ELSE owed
    /\ UNCHANGED <<kind, row, idx, job, worker, due, booting, used>>

(* invalidate_*_conn: the rows go; an index with a state row is marked *)
Stale(i, st) ==
    LET left == IF st \in Indexed /\ i.indexed > 0 THEN i.indexed - 1 ELSE i.indexed IN
    [i EXCEPT !.indexed = left,
              !.st = IF i.active # 0 THEN "building"
                     ELSE IF left > 0 THEN "degraded" ELSE "pending"]

Current == Min(DOMAIN worker.batch)

MetadataCommit(a) ==
    /\ a \in todo \cap Live
    /\ asset' = [asset EXCEPT ![a].meta = @ + 1, ![a].of = asset[a].src]
    /\ todo' = todo \ {a}
    /\ row' = [row EXCEPT ![a] = NoRow]
    /\ idx' = IF kind = "prompt" THEN Stale(idx, row[a].st) ELSE idx
    /\ due' = due \cup {a}
    /\ worker' = IF worker.step = "record" /\ Current = a
                 THEN [worker EXCEPT !.snap.late = TRUE] ELSE worker
    /\ UNCHANGED <<kind, job, booting, owed, used>>

(* Metadata of an asset that is not active is thrown away, its job is done *)
MetadataDropped(a) ==
    /\ a \in todo \ Live
    /\ todo' = todo \ {a}
    /\ UNCHANGED <<kind, asset, row, idx, job, worker, due, booting, owed, used>>

(* A metadata job that fails is terminal and schedules nothing *)
MetadataFails(a) ==
    /\ a \in todo
    /\ Spend
    /\ todo' = todo \ {a}
    /\ owed' = IF Missing(a) THEN owed \cup {a} ELSE owed
    /\ UNCHANGED <<kind, asset, row, idx, job, worker, due, booting>>

----------------------------------------------------------------------------
(* Mutant: a lapsed job keeps its lease, so nobody takes it over *)
MutantExpired(jobs, lapsed) ==
    [j \in 1..MaxJobs |->
        IF j \notin lapsed \/ jobs[j].st = "running" THEN jobs[j]
        ELSE [jobs[j] EXCEPT !.lease = FALSE, !.st = "cancelled"]]

(* claim_next_search_index_job, recover_search_index_jobs *)
Expired(jobs, lapsed) ==
    [j \in 1..MaxJobs |->
        IF j \notin lapsed THEN jobs[j]
        ELSE [jobs[j] EXCEPT !.lease = FALSE,
                 !.st = IF @ = "cancel_requested" THEN "cancelled" ELSE "interrupted"]]

(* Mutant: the cancelled job stays the active one of its index *)
MutantReleased(i, jobs, lapsed) ==
    IF i.active \notin lapsed THEN i
    ELSE IF jobs[i.active].st = "cancel_requested" THEN i
    ELSE [i EXCEPT !.st = IF i.indexed > 0 THEN "degraded" ELSE "pending"]

(* The state of a cancelled one is left as it was *)
Released(i, jobs, lapsed) ==
    IF i.active \notin lapsed THEN i
    ELSE IF jobs[i.active].st = "cancel_requested" THEN [i EXCEPT !.active = 0]
    ELSE [i EXCEPT !.st = IF i.indexed > 0 THEN "degraded" ELSE "pending"]

Claim ==
    LET lapsed == {j \in 1..MaxJobs : job[j].st \in Claimed /\ ~job[j].lease}
        after  == Expired(job, lapsed)
        i      == Released(idx, job, lapsed)
        ready  == {j \in 1..MaxJobs : after[j].st \in {"queued", "interrupted"}}
    IN  /\ worker.step = "idle"
        /\ lapsed # {} \/ ready # {}
        /\ IF ready = {}
           THEN /\ job' = after /\ idx' = i
                /\ UNCHANGED worker
           ELSE LET j == Min(ready) IN
                /\ job' = [after EXCEPT ![j].st = "running", ![j].lease = TRUE]
                /\ idx' = [i EXCEPT !.st = "building", !.active = j]
                /\ worker' = [Idle EXCEPT !.step = "batch", !.job = j,
                                 !.mode = after[j].mode, !.cursor = after[j].cursor]
        /\ UNCHANGED <<kind, asset, todo, row, due, booting, owed, used>>

Mine == job[worker.job]
Lost == Mine.st \notin Claimed \/ ~Mine.lease

(* list_search_index_asset_batch *)
Listed     == {a \in Live : a > worker.cursor /\ (worker.mode = "missing" => Missing(a))}
FirstOf(S) == {a \in S : Cardinality({b \in S : b < a}) < BatchSize}
Snapshot(S) == [a \in S |-> asset[a].src]

Ending(outcome) == worker' = [worker EXCEPT !.step = "finish", !.outcome = outcome]

(* Control check, renewal and the read of the next batch *)
NextBatch ==
    /\ worker.step = "batch"
    /\ \/ /\ Lost /\ worker' = Idle
       \/ /\ ~Lost /\ Mine.st = "cancel_requested" /\ Ending("cancelled")
       \/ /\ ~Lost /\ Mine.st = "running" /\ Listed # {}
          /\ worker' = [worker EXCEPT !.step = "asset", !.batch = Snapshot(FirstOf(Listed))]
       \/ /\ ~Lost /\ Mine.st = "running" /\ Listed = {}
          /\ IF kind = "signature" /\ ~worker.repaired
             THEN worker' = [worker EXCEPT !.repaired = TRUE, !.mode = "missing", !.cursor = 0]
             ELSE Ending("succeeded")
    /\ UNCHANGED <<kind, asset, todo, row, idx, job, due, booting, owed, used>>

FailedRow == [NoRow EXCEPT !.st = "failed", !.src = worker.batch[Current]]

(* The prompt extractors read the metadata of the path, whatever identity  *)
(* it was read at; the signature's only those of the listed identity.      *)
ExtractedRow ==
    [NoRow EXCEPT
        !.st = IF kind = "signature" /\ asset[Current].of # worker.batch[Current]
               THEN "blank" ELSE "ready",
        !.src = worker.batch[Current],
        !.meta = asset[Current].meta]

(* Control check, then the extractor, off the writer *)
Extract ==
    /\ worker.step = "asset"
    /\ \/ /\ Mine.st = "cancel_requested" /\ ~Lost /\ Ending("cancelled")
          /\ UNCHANGED used
       \/ /\ Mine.st = "running" \/ Lost
          /\ \/ /\ worker' = [worker EXCEPT !.step = "record", !.snap = ExtractedRow]
                /\ UNCHANGED used
             \/ /\ Spend
                /\ worker' = [worker EXCEPT !.step = "record", !.snap = FailedRow]
    /\ UNCHANGED <<kind, asset, todo, row, idx, job, due, booting, owed>>

(* record_search_index_extraction: a failure keeps an earlier ready row *)
Recorded(a, new) ==
    IF new.st = "failed" /\ row[a].st \in Indexed THEN row[a] ELSE new

(* Mutant: the persist does not compare source revisions *)
MutantSourceMoved == FALSE

(* persist_generation_signature compares revisions of a payload only *)
SourceMoved == /\ kind = "signature" /\ worker.snap.st = "ready"
               /\ \/ asset[Current].of # worker.batch[Current]
                  \/ asset[Current].meta # worker.snap.meta

Store(a, new) ==
    /\ row' = [row EXCEPT ![a] = Recorded(a, new)]
    /\ job' = [job EXCEPT ![worker.job].cursor = a,
                          ![worker.job].failed = @ \/ new.st = "failed"]
    /\ worker' = LET left == DOMAIN worker.batch \ {a} IN
                 [worker EXCEPT !.cursor = a, !.snap = NoRow,
                                !.batch = Restrict(@, left),
                                !.step = IF left = {} THEN "batch" ELSE "asset"]

RecordFailed == worker' = [worker EXCEPT !.snap = FailedRow]

Record ==
    /\ worker.step = "record"
    /\ \/ /\ Lost /\ worker' = Idle
          /\ UNCHANGED <<row, job, used>>
       \/ /\ ~Lost /\ SourceMoved /\ RecordFailed
          /\ UNCHANGED <<row, job, used>>
       \/ /\ ~Lost /\ worker.snap.st \in Indexed /\ Spend /\ RecordFailed
          /\ UNCHANGED <<row, job>>
       \/ /\ ~Lost /\ ~SourceMoved /\ Store(Current, worker.snap)
          /\ UNCHANGED used
    /\ UNCHANGED <<kind, asset, todo, idx, due, booting, owed>>

(* finish_search_index_job; a lost claim is ignored by the caller *)
Closing(outcome) ==
    LET indexed == Cardinality({a \in Live : row[a].st \in Indexed})
        failed  == Mine.failed \/ \E a \in Live : row[a].st = "failed"
    IN  [idx EXCEPT !.indexed = indexed,
            !.active = 0,
            !.st = IF outcome = "succeeded" THEN IF failed THEN "degraded" ELSE "ready"
                   ELSE IF indexed > 0 \/ Live = {} THEN "degraded"
                   ELSE IF outcome = "failed" THEN "failed" ELSE "pending"]

Finish ==
    /\ worker.step = "finish"
    /\ IF Lost THEN UNCHANGED <<idx, job>>
       ELSE /\ idx' = Closing(worker.outcome)
            /\ job' = [job EXCEPT ![worker.job].st = worker.outcome,
                                  ![worker.job].lease = FALSE]
    /\ worker' = Idle
    /\ UNCHANGED <<kind, asset, todo, row, due, booting, owed, used>>

(* Any other exception ends the job as failed; one raised by the claim or  *)
(* by that last write leaves _run, and the thread with it.                 *)
Raise ==
    /\ Spend
    /\ \/ /\ worker.step \in {"batch", "asset", "record"} /\ Ending("failed")
       \/ /\ worker.step = "finish" /\ worker.outcome # "failed" /\ Ending("failed")
       \/ /\ \/ worker.step = "idle"
             \/ worker.step = "finish" /\ worker.outcome = "failed"
          /\ worker' = [Idle EXCEPT !.step = "dead"]
    /\ UNCHANGED <<kind, asset, todo, row, idx, job, due, booting, owed>>

----------------------------------------------------------------------------
(* request_search_index_job_cancel *)
Cancel(j) ==
    /\ Spend
    /\ \/ /\ job[j].st \in {"queued", "interrupted"}
          /\ job' = [job EXCEPT ![j].st = "cancelled"]
          /\ idx' = IF idx.active # j THEN idx
                    ELSE [idx EXCEPT !.active = 0,
                             !.st = IF idx.indexed > 0 THEN "degraded" ELSE "pending"]
       \/ /\ job[j].st = "running"
          /\ job' = [job EXCEPT ![j].st = "cancel_requested"]
          /\ UNCHANGED idx
    /\ UNCHANGED <<kind, asset, todo, row, worker, due, booting, owed>>

(* An extraction outlives its lease *)
LeaseLapses ==
    /\ \E j \in 1..MaxJobs :
          /\ job[j].st \in Claimed /\ job[j].lease
          /\ job' = [job EXCEPT ![j].lease = FALSE]
    /\ Spend
    /\ UNCHANGED <<kind, asset, todo, row, idx, worker, due, booting, owed>>

(* The process dies; recover_search_index_jobs runs before the new thread *)
Restart ==
    LET held == {j \in 1..MaxJobs : job[j].st \in Claimed} IN
    /\ Spend
    /\ job' = Expired(job, held)
    /\ idx' = Released(idx, job, held)
    /\ worker' = Idle
    /\ owed' = owed \cup due
    /\ due' = {}
    /\ booting' = TRUE
    /\ UNCHANGED <<kind, asset, todo, row>>

----------------------------------------------------------------------------
Work == Claim \/ NextBatch \/ Extract \/ Record \/ Finish

SNext ==
    \/ Work \/ StartupBackfill \/ Raise \/ LeaseLapses \/ Restart
    \/ \E a \in Assets :
          \/ FileChanges(a) \/ MetadataAgain(a) \/ GoesOffline(a) \/ Returns(a)
          \/ MetadataCommit(a) \/ MetadataDropped(a) \/ MetadataFails(a) \/ Schedule(a)
    \/ \E mode \in {"missing", "full"} : Rebuild(mode)
    \/ \E j \in 1..MaxJobs : Cancel(j)

(* The index thread loops on its poll interval; nothing else must happen *)
SSpec     == SInit /\ [][SNext]_svars
SFairSpec == SSpec /\ WF_svars(Work)

(* The shapes of the rows and of the thread's state; and the state row      *)
(* names the one active job and no other, through claims, cancellations,   *)
(* lapsed leases and restarts.                                             *)
STypeOK ==
    /\ kind \in {"prompt", "signature"}
    /\ asset \in [Assets -> [src : Nat, on : BOOLEAN, meta : Nat, of : Nat]]
    /\ todo \subseteq Assets /\ due \subseteq Assets /\ owed \subseteq Assets
    /\ \A a \in Assets : row[a].st \in Indexed \cup {"none", "failed"}
    /\ idx.st \in {"pending", "building", "ready", "degraded", "failed"}
    /\ idx.indexed <= Cardinality(Assets)
    /\ \A j \in 1..MaxJobs :
          /\ job[j].st \in ActiveStates \cup {"none", "succeeded", "cancelled", "failed"}
          /\ job[j].cursor \in Assets \cup {0}
          /\ job[j].lease => job[j].st \in Claimed
    /\ worker.step \in {"idle", "batch", "asset", "record", "finish", "dead"}
    /\ used \in Nat
    /\ Active = (IF idx.active = 0 THEN {} ELSE {idx.active})

Settled    == idx.active = 0 /\ todo = {} /\ due = {}

(* An index that reports "ready" with nothing left to do has, for every    *)
(* active asset, a row of its present file identity and of the last        *)
(* metadata: a resumed cursor, a batch read before the last commits, a     *)
(* cancelled or failed job, and a file that arrives, changes, vanishes or  *)
(* returns leave no gap.  Two kinds of asset are exempt, as the code does  *)
(* not protect them.  One is owed: the backfill request that was to        *)
(* restore its row failed, met an active job, was skipped because metadata *)
(* work was left, died with the process, or was never made (its metadata   *)
(* job failed; it returned with complete metadata and no row).  Of a row   *)
(* written late, with metadata committed after it was extracted, only the  *)
(* identity is claimed: a prompt row is written without a check.           *)
ReadyIsCovered ==
    Settled /\ idx.st = "ready" =>
        \A a \in Live \ owed :
            /\ row[a].st \in Indexed
            /\ row[a].src = asset[a].src
            /\ ~row[a].late => row[a].meta = asset[a].meta

(* A signature row that was built from metadata never describes metadata   *)
(* older than the stored: the extraction runs off the writer, so the       *)
(* persist compares revisions and the metadata commit deletes the row.     *)
(* A blank row has no payload to compare; it is as current unless late.    *)
SignatureIsCurrent ==
    kind = "signature" =>
        \A a \in Assets :
            (row[a].st = "ready" \/ (row[a].st = "blank" /\ ~row[a].late))
                => row[a].meta = asset[a].meta

(* Every job ends, whatever lease it lost, as long as the thread lives: of  *)
(* the MaxJobs jobs none stays active for ever.                            *)
JobsEnd == (Active # {}) ~> (Active = {} \/ worker.step = "dead")
=============================================================================
