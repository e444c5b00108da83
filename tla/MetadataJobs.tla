------------------------------ MODULE MetadataJobs ------------------------------
(***************************************************************************)
(* The metadata lifecycle of the gallery backend: the durable queue        *)
(* metadata_index_jobs (backend/metadata_store/metadata_queue.py), the     *)
(* worker threads, heartbeat and supervisor that serve it                  *)
(* (backend/indexer.py), and every other actor that writes the same rows:  *)
(* a catalog scan and its dispatch, GET /api/metadata, a derivative render *)
(* that records dimensions, the integrity pass, stale-row cleanup, and     *)
(* startup recovery after a crash.                                         *)
(*                                                                         *)
(* A file version stands for the identity (mtime_ns, size); it only grows. *)
(* Version 0 is "no row".  Sidecar 0 is "no sidecar".  One database writer *)
(* op is one atomic step; an op may be rejected (nothing applied) or lost  *)
(* (applied, but the caller saw a timeout).  A lease is live or expired    *)
(* and a retry backoff is due or not: the clock only shows through these.  *)
(***************************************************************************)
EXTENDS Naturals, Sequences

CONSTANTS
  Paths,        \* image files
  Workers,      \* worker thread slots
  Tokens,       \* claim tokens (uuid4 values)
  None,         \* no token, no claim, no path
  MaxAttempts,  \* MAX_METADATA_JOB_ATTEMPTS
  ClaimBatch,   \* METADATA_CLAIM_BATCH_SIZE
  MaxVer,       \* bound: last version a file is rewritten to
  MaxSide,      \* bound: distinct sidecar identities
  Budget        \* bound: how many changes of files or sidecars, scans, faults,
                \* and extras (metadata requests, renders, integrity passes)

ASSUME MetadataAssumption ==
  /\ None \notin Tokens \cup Paths
  /\ MaxAttempts \in Nat \ {0}
  /\ ClaimBatch \in Nat \ {0}
  /\ MaxVer \in Nat \ {0}
  /\ MaxSide \in Nat
  /\ Budget \in [{"change", "scan", "fault", "extra"} -> Nat]

VARIABLES
  disk,    \* the file and its sidecar
  asset,   \* assets row: identity, active (not offline or deleted), metadata_state
  im,      \* image_metadata row: nanosecond and second identity, sidecar, content read
  job,     \* metadata_index_jobs row
  worker,  \* what each worker thread is doing, for which claim
  buf,     \* claimed but not started jobs of each worker thread
  pend,    \* _pending_claims: shared registry path -> claim to renew
  scan,    \* the catalog job that discovers, upserts and dispatches
  reader,  \* a GET /api/metadata request
  render,  \* a derivative render that records the source's dimensions
  sweep,   \* the integrity pass, and the missing files it has seen
  phase,   \* process lifecycle: startup recovery steps, then "up"
  plan,    \* startup repairs decided on the read snapshot
  left     \* what is left of Budget

rows == <<asset, im, job>>
vars == <<disk, asset, im, job, worker, buf, pend, scan, reader, render, sweep, phase, plan, left>>

-----------------------------------------------------------------------------
Ver == 0..MaxVer
Side == 0..MaxSide
MaybeToken == Tokens \cup {None}

JobStates == {"none", "queued", "running", "done", "failed", "stale", "skipped"}
Job == [state : JobStates, ver : Ver, attempts : Nat, token : MaybeToken,
        lease : {"none", "live", "expired"}, due : BOOLEAN]
NoJob == [state |-> "none", ver |-> 0, attempts |-> 0, token |-> None,
          lease |-> "none", due |-> TRUE]

Claim == [path : Paths, ver : Ver, attempts : Nat, token : Tokens]
Meta == [ver : Ver, side : Side, content : Ver]
NoMeta == [ver |-> 0, side |-> 0, content |-> 0]
Metadata == [ns : Ver, sec : Ver, side : Side, content : Ver]
NoMetadata == [ns |-> 0, sec |-> 0, side |-> 0, content |-> 0]
Asset == [ver : Ver, active : BOOLEAN, mstate : {"pending", "done"}]
NoAsset == [ver |-> 0, active |-> FALSE, mstate |-> "pending"]

\* LeaseHeartbeat runs while a worker is in one of these.
Beating == {"stat", "read", "recheck"}
WorkerStates == {"idle", "dead", "check", "stale", "write", "retry", "fail"} \cup Beating
Idle == [pc |-> "idle", claim |-> None, meta |-> NoMeta]
NoScan == [pc |-> "idle", path |-> None, ver |-> 0]
NoReader == [pc |-> "idle", path |-> None, meta |-> NoMeta]
NoRender == [path |-> None, ver |-> 0]
NoSweep == [pc |-> "idle", missing |-> {}]

-----------------------------------------------------------------------------
(* Identity rules and row transitions, as functions of row values.         *)

\* Branches of image_metadata_params_match_sql for a job that has mtime_ns.
Matches(m, v) == m.sec = v /\ m.ns \in {0, v} /\ v # 0

\* The metadata is that of version v and of the sidecar on disk now.
IsCurrent(m, p, v) == Matches(m, v) /\ m.side = disk[p].side

FileIs(p, v) == disk[p].here /\ disk[p].ver = v

Release(j, s) == [j EXCEPT !.state = s, !.token = None, !.lease = "none", !.due = TRUE]

\* Mutants: recovery that ignores the lease, and one that only sees a lost token.
MutantAbandonedLive(j) == j.state = "running"
MutantAbandonedTokenless(j) == j.state = "running" /\ j.token = None
Abandoned(j) == j.state = "running" /\ (j.token = None \/ j.lease # "live")

\* Back to the queue, or failed when its attempts are used up.
Recovered(j) == Release(j, IF j.attempts >= MaxAttempts THEN "failed" ELSE "queued")
RecoveredIfAbandoned(j) == IF Abandoned(j) THEN Recovered(j) ELSE j

OwnsRow(j, t) == t # None /\ j.state = "running" /\ j.token = t
\* Mutant: terminal writes fenced by the path alone.
MutantFencedByPath(j, c) == j.state = "running"
Fenced(j, c) == OwnsRow(j, c.token) /\ j.ver = c.ver

\* Mutant: completion does not look at the sidecar.
MutantOutcomeNoSidecar(m, p, v) ==
  IF ~Matches(m, v) THEN "stale" ELSE IF asset[p].ver = v THEN "done" ELSE "stale"

\* complete_metadata_job: what becomes of a job for version v, given metadata m.
Outcome(m, p, v) ==
  IF ~IsCurrent(m, p, v) THEN "stale"
  ELSE IF asset[p].ver = v THEN "done"
  ELSE IF asset[p].ver = 0 THEN "skipped" ELSE "stale"

Completed(j, s) == IF s = "skipped" THEN [Release(j, s) EXCEPT !.due = j.due] ELSE Release(j, s)

\* Mutants: the asset is not stamped; metadata is stored under the identity the
\* file has when it is written.
MutantAssetNotStamped(p, s) == asset
MutantUpsertedAtWrite(p, m) ==
  [im EXCEPT ![p] = [ns |-> disk[p].ver, sec |-> disk[p].ver, side |-> m.side, content |-> m.content]]

\* _update_asset_done, and the upsert of extracted metadata: only an active
\* asset of exactly the extracted identity takes it.
AssetDone(p, s) == IF s = "done" THEN [asset EXCEPT ![p].mstate = "done"] ELSE asset
Persisted(p, m) == asset[p].active /\ asset[p].ver = m.ver /\ m.ver # 0
Upserted(p, m) ==
  IF Persisted(p, m)
  THEN [im EXCEPT ![p] = [ns |-> m.ver, sec |-> m.ver, side |-> m.side, content |-> m.content]]
  ELSE im

\* _mark_current_metadata_done: the row takes identity v and is completed without a token.
MarkedCurrent(p, v, m) ==
  [job EXCEPT ![p] = Completed([@ EXCEPT !.ver = v], Outcome(m, p, v))]

-----------------------------------------------------------------------------
(* Claims in use, and the fate of one database writer op.                  *)

Busy(w) == worker[w].pc \notin {"idle", "dead"}

\* The claims a worker thread holds: the job it runs and those it has not started.
ClaimsOf(w) == (IF Busy(w) THEN {worker[w].claim} ELSE {}) \cup {buf[w][i] : i \in 1..Len(buf[w])}
HeldTokens == {c.token : c \in UNION {ClaimsOf(w) : w \in Workers}}
UsedTokens == {job[p].token : p \in Paths} \cup {pend[p] : p \in Paths} \cup HeldTokens
\* Mutant: a token is taken as free once its row is.
MutantFresh == Tokens \ {job[p].token : p \in Paths}
Fresh == Tokens \ UsedTokens

Spend(o) ==
  /\ o # "ok" => left.fault > 0
  /\ left' = IF o = "ok" THEN left ELSE [left EXCEPT !.fault = @ - 1]
Applied(o) == o # "rejected"
Outcomes == {"ok", "rejected", "lost"}

GoesOn(w, s, m) == worker' = [worker EXCEPT ![w] = [pc |-> s, claim |-> @.claim, meta |-> m]]
ToState(w, s) == worker' = [worker EXCEPT ![w].pc = s]
\* Mutant: the worker forgets to drop its claim.
MutantToIdle(w) == ToState(w, "idle")
ToIdle(w) == worker' = [worker EXCEPT ![w] = Idle]
AfterOp(w, o) ==
  \/ o = "ok" /\ ToIdle(w)
  \/ o # "ok" /\ ToState(w, "retry")
  \/ o = "rejected" /\ ToState(w, "fail")

-----------------------------------------------------------------------------
Init ==
  /\ disk \in [Paths -> [ver : {1}, here : {TRUE}, side : {0}]]
  /\ asset = [p \in Paths |-> NoAsset]
  /\ im = [p \in Paths |-> NoMetadata]
  /\ job = [p \in Paths |-> NoJob]
  /\ worker = [w \in Workers |-> Idle]
  /\ buf = [w \in Workers |-> <<>>]
  /\ pend = [p \in Paths |-> None]
  /\ scan = NoScan
  /\ reader = NoReader
  /\ render = NoRender
  /\ sweep = NoSweep
  /\ phase = "up"
  /\ plan = [p \in Paths |-> "keep"]
  /\ left = Budget

-----------------------------------------------------------------------------
(* The file system: files and sidecars change under the gallery.           *)

fileFrame == <<rows, worker, buf, pend, scan, reader, render, sweep, phase, plan>>

Change(p, d) ==
  /\ left.change > 0
  /\ left' = [left EXCEPT !.change = @ - 1]
  /\ disk' = [disk EXCEPT ![p] = d]
  /\ UNCHANGED fileFrame

FileWritten(p) ==
  /\ disk[p].ver < MaxVer
  /\ Change(p, [disk[p] EXCEPT !.ver = @ + 1, !.here = TRUE])

FileRemoved(p) ==
  /\ disk[p].here
  /\ Change(p, [disk[p] EXCEPT !.here = FALSE])

\* The same file comes back (a remounted drive, an undone move).
FileRestored(p) ==
  /\ ~disk[p].here
  /\ Change(p, [disk[p] EXCEPT !.here = TRUE])

SidecarChanged(p) ==
  \E s \in Side \ {disk[p].side} : Change(p, [disk[p] EXCEPT !.side = s])

-----------------------------------------------------------------------------
(* Worker threads.                                                         *)

workerFrame == <<disk, scan, reader, render, sweep, phase, plan>>

Due == {p \in Paths : job[p].state = "queued" /\ job[p].due}

Started(j, t) ==
  [state |-> "running", ver |-> j.ver, attempts |-> j.attempts + 1, token |-> t, lease |-> "live", due |-> TRUE]

\* Rows ps[1..n] are claimed with tokens ts[1..n]: the first job starts, the
\* others wait in the buffer and in the registry the heartbeat renews from.
\* When the reply is lost the rows are claimed but no worker knows.
StartClaims(w, o, ps, ts, n) ==
  LET claims == [i \in 1..n |-> [path |-> ps[i], ver |-> job[ps[i]].ver,
                                 attempts |-> job[ps[i]].attempts + 1, token |-> ts[i]]]
      Claimed(p) == \E i \in 1..n : ps[i] = p
      TokenOf(p) == ts[CHOOSE i \in 1..n : ps[i] = p]
  IN /\ job' = [p \in Paths |-> IF Claimed(p) THEN Started(job[p], TokenOf(p)) ELSE job[p]]
     /\ IF o = "ok"
        THEN /\ worker' = [worker EXCEPT ![w] = [pc |-> "check", claim |-> claims[1], meta |-> NoMeta]]
             /\ buf' = [buf EXCEPT ![w] = Tail(claims)]
             /\ pend' = [p \in Paths |-> IF Claimed(p) /\ p # ps[1] THEN TokenOf(p) ELSE pend[p]]
        ELSE UNCHANGED <<worker, buf, pend>>

\* claim_next_metadata_jobs: up to ClaimBatch due rows, each with its own
\* fresh token, a lease and one more attempt.
ClaimJobs(w, o) ==
  /\ worker[w].pc = "idle" /\ buf[w] = <<>>
  /\ Spend(o)
  /\ \E n \in 1..ClaimBatch : \E ps \in [1..n -> Due], ts \in [1..n -> Fresh] :
       /\ \A i, k \in 1..n : i # k => ps[i] # ps[k] /\ ts[i] # ts[k]
       /\ n < ClaimBatch => \A p \in Due : \E i \in 1..n : ps[i] = p
       /\ StartClaims(w, o, ps, ts, n)
  /\ UNCHANGED <<asset, im, workerFrame>>

\* The next job of the batch; the registry entry of its path is dropped.
NextBuffered(w) ==
  /\ worker[w].pc = "idle" /\ buf[w] # <<>>
  /\ worker' = [worker EXCEPT ![w] = [pc |-> "check", claim |-> Head(buf[w]), meta |-> NoMeta]]
  /\ buf' = [buf EXCEPT ![w] = Tail(@)]
  /\ pend' = [pend EXCEPT ![Head(buf[w]).path] = None]
  /\ UNCHANGED <<rows, left, workerFrame>>

\* _is_job_current before anything else; then the heartbeat starts.
CheckCurrent(w) ==
  /\ worker[w].pc = "check"
  /\ LET c == worker[w].claim
     IN ToState(w, IF FileIs(c.path, c.ver) THEN "stat" ELSE "stale")
  /\ UNCHANGED <<rows, buf, pend, left, workerFrame>>

\* extract_metadata: stat first ...
ExtractStat(w) ==
  /\ worker[w].pc = "stat"
  /\ LET p == worker[w].claim.path
     IN IF disk[p].here
        THEN GoesOn(w, "read", [ver |-> disk[p].ver, side |-> 0, content |-> 0])
        ELSE ToState(w, "fail")
  /\ UNCHANGED <<rows, buf, pend, left, workerFrame>>

\* ... then the content and a snapshot of the sidecar.  The file may be
\* unreadable or gone (permanent), or the read may fail transiently.
ExtractRead(w) ==
  /\ worker[w].pc = "read"
  /\ LET p == worker[w].claim.path
     IN \/ /\ disk[p].here
           /\ GoesOn(w, "recheck", [ver |-> worker[w].meta.ver, side |-> disk[p].side, content |-> disk[p].ver])
           /\ left' = left
        \/ /\ ToState(w, "fail")
           /\ left' = left
        \/ /\ ToState(w, "retry")
           /\ left.fault > 0
           /\ left' = [left EXCEPT !.fault = @ - 1]
  /\ UNCHANGED <<rows, buf, pend, workerFrame>>

\* The file must still be the job's version and the claim still be ours; when
\* the claim cannot be read, the write op decides.
Recheck(w) ==
  /\ worker[w].pc = "recheck"
  /\ LET c == worker[w].claim
     IN \/ ~FileIs(c.path, c.ver) /\ ToState(w, "stale") /\ left' = left
        \/ FileIs(c.path, c.ver) /\ OwnsRow(job[c.path], c.token) /\ ToState(w, "write") /\ left' = left
        \/ FileIs(c.path, c.ver) /\ ~OwnsRow(job[c.path], c.token) /\ ToIdle(w) /\ left' = left
        \/ /\ FileIs(c.path, c.ver) /\ ToState(w, "write")
           /\ left.fault > 0
           /\ left' = [left EXCEPT !.fault = @ - 1]
  /\ UNCHANGED <<rows, buf, pend, workerFrame>>

\* A terminal job write, fenced by the claim token and the job's identity.
SettleRow(w, o, settled) ==
  LET c == worker[w].claim IN
  job' = IF Applied(o) /\ Fenced(job[c.path], c) THEN [job EXCEPT ![c.path] = settled] ELSE job

MarkStale(w, o) ==
  /\ worker[w].pc = "stale"
  /\ Spend(o)
  /\ SettleRow(w, o, Release(job[worker[w].claim.path], "stale"))
  /\ AfterOp(w, o)
  /\ UNCHANGED <<asset, im, buf, pend, workerFrame>>

\* _persist_and_complete: one op checks the claim, upserts image_metadata and
\* completes job and asset.
PersistAndComplete(w, o) ==
  /\ worker[w].pc = "write"
  /\ Spend(o)
  /\ LET c == worker[w].claim
         p == c.path
         m == Upserted(p, worker[w].meta)
         s == Outcome(m[p], p, c.ver)
     IN IF Applied(o) /\ OwnsRow(job[p], c.token)
        THEN /\ im' = m
             /\ SettleRow(w, o, Completed(job[p], s))
             /\ asset' = IF Fenced(job[p], c) THEN AssetDone(p, s) ELSE asset
        ELSE UNCHANGED rows
  /\ AfterOp(w, o)
  /\ UNCHANGED <<buf, pend, workerFrame>>

\* _handle_failure: a transient error goes back to the queue with a backoff
\* while attempts are left.  If this write fails too, only the lease recovers.
RecordFailure(w, o) ==
  /\ worker[w].pc \in {"retry", "fail"}
  /\ Spend(o)
  /\ LET c == worker[w].claim
         j == job[c.path]
     IN SettleRow(w, o, IF worker[w].pc = "retry" /\ c.attempts < MaxAttempts
                        THEN [Release(j, "queued") EXCEPT !.due = FALSE]
                        ELSE Release(j, "failed"))
  /\ ToIdle(w)
  /\ UNCHANGED <<asset, im, buf, pend, workerFrame>>

\* _renew_lease: the running job's lease and every registered pending claim's.
Renew(w) ==
  /\ worker[w].pc \in Beating
  /\ LET c == worker[w].claim
         Renewed(p) == \/ p = c.path /\ OwnsRow(job[p], c.token)
                       \/ OwnsRow(job[p], pend[p])
     IN job' = [p \in Paths |-> IF Renewed(p) THEN [job[p] EXCEPT !.lease = "live"] ELSE job[p]]
  /\ UNCHANGED <<asset, im, worker, buf, pend, left, workerFrame>>

\* release_metadata_job_claims gives the attempt back.
GivenBack(j) == [Release(j, "queued") EXCEPT !.attempts = IF @ > 0 THEN @ - 1 ELSE 0]

\* The thread ends (stop, or an error nothing catches); its unstarted claims
\* are released, or left to their leases when that op is rejected.
WorkerExit(w, o) ==
  /\ worker[w].pc # "dead"
  /\ left.fault > 0
  /\ left' = [left EXCEPT !.fault = @ - 1]
  /\ LET Dropped(p) == \E i \in 1..Len(buf[w]) : buf[w][i].path = p
         Mine(p) == \E i \in 1..Len(buf[w]) : buf[w][i].path = p /\ OwnsRow(job[p], buf[w][i].token)
     IN /\ job' = [p \in Paths |-> IF Applied(o) /\ Mine(p) THEN GivenBack(job[p]) ELSE job[p]]
        /\ pend' = [p \in Paths |-> IF Dropped(p) THEN None ELSE pend[p]]
  /\ worker' = [worker EXCEPT ![w] = [Idle EXCEPT !.pc = "dead"]]
  /\ buf' = [buf EXCEPT ![w] = <<>>]
  /\ UNCHANGED <<asset, im, workerFrame>>

\* supervise_once: restore dead threads, then recover what nobody owns.
Supervise(o) ==
  /\ Spend(o)
  /\ worker' = [w \in Workers |-> IF worker[w].pc = "dead" THEN Idle ELSE worker[w]]
  /\ job' = IF Applied(o) THEN [p \in Paths |-> RecoveredIfAbandoned(job[p])] ELSE job
  /\ UNCHANGED <<asset, im, buf, pend, workerFrame>>

-----------------------------------------------------------------------------
(* Time.                                                                   *)

timeFrame == <<disk, asset, im, worker, buf, pend, scan, reader, render, sweep, phase, plan, left>>

LeaseExpires(p) ==
  /\ job[p].state = "running" /\ job[p].lease = "live"
  /\ job' = [job EXCEPT ![p].lease = "expired"]
  /\ UNCHANGED timeFrame

BackoffElapses(p) ==
  /\ ~job[p].due
  /\ job' = [job EXCEPT ![p].due = TRUE]
  /\ UNCHANGED timeFrame

-----------------------------------------------------------------------------
(* A catalog job: discover, upsert or reconcile the asset, dispatch.       *)

scanFrame == <<disk, worker, buf, pend, reader, render, sweep, phase, plan>>

ScanDiscover(p) ==
  /\ scan.pc = "idle" /\ left.scan > 0
  /\ left' = [left EXCEPT !.scan = @ - 1]
  /\ scan' = [pc |-> "write", path |-> p, ver |-> IF disk[p].here THEN disk[p].ver ELSE 0]
  /\ UNCHANGED <<rows, scanFrame>>

\* upsert_catalog_records_conn for what was seen, _reconcile_assets_conn for
\* what was not: a changed identity resets metadata_state, a missing file
\* goes offline.
ScanWrite ==
  /\ scan.pc = "write"
  /\ LET p == scan.path
         a == asset[p]
     IN IF scan.ver = 0
        THEN /\ asset' = [asset EXCEPT ![p].active = FALSE]
             /\ scan' = NoScan
        ELSE /\ asset' = [asset EXCEPT ![p] =
                            [ver |-> scan.ver, active |-> TRUE,
                             mstate |-> IF a.ver = scan.ver THEN a.mstate ELSE "pending"]]
             /\ scan' = [scan EXCEPT !.pc = "stat"]
  /\ UNCHANGED <<im, job, left, scanFrame>>

\* dispatch_metadata_index_paths stats the file again, before its op.
DispatchStat ==
  /\ scan.pc = "stat"
  /\ scan' = IF disk[scan.path].here
             THEN [scan EXCEPT !.pc = "dispatch", !.ver = disk[scan.path].ver]
             ELSE NoScan
  /\ UNCHANGED <<rows, left, scanFrame>>

\* Mutant: a job in flight is moved to the new version.
MutantDispatchedInPlace(j, v) ==
  IF j.state \in {"queued", "running"} THEN [j EXCEPT !.ver = v]
  ELSE [Release(j, "queued") EXCEPT !.ver = v, !.attempts = 0]

\* What dispatch makes of an existing row j for version v that is not current:
\* coalesce, refuse an exhausted job, or (re)queue.
Dispatched(j, v) ==
  LET same == j.state # "none" /\ j.ver = v
      k == IF same THEN RecoveredIfAbandoned(j) ELSE j
  IN IF same /\ (k.state \in {"queued", "running"} \/ (k.state = "failed" /\ k.attempts >= MaxAttempts))
     THEN k
     ELSE [Release(k, "queued") EXCEPT !.ver = v, !.attempts = IF same THEN @ ELSE 0]

DispatchWrite ==
  /\ scan.pc = "dispatch"
  /\ LET p == scan.path
         v == scan.ver
     IN IF IsCurrent(im[p], p, v)
        THEN /\ job' = MarkedCurrent(p, v, im[p])
             /\ asset' = AssetDone(p, Outcome(im[p], p, v))
        ELSE /\ job' = [job EXCEPT ![p] = Dispatched(@, v)]
             /\ asset' = asset
  /\ scan' = NoScan
  /\ UNCHANGED <<im, left, scanFrame>>

\* The catalog job fails or loses its own claim part way.
ScanAbandoned ==
  /\ scan.pc # "idle"
  /\ scan' = NoScan
  /\ UNCHANGED <<rows, left, scanFrame>>

-----------------------------------------------------------------------------
(* GET /api/metadata: extract unless the stored metadata is usable.        *)

readerFrame == <<disk, worker, buf, pend, scan, render, sweep, phase, plan>>

ReaderStat(p) ==
  /\ reader.pc = "idle" /\ left.extra > 0
  /\ disk[p].here
  /\ ~(IsCurrent(im[p], p, disk[p].ver) /\ im[p].content # 0)
  /\ left' = [left EXCEPT !.extra = @ - 1]
  /\ reader' = [pc |-> "read", path |-> p, meta |-> [NoMeta EXCEPT !.ver = disk[p].ver]]
  /\ UNCHANGED <<rows, readerFrame>>

ReaderRead ==
  /\ reader.pc = "read"
  /\ LET p == reader.path
     IN \/ /\ disk[p].here
           /\ reader' = [pc |-> "write", path |-> p,
                         meta |-> [ver |-> reader.meta.ver, side |-> disk[p].side, content |-> disk[p].ver]]
        \/ reader' = NoReader
  /\ UNCHANGED <<rows, left, readerFrame>>

\* upsert_extracted_metadata(mark_job_done=True), no claim involved.
ReaderWrite ==
  /\ reader.pc = "write"
  /\ LET p == reader.path
         v == reader.meta.ver
         m == Upserted(p, reader.meta)
     IN /\ im' = m
        /\ IF Persisted(p, reader.meta) /\ FileIs(p, v)
           THEN /\ job' = MarkedCurrent(p, v, m[p])
                /\ asset' = AssetDone(p, Outcome(m[p], p, v))
           ELSE UNCHANGED <<job, asset>>
  /\ reader' = NoReader
  /\ UNCHANGED <<left, readerFrame>>

-----------------------------------------------------------------------------
(* A derivative render records the dimensions of the file it decoded.      *)

renderFrame == <<disk, worker, buf, pend, scan, reader, sweep, phase, plan>>

RenderStat(p) ==
  /\ render = NoRender /\ left.extra > 0
  /\ disk[p].here /\ asset[p].active
  /\ left' = [left EXCEPT !.extra = @ - 1]
  /\ render' = [path |-> p, ver |-> disk[p].ver]
  /\ UNCHANGED <<rows, renderFrame>>

\* upsert_image_dimensions: seconds identity only, nothing extracted, and the
\* asset takes the identity and metadata_state 'done'.
RenderWrite ==
  /\ render # NoRender
  /\ LET p == render.path
     IN /\ im' = [im EXCEPT ![p].sec = render.ver]
        /\ asset' = [asset EXCEPT ![p] =
                       [ver |-> render.ver, mstate |-> "done",
                        active |-> IF asset[p].ver = 0 THEN TRUE ELSE asset[p].active]]
  /\ render' = NoRender
  /\ UNCHANGED <<job, left, renderFrame>>

-----------------------------------------------------------------------------
(* Housekeeping.                                                           *)

housekeepingFrame == <<disk, worker, buf, pend, scan, reader, render, phase, plan>>

\* The first op of the integrity pass, over every path: recover abandoned
\* jobs, requeue assets that lost their metadata, stamp assets of done jobs,
\* fail active jobs that have no asset row.
Integrity ==
  /\ sweep.pc = "idle" /\ left.extra > 0
  /\ left' = [left EXCEPT !.extra = @ - 1]
  /\ sweep' = [sweep EXCEPT !.pc = "look"]
  /\ LET j1(p) == RecoveredIfAbandoned(job[p])
         lost(p) == asset[p].mstate = "done" /\ ~Matches(im[p], asset[p].ver)
         j2(p) == IF ~lost(p) \/ j1(p).state = "running" THEN j1(p)
                  ELSE IF j1(p).state = "none" THEN [NoJob EXCEPT !.state = "queued", !.ver = asset[p].ver]
                  ELSE [j1(p) EXCEPT !.state = "queued"]
         done(p) == \/ asset[p].mstate = "done" /\ ~lost(p)
                    \/ j2(p).state = "done" /\ Matches(im[p], j2(p).ver) /\ asset[p].ver = j2(p).ver
         orphan(p) == asset[p].ver = 0 /\ j2(p).state \in {"queued", "running"}
     IN /\ job' = [p \in Paths |-> IF orphan(p) THEN [j2(p) EXCEPT !.state = "failed"] ELSE j2(p)]
        /\ asset' = [p \in Paths |-> [asset[p] EXCEPT !.mstate = IF done(p) THEN "done" ELSE "pending"]]
  /\ UNCHANGED <<im, housekeepingFrame>>

\* Then, on a read snapshot, which active jobs have no file ...
Active(p) == job[p].state \in {"queued", "running"}

IntegrityLook ==
  /\ sweep.pc = "look"
  /\ sweep' = [pc |-> "fail", missing |-> {p \in Paths : Active(p) /\ ~disk[p].here}]
  /\ UNCHANGED <<rows, left, housekeepingFrame>>

\* ... and a later op fails them.
IntegrityFail ==
  /\ sweep.pc = "fail"
  /\ job' = [p \in Paths |-> IF p \in sweep.missing /\ Active(p)
                            THEN [job[p] EXCEPT !.state = "failed"] ELSE job[p]]
  /\ sweep' = NoSweep
  /\ UNCHANGED <<asset, im, left, housekeepingFrame>>

\* cleanup_stale_index: the file is gone, its metadata and job rows go too.
CleanupStale(p) ==
  /\ ~disk[p].here
  /\ im' = [im EXCEPT ![p] = NoMetadata]
  /\ job' = [job EXCEPT ![p] = NoJob]
  /\ UNCHANGED <<asset, sweep, left, housekeepingFrame>>

\* forget_offline_library_assets: an offline asset is deleted with its rows.
ForgetOffline(p) ==
  /\ asset[p].ver # 0 /\ ~asset[p].active
  /\ asset' = [asset EXCEPT ![p] = NoAsset]
  /\ im' = [im EXCEPT ![p] = NoMetadata]
  /\ job' = [job EXCEPT ![p] = NoJob]
  /\ UNCHANGED <<sweep, left, housekeepingFrame>>

-----------------------------------------------------------------------------
(* Process crash and startup recovery.                                     *)

Crash ==
  /\ left.fault > 0
  /\ left' = [left EXCEPT !.fault = @ - 1]
  /\ phase' = "reset"
  /\ worker' = [w \in Workers |-> Idle]
  /\ buf' = [w \in Workers |-> <<>>]
  /\ pend' = [p \in Paths |-> None]
  /\ scan' = NoScan /\ reader' = NoReader /\ render' = NoRender /\ sweep' = NoSweep
  /\ plan' = [p \in Paths |-> "keep"]
  /\ UNCHANGED <<disk, rows>>

recoveryFrame == <<disk, im, worker, buf, pend, scan, reader, render, sweep, left>>

\* recover_running_metadata_jobs(expired_only=False): no worker owns a claim.
ResetRunning ==
  /\ phase = "reset"
  /\ job' = [p \in Paths |-> IF job[p].state = "running" THEN Recovered(job[p]) ELSE job[p]]
  /\ phase' = "plan"
  /\ UNCHANGED <<asset, plan, recoveryFrame>>

\* plan_inconsistent_asset_repairs, on a read snapshot.
PlanRepairs ==
  /\ phase = "plan"
  /\ LET Repair(p) ==
           CASE job[p].state \notin {"done", "stale"} -> "keep"
             [] OTHER -> IF asset[p].ver = 0 THEN "skip"
                         ELSE IF ~IsCurrent(im[p], p, job[p].ver) THEN "demote"
                         ELSE IF job[p].state = "done" /\ asset[p].mstate = "done" THEN "keep"
                         ELSE "repair"
     IN plan' = [p \in Paths |-> Repair(p)]
  /\ phase' = "apply"
  /\ UNCHANGED <<asset, job, recoveryFrame>>

\* apply_inconsistent_asset_repairs, then the workers start.
ApplyRepairs ==
  /\ phase = "apply"
  /\ LET Repaired(p) ==
           CASE plan[p] = "repair" -> [job[p] EXCEPT !.state = "done"]
             [] plan[p] = "skip" /\ job[p].state = "done" -> [job[p] EXCEPT !.state = "skipped"]
             [] plan[p] = "demote" -> [job[p] EXCEPT !.state = "queued"]
             [] OTHER -> job[p]
         Stamped(p) == plan[p] = "repair" /\ asset[p].ver = job[p].ver
     IN /\ job' = [p \in Paths |-> Repaired(p)]
        /\ asset' = [p \in Paths |-> IF Stamped(p) THEN [asset[p] EXCEPT !.mstate = "done"] ELSE asset[p]]
  /\ plan' = [p \in Paths |-> "keep"]
  /\ phase' = "up"
  /\ UNCHANGED recoveryFrame

-----------------------------------------------------------------------------
WorkerStep(w) ==
  /\ phase = "up"
  /\ \/ \E o \in {"ok", "lost"} : ClaimJobs(w, o)
     \/ NextBuffered(w)
     \/ CheckCurrent(w)
     \/ ExtractStat(w)
     \/ ExtractRead(w)
     \/ Recheck(w)
     \/ \E o \in Outcomes : MarkStale(w, o) \/ PersistAndComplete(w, o) \/ RecordFailure(w, o)

Service ==
  /\ phase = "up"
  /\ \/ \E w \in Workers : Renew(w) \/ \E o \in {"ok", "rejected"} : WorkerExit(w, o)
     \/ \E p \in Paths : ScanDiscover(p) \/ ReaderStat(p) \/ RenderStat(p)
     \/ ScanWrite \/ DispatchStat \/ DispatchWrite \/ ScanAbandoned
     \/ ReaderRead \/ ReaderWrite
     \/ RenderWrite
     \/ Integrity \/ IntegrityLook \/ IntegrityFail
     \/ \E p \in Paths : CleanupStale(p) \/ ForgetOffline(p)

SupervisorStep == phase = "up" /\ \E o \in {"ok", "rejected"} : Supervise(o)

Environment ==
  \E p \in Paths : FileWritten(p) \/ FileRemoved(p) \/ FileRestored(p) \/ SidecarChanged(p)

Startup == ResetRunning \/ PlanRepairs \/ ApplyRepairs

Next ==
  \/ \E w \in Workers : WorkerStep(w)
  \/ \E p \in Paths : LeaseExpires(p) \/ BackoffElapses(p)
  \/ SupervisorStep
  \/ Service
  \/ Environment
  \/ Crash
  \/ Startup

Spec == Init /\ [][Next]_vars

\* A lease that nobody renews lapses.
BeatenBy(w, p) ==
  worker[w].pc \in Beating /\ (OwnsRow(job[p], pend[p])
                              \/ (worker[w].claim.path = p /\ OwnsRow(job[p], worker[w].claim.token)))
LeaseLapses(p) == (\A w \in Workers : ~BeatenBy(w, p)) /\ LeaseExpires(p)

\* What the threads guarantee: each worker keeps polling and running its job,
\* the supervisor wakes on its interval, clocks advance, startup completes.
Fairness ==
  /\ \A w \in Workers : WF_vars(WorkerStep(w))
  /\ \A p \in Paths : WF_vars(LeaseLapses(p)) /\ WF_vars(BackoffElapses(p))
  /\ WF_vars(SupervisorStep)
  /\ WF_vars(Startup)

FairSpec == Spec /\ Fairness

-----------------------------------------------------------------------------
(* Properties.                                                             *)

Worker == [pc : WorkerStates \ {"idle", "dead"}, claim : Claim, meta : Meta]
          \cup [pc : {"idle", "dead"}, claim : {None}, meta : {NoMeta}]

\* Every variable has its type; a worker has a claim exactly while it runs a
\* job, and a scan, request or render in progress has its file.
TypeOK ==
  /\ disk \in [Paths -> [ver : Ver, here : BOOLEAN, side : Side]]
  /\ asset \in [Paths -> Asset]
  /\ im \in [Paths -> Metadata]
  /\ job \in [Paths -> Job]
  /\ worker \in [Workers -> Worker]
  /\ buf \in [Workers -> Seq(Claim)]
  /\ pend \in [Paths -> MaybeToken]
  /\ scan \in [pc : {"write", "stat", "dispatch"}, path : Paths, ver : Ver] \cup {NoScan}
  /\ reader \in [pc : {"read", "write"}, path : Paths, meta : Meta] \cup {NoReader}
  /\ render \in [path : Paths, ver : Ver] \cup {NoRender}
  /\ sweep \in [pc : {"idle", "look", "fail"}, missing : SUBSET Paths]
  /\ phase \in {"up", "reset", "plan", "apply"}
  /\ plan \in [Paths -> {"keep", "skip", "demote", "repair"}]
  /\ left \in [{"change", "scan", "fault", "extra"} -> Nat]

\* A claim still owns its row.
Owned(c) == OwnsRow(job[c.path], c.token)

\* Lease expiry, recovery, reclaiming and crashes never leave two worker
\* threads owning one row, however late either of them wakes up.
SoleOwner ==
  \A v, w \in Workers : v # w =>
    \A c \in ClaimsOf(v), d \in ClaimsOf(w) : Owned(c) /\ Owned(d) => c.path # d.path

\* A worker that owns its row works for the version and attempt the row has
\* now: dispatching a newer version always takes the row from its owner.
OwnerViewIsCurrent ==
  \A w \in Workers : \A c \in ClaimsOf(w) :
    Owned(c) => job[c.path].ver = c.ver /\ job[c.path].attempts = c.attempts

\* Metadata stored under the identity of the file now on disk was read from
\* that content, never from an earlier one (stat comes before the read).
CurrentMetadataIsFresh ==
  \A p \in Paths :
    disk[p].here /\ im[p].ns = disk[p].ver /\ im[p].sec = disk[p].ver => im[p].content = disk[p].ver

LetsGo(w, p) == \E c \in ClaimsOf(w) : c.path = p /\ Owned(c) /\ c \notin ClaimsOf(w)'

\* While the process is up, a row with a live lease goes back to the queue for
\* the same version only when its own holder lets it go in that step: neither
\* supervisor, dispatch nor integrity pass takes it away.
LiveLeaseProtected ==
  [][\A p \in Paths :
       /\ phase = "up" /\ job[p].state = "running" /\ job[p].lease = "live"
       /\ job'[p].state = "queued" /\ job'[p].ver = job[p].ver
       => \E w \in Workers : LetsGo(w, p)]_vars

\* A worker that no longer owns its row changes no row of any table when it
\* finishes, however it finishes.
StaleWorkerWritesNothing ==
  [][\A w \in Workers :
       Busy(w) /\ ~Owned(worker[w].claim) /\ worker'[w] # worker[w] /\ worker'[w].pc # "dead" /\ phase' = "up"
       => UNCHANGED rows]_vars

\* While the process is up, whoever completes a job (worker, dispatch shortcut
\* or metadata request), in that same step the metadata is current for the
\* job's version and sidecar and the asset has that version, stamped done.
CompletionMaterializes ==
  [][\A p \in Paths :
       phase = "up" /\ job[p].state # "done" /\ job'[p].state = "done"
       => /\ IsCurrent(im[p], p, job[p].ver)'
          /\ asset'[p].ver = job'[p].ver /\ asset'[p].mstate = "done"]_vars

\* Every queued or running job reaches another state, whatever crashes,
\* rejected or lost writes, expiring leases and dying threads come between.
JobsSettle == \A p \in Paths : Active(p) ~> ~Active(p)

\* A queued job for the version that both the file and its active asset have
\* ends with that version's metadata served, or failed, unless file, sidecar or
\* asset changes meanwhile: no interleaving silently drops the update.  (A
\* sidecar that changes under a running job leaves it stale for the next scan.)
NoLostUpdate ==
  \A p \in Paths : \A d \in [ver : Ver, here : {TRUE}, side : Side] :
    /\ disk[p] = d /\ job[p].state = "queued" /\ job[p].ver = d.ver
    /\ asset[p].active /\ asset[p].ver = d.ver
    ~> \/ asset[p].mstate = "done" /\ IsCurrent(im[p], p, d.ver) /\ im[p].content = d.ver
       \/ job[p].state = "failed"
       \/ disk[p] # d \/ ~asset[p].active

-----------------------------------------------------------------------------
(* What the documents say and the code does not do.                        *)

\* docs/METADATA_PARSING.md: a job is done after its worker extracted the
\* metadata, so a job that becomes done has content behind it.
CompletedJobsWereExtracted ==
  [][\A p \in Paths :
       phase = "up" /\ job[p].state # "done" /\ job'[p].state = "done" => im'[p].content # 0]_vars

\* _apply_in_chunks: checking the files before the op that fails their jobs
\* changes nothing, so a job is not failed as missing while its file is there.
IntegrityFailsOnlyMissing ==
  [][\A p \in Paths :
       sweep.pc = "fail" /\ sweep'.pc = "idle" /\ phase' = "up" /\ Active(p) /\ job'[p].state = "failed"
       => ~FileIs(p, job[p].ver)]_vars
=============================================================================
