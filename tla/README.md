# Verification of the gallery backend

TLA+ models of the gallery's Python backend (`src/backend/`), TLC runs over small
instances of them, and TLAPS proofs for every size. Line references are to
`src/backend/` unless they start with another directory.

## 1. The system

The backend is one FastAPI process over a directory tree of images and one SQLite
database. Everything it stores is derived from the files, so its correctness is
about keeping derived rows in step with files that change under it, from many
threads, through crashes.

| Component | Source | State | Operations | What makes it correct | Modelled in |
| --- | --- | --- | --- | --- | --- |
| Metadata job queue | `metadata_store/metadata_queue.py` | `metadata_index_jobs`: one row per path with identity, state, attempts, claim token, lease, backoff | dispatch, claim, renew, complete, fail, requeue, mark stale, release, recover, startup repair | one owner per row; a late worker is fenced; a done job has its metadata; nothing is lost | `MetadataJobs` |
| Metadata workers | `indexer.py`, `lease_heartbeat.py` | per-thread claim buffer, shared registry of pending claims, heartbeat, supervisor | claim a batch, run a job, beat, recover, restore threads | every job settles although threads, writes and the process fail | `MetadataJobs` |
| Extraction | `metadata_extract.py`, `metadata_parse.py` | none | stat, read, snapshot the sidecar | content is stored under an identity that is not newer than it | `MetadataJobs` (order and failures) |
| Metadata and asset rows | `metadata_store/metadata_persist.py`, `_asset_store.py`, `file_index.py`, `rebuild_store.py` | `image_metadata`, `assets` | upsert, stamp done, go offline, forget, clean up | rows agree with one file version | `MetadataJobs` |
| Integrity checker | `integrity_checker.py` | none | recover, requeue, stamp, fail, in several ops | repairs what is broken and nothing else | `MetadataJobs` |
| Database writer | `metadata_store/db_writer.py` | two lanes of ops, their Futures, one thread, one connection | submit, batch, retry, requeue, stop, crash | a result seen is durable, each op applies once, in order | `DbWriter` |
| Maintenance gate | `catalog_maintenance_gate.py` | owner, producer count | enter, leave, try | maintenance excludes every producer but itself | `MaintenanceGate` |
| Catalog jobs | `metadata_store/job_store.py`, `scan_worker.py`, `rebuild_store.py`, `libraries.py`, `refresh.py` | `library_jobs`, parents, staging rows, claims, library state | coalesce, supersede, claim, renew, walk, write, activate, finish, recover, aggregate | a ready library agrees with the disk; one running job per library; a lost claim writes nothing | `CatalogJobs` |
| Watcher | `watcher.py` | observed roots, debounce buffer | start, stop, reconcile, record, drain | every event leads to a scan that starts after it | `CatalogJobs` |
| Derivative scheduler | `derivative_scheduler/` | `derivative_jobs`, `asset_derivatives`, cache files, served and generating paths, put off unlinks | schedule, reconcile, claim with siblings, render, complete, fail, yield, recover, sweep, evict, supersede, clear | a ready row has its pixels; jobs end; quota; no file goes while it is needed | `DerivativeRows`, `Derivatives` (refines `LeasedQueue`) |
| Serving and fast path | `thumbnails.py`, `derivative_fastpath.py`, `derivative_scheduler/lookup.py` | open responses, fast path entries | check, acquire, look up, schedule, wait, stream, release | what is streamed is there and is current | `DerivativeServing` |
| Search indexes | `search_indexer.py`, `metadata_store/search_index_store.py` | index jobs, cursor, index state, extraction rows | create, claim, batch, extract, record, cancel, finish, recover | an index is ready only when complete | `SearchIndex` |
| Listings | `ranked_search.py`, `search_store.py`, `inspector_store.py`, `browse_store.py`, `prompt_discovery.py`, `workflow_raw_search.py` | none; cursors live in the client | page, count | pages read over a changing catalog neither repeat nor omit | `CatalogPages` |

`PROJECT.json` lists every other part (query code, parsers, ranking, schema,
frontend) with the reason it is not modelled: it keeps no shared state, or is
pure text, numeric or I/O code.

How they interact. A request, the watcher, the timer or the start of the process
queues a catalog job; the job writes `assets` and dispatches metadata jobs; a
worker claims them and writes `image_metadata`, `assets` and its job in one op; a
metadata request and a render write the same rows without a claim; the integrity
pass, cleanup and startup recovery write them as housekeeping. A metadata commit
invalidates rows of the search indexes and asks for index jobs; listings read all of
these. Derivatives are scheduled by requests and by reconciliation for what the
catalog says, and served from cache files that eviction and supersession remove. Every write is an op
of the database writer, made inside the producer gate, which destructive
maintenance closes.

What is hard: a worker that wakes up after its lease expired; writes that are
applied although their caller saw a timeout; files and sidecars that change between
any two steps; checks made before an op and used in it; a batch that fails, is
retried or is undone by SQLite; stop, crash and restart with ops queued. The
`hazards` of `PROJECT.json` list them at their lines, with the properties that
would catch them going wrong.

## 2. Modules

| Module | What it is |
| --- | --- |
| `MetadataJobs` | the metadata lifecycle: jobs, workers, and every other writer of the same three tables |
| `MetadataJobsProofs` | types, ownership and fencing, leases, completions and freshness, proved |
| `MaintenanceGate` | the gate, alone |
| `DbWriter` | the writer, its callers, and the gate (extends `MaintenanceGate`) |
| `DbWriterProofs` | the gate alone, what the writer promises its callers, and the gate between them, proved |
| `LeasedQueue` | abstract: what any queue of leased jobs promises |
| `DerivativeRows` | the scheduler's write transactions, as operators on the two tables |
| `Derivatives` | its threads, callers, locks and files (extends `DerivativeRows`, refines `LeasedQueue`) |
| `DerivativesProofs` | its types, the refinement, that no work is lost, and the ledger, proved |
| `DerivativePixelsProofs` | that what is ready has a file with its pixels, proved |
| `DerivativeServing` | requests and the fast path on top of `Derivatives` |
| `DerivativeServingProofs` | what a response streams, and unlinks that are put off, proved |
| `CatalogJobs` | catalog jobs, watcher, library state and the catalog they write |
| `CatalogJobsProofs` | types, ownership and fencing of catalog jobs, and completeness of ready libraries, proved |
| `SearchIndex` | index jobs beside metadata commits |
| `SearchIndexProofs` | types, current signatures and coverage of ready indexes, proved |
| `CatalogPages` | eight listings, read page by page while the catalog changes |
| `CatalogPagesProofs` | order, no repetition, no omission and counts of listings, proved |
| `MC*` | bounds, definitions for constants and symmetry for TLC |

### MetadataJobs

One path has a file (`disk`: version, presence, sidecar), and rows `asset`, `im`
(`image_metadata`) and `job`. A *version* stands for the pair (`mtime_ns`, `size`) by
which the code recognises a file; it only grows when a file is rewritten, and 0
means "no row". A file may vanish and come back unchanged. `im` keeps the
nanosecond identity (`ns`), the seconds-and-size identity (`sec`) a render writes
alone, the sidecar identity, and, as the only piece of state the code does not have,
the version whose *content* was read: it is what the freshness properties are about.

The clock is seen only through two facts: a lease is `live` or `expired`, and a
backoff is due or not. Expiry may happen at any moment, even under a beating
heartbeat (a suspended machine); only liveness assumes that beats keep a lease.

One op of the database writer is one atomic action. Its caller may see it succeed
(`ok`), fail without effect (`rejected`) or time out although it was applied
(`lost`). That the writer gives this, one op at a time and at most once, is what
`DbWriter` is about.

| Actor | Actions | Code |
| --- | --- | --- |
| worker thread | `ClaimJobs`, `NextBuffered`, `CheckCurrent`, `ExtractStat`, `ExtractRead`, `Recheck`, `MarkStale`, `PersistAndComplete`, `RecordFailure`, `WorkerExit` | `indexer.py:475-749`, `metadata_queue.py:596-967` |
| heartbeat, supervisor | `Renew`, `Supervise` | `indexer.py:494-612` |
| catalog job | `ScanDiscover`, `ScanWrite`, `DispatchStat`, `DispatchWrite`, `ScanAbandoned` | `file_index.py:120`, `metadata_queue.py:197` |
| metadata request | `ReaderStat`, `ReaderRead`, `ReaderWrite` | `metadata_parse.py:65`, `metadata_persist.py:251` |
| derivative render | `RenderStat`, `RenderWrite` | `thumbnails.py:205`, `metadata_persist.py:519` |
| housekeeping | `Integrity`, `IntegrityLook`, `IntegrityFail`, `CleanupStale`, `ForgetOffline` | `integrity_checker.py`, `file_index.py:457`, `library_store.py:237` |
| process | `Crash`, `ResetRunning`, `PlanRepairs`, `ApplyRepairs` | `indexer.py:756` |
| environment | `FileWritten`, `FileRemoved`, `FileRestored`, `SidecarChanged`, `LeaseExpires`, `BackoffElapses` | the file system and the clock |

An extraction is three steps: the stat, the content with the snapshot of the sidecar,
and the comparison with the disk (`Recheck`). Content and sidecar can be one step: a
rewrite of the file between them is a new version, which the comparison finds.
Claim tokens are drawn from `Tokens` minus those
still written anywhere, which stands for uuid4 never repeating with a finite set.

### MaintenanceGate and DbWriter

The gate keeps the owner, the producer count, and for each thread the stack of
gates it is inside with whether each bypassed the count.

An op is a model value submitted at most once; the database is the sequence of ops
committed. The writer thread has the control of `_run_batch` and `_attempt`: take a
first op, BEGIN, run each op in a savepoint, pull more while the first attempt has
room, COMMIT, settle. `AttemptFails` is a BEGIN or COMMIT that fails (retried when
it is contention and retries are left, else the batch fails), `OpFails` an op that
raises, `OpEndsTransaction` SQLite undoing the transaction inside an op,
`OpCrashesThread` a `BaseException`. Callers are the steps of `run_write`
(`CallWrite`, `PassGate`, `Submit`, `Return`, `TimeOut`, or the direct path), of
`post_write` (`Post`, `PostSubmit`), and jobs that hold the gate around several
writes (`StartJob`, `EndJob`).

### LeasedQueue, DerivativeRows, Derivatives, DerivativeServing

`DerivativeRows` keeps one row and one job for each (asset, variant, identity), and
gives each write transaction as an operator from tables to tables, with the
`CapacityLedger` a batch carries along. `Derivatives` has the order in which threads
use them. An identity is a version of the source; a cache file is named after the
derivative and the identity its path was computed for, which may differ from the
row's. A lease is not timed: a running job may be found expired at any time.

| Actor | Actions | Code |
| --- | --- | --- |
| worker thread | `ClaimJobs`, `Validate`, `CachePaths`, `RenderKeys`, `Decode`, `Render`, `RenderFails`, `Revalidate`, `Complete`, `Fail`, `FailRefused`, `Continue`, `ReleaseClaims`, `Close`, `EnforceQuota` | `execution.py` |
| holder of the eviction lock | `SelectAndEvict`, `UnlinkEvicted`, `FinalizeAndVerify` | `capacity.py` |
| callers | `Schedule`, `ScheduleCoalesce`, `Reconcile`, `ReconcileBatch`, `ReconcilePending`, `RetireSuperseded`, `DiscardOne`, `Repair`, `ClearRows`, `ClearFiles` | `scheduling.py`, `reconcile.py`, `supersede.py`, `maintenance.py` |
| supervisor, integrity pass, process | `SweepRead`, `SweepWrite`, `RecoverRead`, `RecoverWrite`, `AuditRead`, `AuditReady`, `AuditDone`, `Restart` | `recovery.py`, `lifecycle.py`, `integrity_checker.py` |
| request | `Arrive`, `FastCheck`, `FastAcquire`, `Resolve`, `Lookup`, `AcquireFound`, `RequestSchedule`, `Scheduled`, `Poll`, `TimesOut`, `Relookup`, `Reacquire`, `EndResponse`, `FinishUnlink` | `thumbnails.py`, `derivative_fastpath.py`, `lookup.py` |
| environment | `SourceChange`, `CatalogScan`, `FastForget` | the file system, the catalog, the cache |

`LeasedQueue` forgets all of this: an item waits, is taken under a fresh token, and is
ended once by the holder of the current one; a result is offered only by that step.
`LeasesFence` is the refinement: phases are job states, leases are claim tokens, what
workers hold are the claims in their batches, offers are row states.

### CatalogJobs

A folder may be an import path of its library (`paths`) and may be hidden by an exclusion
pattern (`excluded`); its content is a version, and the catalog keeps which version it
has of each and whether it is offline. A row of
`library_jobs` is claimed at most once in its life, so a claim is good while its job
is running with a live lease. Requests (`Ask`, `Scheduled`, `Startup`, `Drain`,
`ScanAll*`) share `RequestScan`, which is `create_or_coalesce_catalog_job`. A worker
goes through the steps of `run_once`: `Claim`, `Look`, `MarkOffline`, `WasReady`,
`Start`, then for each folder `Walk` (outside any transaction), `Write`, `Progress`,
then `Activate` (rebuilds) and `Finish`; or `Raise` (at any of these steps), `Clean` (whose
deletion of staging rows may fail, and the job fails all the same), `Fail`, `ClaimLost`, and
in any case `Leave`, `Close`. After each report it refreshes its parents in another op
(`Tell`). `Sweep*` and `Restart` are recovery; `Configure` and `RebuildImportedData`
need maintenance.

`Configure` gives a library any import paths and any patterns. Assets that come back into
its scope are active again as they were, and no job is queued, for them or for folders
that were never indexed. It then asks for the watcher to be brought in line: `StopWatcher`
ends one with other roots, and the buffer goes with it, that of every library;
`StartWatcher` observes the roots that are there; `LeaveWatcher` finds nothing to do. `Drain`
takes a folder out of the buffer and asks for its scan, `DrainDropped` is the request that
raises, for whatever reason. What such a step lets fall is in the history variable `lost`.

### SearchIndex

One index of one library, of one of two kinds (see the module's head), with the one
thread that works for it, beside the catalog and the metadata commits. Assets arrive in the
order of their ids and change (`FileChanges`), go offline and come back (`GoesOffline`,
`Returns`), and have their metadata read again (`MetadataAgain`), stored
(`MetadataCommit`), thrown away (`MetadataDropped`) or given up (`MetadataFails`); metadata
is stored with the file identity it was read at. `Create` is the one
active job per index; its conflict is one way for a commit's request to come to nothing,
the others are a request that fails in the writer and a process that dies before it.
A row is `ready`, `failed`, or `blank`: what a signature extractor stores when the
metadata is of another identity than the listed one. The comparison before the write
(`SourceMoved`) is of rows with a payload only, as in the code. `late` marks a row that
was extracted before a commit and written after it.
`Claim`, `NextBatch`, `Extract`, `Record`, `Finish` are the thread; `Cancel`, `Rebuild`
the endpoints; `Schedule`, `StartupBackfill` the automatic requests.

### CatalogPages

A client opens one of the listings and fetches pages until there are no more, or
sends the cursor with another request (`Misuse`, refused; the offset of a folder is a decimal
number, which the old search endpoint accepts, so that pair is left out). Each page is one read
transaction and so one step; between two pages files change, vanish, go offline and
come back, metadata is replaced, and ranks and derived rows change with it.
`Candidates` has what each listing looks at: `Bounded` and `FieldPreselected` are the
preselections of ranked search, `InspectorPage` the inspector's with its second try.
Ranks and text matching are not computed: a match and a rank are any value.

## 3. What the runs check

| Run | Instance | Distinct states | Shows |
| --- | --- | --- | --- |
| `meta_claims` | 1 path, 2 workers, 2 tokens, 2 versions, 2 sidecars; 2 changes, 2 scans, 1 fault | 490 thousand | claims, leases and fences |
| `meta_actors` | 1 path, 1 worker; 2 changes, 2 scans, 2 requests, renders or integrity passes | 1.2 million | the other writers of the rows |
| `meta_live` | 1 path, 1 worker, with fairness | 74 thousand | jobs settle, no lost update |
| `writer_batches` | 3 ops in two lanes, 2 callers; 2 faults, a lost transaction, a crash, a timeout, one start, a stop | 1.1 million | batches, order, durability |
| `writer_gate` | 2 ops, 2 threads, lanes of 1 op; 2 jobs or maintenance runs, 2 starts, a stop, a crash | 291 thousand | gate, waiting, settling |
| `deriv_race` | 1 derivative, 2 identities, 2 workers, quota 1; any four of: a change, a scan, 2 callers, a fault, a lapsed lease, a restart, an integrity pass; or all of these but the scan and the fault | 838 thousand | leases, fences, pixels |
| `deriv_live` | 2 variants, 1 worker, quota 2, an orphan row; any four of: a change, a scan, 2 callers, a restart, an integrity pass; with fairness | 147 thousand | jobs end, no row forgotten, the ledger |
| `serving` | 1 variant, 1 worker, 2 requests, quota 1; any three of: a change, a scan, a caller, a restart | 1.5 million | what is streamed |
| `catalog` | 1 library, 2 folders, one, both, or both and one hidden at the start, 2 workers, 2 jobs, a reconfiguration; any 3 of a change, a request, 2 troubles | 1.9 million | jobs, watcher, library state |
| `search_index` | 2 assets, one or both there at the start, batches of 2, 2 jobs, each kind of index; any 3 disturbances; with fairness | 909 thousand | index jobs and coverage |
| `pages` | 4 assets, pages of 1, candidates 3, slack 2; 3 changes | 658 thousand | pages and counts |
| `doc_inspector` | as `pages`, with one time at the start that no double holds | | a statement of the documentation the code does not keep |

The properties, each with the code behaviour it is about, are at the end of each
module. In short:

- `SoleOwner`, `OwnerViewIsCurrent`, `StaleWorkerWritesNothing`, `LiveLeaseProtected`:
  leases and tokens of metadata jobs do what they are for.
- `CurrentMetadataIsFresh`, `CompletionMaterializes`: what the rows say of each other
  and of the file.
- `OkIsDurable`, `AppliedOnce`, `LaneOrder`, `RefusedNeverApplied`, `AcceptedSettles`,
  `CallsReturn`: the writer's contract. `GateExclusive`, `MaintenanceHoldsBack`: the gate's.
- `LeasesFence` (the scheduler implements `LeasedQueue`), `ReadyHasPixels`, `NoLostWork`,
  `LedgerExact`: derivative rows, jobs and files agree. `ServedOnDisk`,
  `CurrentPixelsServed`, `DeferredIsServed`: what responses rely on.
- `ReadyIsComplete`, `JobsMatchConfiguration`, `CatalogWritesFenced`, `LiveClaimProtected`:
  the catalog and its jobs.
- `ReadyIsCovered`, `SignatureIsCurrent`: what a search index claims.
- `DeliveredOnce`, `NothingOmitted`, `ReceivedInOrder`, `CountAgrees`: what a client gets.
- `JobsSettle`, `NoLostUpdate`, `DerivativesSettle`, `JobsEnd`: liveness.

Exemptions. Some properties hold except for one thing the code does, which the model
remembers in a history variable and the property names, so that everything else is
still checked:

| Property | Exempts | Because |
| --- | --- | --- |
| `OkIsDurable` | a transaction SQLite ended inside an op | the ops before it are settled as done (`db_writer.py:536`) |
| `ReadyHasPixels`, `LeasesFence` | `audit.misled`: rows the integrity pass made ready while an eviction removed their file | its check of the file is older than its write (`integrity_checker.py:789`) |
| `ReadyHasPixels` | `audit.torn`: rows whose file an eviction had removed when the process restarted; they still must have a file, and a source that has moved on | a worker with a dead lease makes the file again from a newer source, and the integrity pass looks only whether a file is there (`integrity_checker.py:789`) |
| `ServedOnDisk`, `CurrentPixelsServed` | `Uncovered`: a response of the same file ended first | served paths are a set (`lookup.py:284`) |
| `ReadyIsComplete` | `lost`: folders whose notice was dropped (the request failed, in maintenance or otherwise; the watcher was restarted with its buffer full; a job failed whose library was still ready), that the watcher does not observe, whose directory could not be listed or has come back, or that a new configuration brought in | nothing asks again until the next event or refresh (`watcher.py:178`, `:232-256`; `libraries.py:745-763`; `library_store.py:720-770`) |
| `ReadyIsCovered` | `owed`: assets whose backfill request failed, met an active job, was skipped because metadata work was left, died with the process or was never made | both are swallowed (`search_index_store.py:233`, `indexer.py:692`) |
| `ReadyIsCovered` | the revision of a `late` row (its file identity is still claimed) | a prompt row is written without a comparison, and is not listed as missing again (`search_index_store.py:416`) |
| `SignatureIsCurrent` | `late` blank rows | the comparison is of payloads, and a `not_applicable` row has none (`generation_signatures.py:424`); it is not listed again either |
| `NothingOmitted`, `CountAgrees` | `short`: a preselection without enough usable rows | it is bounded and cut before rows are checked |
| `DeliveredOnce` | a weaker copy in free-text search without scope | the cursor drops the better copy before copies are merged (`ranked_search.py:588`) |
| all of `pages` for the inspector | cursors whose time did not survive the float (`reader.exact`) | see Disagreements |

Bounds of the metadata and writer runs. `Budget` bounds what the environment does:
changes of files and sidecars, scans, faults (rejected or lost ops, dying threads,
crashes, unreadable claims) and extras. Two changes are enough for a version to be
overtaken twice or a file to leave and come back; two scans for a second dispatch
while the first job runs; one fault at every possible point, as more of them only
repeat recovery; two attempts to reach exhaustion. Tokens are one more than can be in
use by one row plus one stale worker. In the writer, three ops with batches of two
give a second batch, a requeue behind another op, and both lanes; one retry gives
first, repeated and exhausted attempts. Two callers suffice: a caller waits for one op
at a time. `NoLostUpdate` is checked without renders and integrity passes
(`extra = 0`): with a render the code does drop an extraction (section 5).

Bounds of the others. Derivatives: two identities and a quota of one file are the
least with supersession, eviction and deferral; two variants and a quota of two give a
batch that can be made to yield; three claims of one derivative give two stale ones
beside the present. `Remainders` is the set of what may be left of `Budget`: in
`deriv_race` every four of the eight events meet in some behaviour, and so do the six it takes
to recreate the file of an eviction that a restart cut off. `Restores = FALSE` keeps a file from returning to an identity it had
before: with `TRUE` a file that changes to another version and back during a render
defeats the comparison of identities, and `ReadyHasPixels` fails. Catalog: two folders
give a scope narrower than the library and, with `AtStart`, a library whose second path is
brought in, taken out, hidden or shown by its one reconfiguration (`MaxRevs`); two jobs give a running or superseded one
beside a queued one; `MaxEvents` lets any three events meet, such as maintenance for a
`Configure`, a change, and a fault. Index: two assets in a batch of two give a batch with a commit in the
middle, and with `KnownAtStart` an asset that arrives during a job; a `Budget` of three lets any three
disturbances meet, among them a commit between an extraction and its write. Pages: `PageSize`, `CandidateLimit`,
`CountLimit`, `Slack` and `Overscan` stand for `limit`, `max(256, 4 * (limit + 1))`, 4096, 8
and `max(2 * limit, limit + 25)`; with four assets of two matching columns, three
candidates are exceeded and three changes can empty a page. `MaxRows` only ends the
reading. `OddTimes` gives one asset a time between two doubles.

Symmetry is used only in runs without liveness properties. Deadlock is checked in
every metadata run (the supervisor can always act). The other runs end when their ops,
events and requests are used up, so they say `CHECK_DEADLOCK FALSE`; `CallsReturn`,
`AcceptedSettles`, `DerivativesSettle` and `JobsEnd` take the place of that check.

Fairness. Metadata: each worker's own steps (its loop polls, `indexer.py:475`), the
supervisor (it wakes on an interval, `:494`), startup (it runs before the service is
up), backoffs, and a lease nobody renews (`LeaseLapses`). No fairness for scans,
requests, renders, integrity passes or the environment: nothing in the properties
relies on them. Writer: the writer thread, each caller that is not waiting for its
timeout, and the deadline of `stop`. A caller's timeout is *not* assumed, so calls
return because ops settle. Derivatives: each worker (its loop polls), the holder of
the eviction lock (it runs to its end), the supervisor while it has something to sweep
(it wakes on an interval); written as `[]<>` of explicit guards, which is what
weak fairness says. Index: its thread, as one action (`WF_svars(Work)`), since it loops on
its poll interval. `JobsEnd` says that no index job stays active for ever unless the thread has
died of an exception (`search_indexer.py:251`).

### Disagreements

`doc_inspector`: the inspector endpoint makes `next_cursor` from the last row as it is
shown, which has its time as a float of seconds only (`search.py:501`), and
`_encode_inspector_cursor` rounds that back to nanoseconds. At present-day times the double is
up to 119 ns off, and its product with 1e9 is rounded once more to a multiple of 256 ns: up to
about 250 ns in all. In TLC's trace nothing changes: the first page ends with a row whose time is not a
double, the cursor comes out later than the row, and the second page begins with that row
again. A cursor that comes out earlier skips rows instead. `docs/ARCHITECTURE.md:1280` says the keyset uses nanosecond
mtime ordering, and `test_library_inspector.py:409` that no name comes twice; its files
have whole-second times, for which the conversion is exact.

## 4. What is proved

`MetadataJobsProofs`, from `MetadataAssumption` only (any files, workers, tokens,
batch size, attempts and budgets):

| Theorem | Property |
| --- | --- |
| `TypeCorrect` | `Spec => []TypeOK` |
| `OneOwnerPerRow` | `Spec => []SoleOwner` |
| `OwnersAreCurrent` | `Spec => []OwnerViewIsCurrent` |
| `StaleWorkersAreHarmless` | `Spec => StaleWorkerWritesNothing` |
| `LiveLeasesAreSafe` | `Spec => LiveLeaseProtected` |
| `CompletionsAreBacked` | `Spec => CompletionMaterializes` |
| `MetadataIsFresh` | `Spec => []CurrentMetadataIsFresh` |

`SoleOwner` is not inductive: it speaks of claims that own their row now, and a
worker whose claim lost the row could regain it if the row took its token again.
The strengthening is `OwnershipInv`: `TypeOK`, that claims of different workers have
different tokens (`DistinctTokens`), and `OwnerViewIsCurrent`; a token drawn outside
`UsedTokens` cannot revive an old claim. `StaleWorkersAreHarmless`
needs no invariant beyond types: every terminal write is fenced by the token.

`LiveLeasesAreSafe` needs to know that a worker which requeues its row drops a claim it
will not go on holding, so `LeaseInv` adds to `OwnershipInv` that the claims of one worker have
different tokens (`ClaimsApart`) and that a running row has a token (`RunningHasToken`: a
row without one counts as abandoned, whatever its lease). Every other step is `Spared` row by row:
it puts no row with a live lease back in the queue. `CompletionsAreBacked` is about the
steps that make a row `done`. Most make none (`NoCompletion`); the worker's, the request's and
dispatch's compare metadata and asset in the same op, and `CompletionsBacked` says what they
leave. For a completion by a worker that needs `OwnerViewIsCurrent`: its claim is for the version
the row has now.

`MetadataIsFresh` rests on an order: a version on disk only grows, and workers and
requests take the identity of a file before its content. `FreshInv` is therefore
identity <= content <= version on disk, for every stored row and for every worker and
request once it has read; when the first and the last are equal, so is the content.
Its proof reduces each action to `StepKeeps`: a row, a worker or a request is as it
was, or is fresh for the version now on disk.

`CatalogJobsProofs`, from `CatalogAssumption` (any folders, threads and bounds, any finite
set of libraries):

| Theorem | Property |
| --- | --- |
| `CatalogTypeCorrect` | `CSpec => []CTypeOK` |
| `JobsAreCurrent` | `CSpec => []JobsMatchConfiguration` |
| `LiveClaimsAreProtected` | `CSpec => LiveClaimProtected` |
| `CatalogIsFenced` | `CSpec => CatalogWritesFenced` |
| `ReadyCatalogsAreComplete` | `CSpec => []ReadyIsComplete` |

The inductive invariant, `CatalogInv`, adds to the types: threads have different jobs and
a thread in the steps of a job has one that runs (`Owners`), what the supervisor has
found is registered to nobody (`SweepApart`), staging rows belong to a rebuild that failed, or
that runs and has not activated them (`StageOwned`), a scope lies in
its library (`ScopesOwned`), and paths, patterns and the watcher name folders
(`ConfigInv`). The many actions are few kinds of steps: a job is joined, goes
on or ends; a thread goes on with its job or lets it go; and so on. `Steps` says so without
naming an action, `StepsKeep` proves that such steps keep `CatalogInv`, and one lemma per
action shows that it is one.

`ReadyIsComplete` speaks of a library only when it is ready, and between two ready states
lie many steps of a job, so `CompleteInv` follows each folder through the job (TLC checks
it on the instance of `catalog` too). Once a thread has walked past a folder (`Passed`),
either what it saw is still what is on disk and on its way to the catalog (`Delivers`: in
its hand, in staging, or there), or a follow-up waits: the folder is in the watcher's buffer
or in the scope of a queued job. `Shape` says where a thread is in its list. What does not belong in the catalog is in `lost`
(`ConfigInv`), so that a configuration may bring it in. A change of the folder adds to the buffer; draining the
buffer needs that `create_or_coalesce` leaves a queued job that covers the folder whatever
it joins or supersedes (`RequestCovers`), for which the first of the joinable jobs has to
exist (`FirstExists`, by well-founded induction on sets).

`DbWriterProofs`, from `WriterAssumption` and `GateAssumption` (any finite set of callers, any ops,
lanes, batch size and retries):

| Theorem | Property |
| --- | --- |
| `WriterTypeCorrect` | `Spec => []TypeOK` |
| `SeenIsDurable` | `Spec => []OkIsDurable` |
| `OpsApplyOnce` | `Spec => []AppliedOnce` |
| `LanesKeepOrder` | `Spec => []LaneOrder` |
| `RefusedStaysOut` | `Spec => RefusedNeverApplied` |
| `MaintenanceHolds` | `Spec => MaintenanceHoldsBack` |
| `GateHolds` | `Spec => []GateExclusive` |
| `GateIsExclusive` | `GateSpec => []GateExclusive`, of the gate alone |

An op passes through many hands: its caller, a queue, the batch, the open transaction, the database,
and back to the queue when an attempt is retried. The inductive invariant, `WriterInv`, says where it
may be by the state of its Future (`Places`), that a caller has its op to itself and that nobody has
heard of it before it is queued (`Callers`), which answers stand for a commit (`Durable`) and which
for none (`Refusals`), what the attempt at hand has (`Attempt`), and the order: the database, the
transaction or the batch, and the queue of one lane lie one behind the other, each in order of
arrival (`Order`). Of two stretches that lie so, nothing is in both, and that is why nothing is
applied twice: a retry puts the batch back in front of the queue it came from, and the transaction
it rolls back leaves nothing behind. A few lemmas say what keeps the invariant (a call goes on, an op
joins a queue, a batch grows, goes on, ends or is dropped); one lemma per action shows it to be such
a step. The gate alone comes first: its counter is compared with the
cardinality of the set of gates entered without a bypass, which each action changes by at
most one element, and only the owner of maintenance has gates that bypass the count
(`GateInv`). In the composition `Inside` ties it to the callers.

`SearchIndexProofs`, from `SearchIndexAssumption` (any finite set of assets, any batch size):

| Theorem | Property |
| --- | --- |
| `IndexTypeCorrect` | `SSpec => []STypeOK` |
| `SignaturesAreCurrent` | `SSpec => []SignatureIsCurrent` |
| `ReadyIndexesAreCovered` | `SSpec => []ReadyIsCovered` |

`ReadyIsCovered` speaks of the end of a job and `IndexInv` follows its cursor there: every asset at
or before the cursor of the active job is `Kept` (it is not missing, or it is `Promised`: offline, owed,
or with metadata that is still to come or has come and is due), and so is every asset between the cursor and the thread's place in its batch that is not in
the batch (`Passed`, `Covered`). A batch is the first assets after the cursor, whose existence is
again a matter of induction on finite sets (`BatchFirst`, `AssetMin`). That a row which is not late has
the revision of its asset, and a signature with a payload in any case, is `Truthful`: a commit
deletes the row, and what the thread has in hand is either of the stored revision or marked late
(`Snapped`, `Told`).

`DerivativesProofs`, from `DerivativeAssumption` and `BudgetAssumption` (any finite set of assets, any
variants, threads, quota, attempts and budgets):

| Theorem | Property |
| --- | --- |
| `DerivativeTypeCorrect` | `DSpec => []DTypeOK` |
| `DerivativesImplementQueue` | `DSpec => LeasesFence`, the refinement of `LeasedQueue` |
| `NoWorkIsLost` | `DSpec => NoLostWork` |
| `LedgersAreExact` | `DSpec => []LedgerExact` |

The inductive invariant, `DerivInv`, adds to the types what makes a fence by token work: tokens that are
held were drawn and no two workers have the same one (`Drawn`, `Differ`); a worker that owns its job
knows its attempts; a queued job has attempts left; a row names a file only while its job is over, and a
row under eviction names it until the eviction is finalized (`KeyOK`, `OpOK`); and what recovery and the integrity
pass decided on an old snapshot is still harmless when they write it (`SweepOK`, `AuditOK`).
The three properties are shown together, step by step (`StepOK`), since they need the same case
analysis. `KeyStep` lists what a step may do to the row and the job of one derivative without
naming the step; `KeyStepMoves` shows that each such step is a move of the queue and `RowsKept`,
`CrewKept` and so on that it keeps the invariant. What remains for an action is to show what its
transaction does to each derivative: `CoalesceFacts`, `RetireFacts`, `ReconciledFacts` (a whole batch,
through a chain of coalesces) and `SetEndsFacts`. The claim of a leader with its siblings
(`ClaimJobsOK`) is the one step that draws tokens, and has its own proof.

`LedgersAreExact` compares two runs of one batch, with the running account and without. They
`Agree` when their tables are the same and the account, once loaded, has the cardinalities
that the aggregates would count. A coalesce comes to the same verdict in both
(`SameVerdict`) and keeps the agreement (`CoalesceAgrees`), since it changes one
derivative and so each count by at most one (`CountOne`, `CountsFollow`). In place of an induction
over the batch, there is no first coalesce that would break the agreement (`LeastOf`).

`DerivativePixelsProofs`, from the same assumptions:

| Theorem | Property |
| --- | --- |
| `ReadyPixels` | `~Restores /\ DSpec => []ReadyHasPixels` |

The hypothesis is that a file does not return to an identity it had before. Without it the statement
is false (a change there and back during a render defeats every comparison), as TLC shows
with `Restores = TRUE`. With it, identities come in order of time, and `PixelInv`, on top of
`DerivInv`, says where each one stands: what the catalog has is at most what the disk has
(`Reached`); a file's own identity is at most that of the pixels in it; a worker
takes the identities of its claim, its path, its render key and its pixels one after
the other, each at most the next (`InOrder`), so that the last comparison, of the first with the disk,
makes them all equal. A row names only its own file; it has those pixels unless an eviction has
it in hand, and what an eviction selects, unlinks and finalizes, in that order, is kept
apart (`RowPixels`, `OpPixels`); a discarded file is of a superseded identity, which nothing
brings back. `PixelStep` lists what a step may do to disk, files, rows and workers, without
naming it, `PixelsKept` shows that this keeps the invariant, and each action is shown to be such a step.

Proving found one thing the runs had not reached. An eviction unlinks a file; a worker whose lease
is dead, and whose source has changed meanwhile, writes it again under the old path; a restart
comes before the eviction finalizes the row; and the integrity pass sees a file and makes the
row ready again. The files do not return to an earlier identity here, and still `ReadyHasPixels`
failed: it takes six events of the budget, and every run had at most four. The property now says what
holds of such a row (it has a file, and is superseded, since its source has moved on), and
`deriv_race` was extended to reach the case.

`DerivativeServingProofs`, from the same assumptions, for any set of requests:

| Theorem | Property |
| --- | --- |
| `StreamedFilesStay` | `SSpec => []ServedOnDisk` |
| `PutOffUnlinksAreFinished` | `SSpec => []DeferredIsServed` |
| `ResponsesAreCurrent` | `~Restores /\ SSpec => []CurrentPixelsServed` |
| `ServingImplementsQueue` | `SSpec => LeasesFence` |
| `ServedRowsHavePixels` | `~Restores /\ SSpec => []ReadyHasPixels` |

`ServeInv` adds to `DerivInv` what a request has at each step of its handler (`Asked`), that an unlink
that was put off has a response to finish it, and `Protected`: files that are served exist, a response's
file is served unless another response of it ended (`shared`), and no file that an eviction has selected is
served until it is unlinked, since the eviction holds the file lock. That the last is
kept by everything else rests on a fact about the scheduler alone, added to what
`DerivativesProofs` shows of each step: outside evictions no row comes to name another file (`NamesKept`). For
the pixels `Seen` adds the order of `PixelInv` continued into the requests: what the handler stat'ed is an identity
the source has had, and it is at most that of the file it found, which is at most that of the pixels in
it; when the source is still what was stat'ed, all are equal. A request is one of a few kinds of
steps (`Looks`, `Streams`, and the two that end a response), and of the scheduler's steps only those that
unlink or restart concern a response (`Spares`).

Proving also found two things about the models: three `CASE`s had
guards that overlap, which TLA+ leaves unspecified and TLC reads in order; they now say
which comes first. And `Requeued` of the writer is now the loop of the code, a recursive
function that puts the ops of a batch back in front one at a time: the filter by lane it was
before is a recursive operator of the standard library that the provers cannot open. For the same reason the
batches of `DerivativeRows` and the claims of `Derivatives` are recursive functions.

`CatalogPagesProofs`, from `PagesAssumption` (any finite set of assets, any ranks, matches and times, any
page size and any preselection larger than a page):

| Theorem | Property |
| --- | --- |
| `PagesComeInOrder` | `PSpec => []ReceivedInOrder` |
| `ResultsComeOnce` | `PSpec => []DeliveredOnce` |
| `ResultsAllCome` | `PSpec => []NothingOmitted` |
| `CountsAgree` | `PSpec => []CountAgrees` |

The properties are about all pages together, and each page sees another catalog. What carries over is
the cursor, so `PagesInv` compares everything with it: what was received is the cursor or ahead of it
(`CursorIsLast`); what was received of a result that has not changed is still a row of it
(`GotIsResult`); the best row of a result that has not changed and was not received is behind the cursor
(`RestIsBehind`); and what has not changed is still a result (`SteadyIsResult`). A folder has no cursor,
so for it the rows received are the start of the listing up to the offset, as long as the listing is
the same (`GotIsStart`). `CursorIsLast` is kept since rows are totally ordered (`RowsAreOrdered`) and a
page holds only what is behind its cursor, in order (`PageFits`). `RestIsBehind` is the hard part
(`PageCovers`): a page is full when it has a successor, so it has to be shown that a row it left out is
behind its last row although a preselection may never have looked at that row. A preselection
cuts in the order of the keys (`FirstOnes`), so what it keeps is ahead of what it cuts; when more than a
page of what it keeps is usable (`~short`), more than a page of candidates is ahead of the row that was
cut, and of any more than n rows the n-th is ahead of what all of them are ahead of (`AheadOfTheNth`).
On the first page of a search the cut is by metadata rows and not by the keys, which is harmless unless rows tie across it
(`TieCut`, part of `short`). A copy that the cut drops is a loss only when its asset has no
better one, which is why copies have to be merged last (`BestRows`). The catalog's own steps need
no case for each: a change that leaves the rows of an id alone leaves its best row alone (`BestById`).

`CountsAgree` follows from both directions: while nothing changes, the ids received are those of the
results, all and only; and a count whose preselection is not full looks at all copies (`CountIsOfAll`).

To reason about the model a recursive sort of the library gave way to a definition of its own: rows are
put in order by how many rows are ahead of each (`Place`, `InOrder`).

Every inductive invariant was checked by TLC on the instances of the runs before it was proved.

Every safety property and action property that a passing run checks is a theorem. Only model-checked:
liveness (`JobsSettle`, `NoLostUpdate`, `AcceptedSettles`, `CallsReturn`, `DerivativesSettle`,
`JobsEnd`), which is out of the prover's reach.

## 5. Not modelled, and known exceptions

Of the modelled components:

- Metadata: rows from before `mtime_ns` existed, which the code compares by seconds within
  1 ms (`identity.py:105-108`; `Matches` compares versions), and their repair at startup,
  priorities of jobs, the bulk `mark_*` helpers, status queries, the values of metadata fields.
- Writer: its pause between batches, its `abort` and `reset` (tests only). An op called
  inside another op is part of it.
- Derivatives: the order of eviction and of equal priorities (either may go first), deferred
  touches, the pause of background work, videos, the pixels. `CachePaths` takes one stat for the
  batch; the code takes one for each claim and fails each on its own (`execution.py:353-373`).
- Catalog jobs: other job types, progress figures, registering and deleting libraries (which
  restart the watcher as a change of import paths does, `libraries.py:552`, `:920`), a configuration
  changed between a restart of the process and the start of its watcher, the
  chunks a large folder is written in, the debounce delay. The code checks the scope of a request
  and creates its row in two transactions, the model in one; a parent whose child's last report
  was applied but timed out is refreshed by the model all the same. `Configure` is refused while
  the library has catalog work, and in the code also while it has metadata or derivative
  work, so the model allows more.
- Search indexes: storage budgets, several libraries at a time (they share nothing but the
  thread), videos, what an extractor finds. Every metadata commit counts as a new revision, where
  the code compares a digest of the content; a metadata job has no version of its own, it is for the
  asset as it is when the job ends.
- Listings: query parsing, snippets, facets, suggestions for albums, the deadline of raw
  queries, and of ranked search the names that match as a whole or by prefix (tiers 100 and 90),
  the metadata columns and the trigram tables (65 and 50) and the LIKE fallback
  (`ranked_search.py:774-795`): `TierOf` has a name, a prompt and a negative prompt found by
  full-text search, which take the same cursor and the same merge, the OFFSET API of `search_metadata`, sort orders other than by date, related
  assets.

`PROJECT.json` lists the components left out altogether, with reasons: reports over one
snapshot, parsers, numeric ranking, migrations that run before any thread, request
handlers over the file system, the frontend.

Some things the code does are stated in the modules as properties that no run lists,
because they fail; naming one as an INVARIANT or PROPERTY in the configuration given
makes TLC print how:

- `CompletedJobsWereExtracted` (`meta_actors.cfg`): a render's `upsert_image_dimensions` makes
  an `image_metadata` row without extracted fields and stamps the asset done; the next
  dispatch completes the job (`docs/METADATA_PARSING.md:102`).
- `IntegrityFailsOnlyMissing` (`meta_actors.cfg`): `_check_job_active_no_file` looks at the
  files first and fails their jobs in a later op that checks the job's state only
  (`integrity_checker.py:359`).
- `ResultsAreDurable` (`writer_batches.cfg`): after SQLite undoes the transaction inside an op,
  the earlier ops of the batch still resolve with their results (`db_writer.py:5`).

Each exemption of section 3 is seen by deleting its disjunct. Further, met while
modelling and not contradicted by any document: scan-all makes its parent terminal when
all children linked so far have ended, and its request then fails; `libraries.py:892` may
mark a library discovering after its job has ended; a directory that cannot be listed
counts as empty, so its assets go offline; the last metadata job of a library, when it
fails, asks for no index backfill; status may count one asset as failed and as queued.

## 6. Plan

Built: everything of the first plan, and the proofs of section 4. Left:

- `MetadataJobs` does not refine `LeasedQueue` as that stands: the reply of a claim may be lost, so a row
  is leased that no worker knows of, and dispatch and requests complete rows without a lease.
  An abstract queue for both would have to give up that only holders offer results, which is
  its point; `StaleWorkersAreHarmless` and `CompletionsAreBacked` say it of the metadata queue directly.
- The hazards of `PROJECT.json` that have a note and no property.
