------------------------------- MODULE Derivatives -------------------------------
(***************************************************************************)
(* The derivative scheduler (backend/derivative_scheduler/): the worker    *)
(* threads that claim, render and complete jobs, the callers that schedule *)
(* and reconcile, the supervisor that recovers, and the file and eviction  *)
(* locks they share.  DerivativeRows has the write transactions.           *)
(*                                                                         *)
(* One database writer op is one step.  A lease is not timed: a running    *)
(* job may be found expired at any moment, within a budget, while its      *)
(* worker is still rendering.  Among equal priorities the older job goes   *)
(* first in the code; here either may.  Which unprotected file is the      *)
(* least recently used is left open too.                                   *)
(***************************************************************************)
EXTENDS DerivativeRows

CONSTANTS
  Workers,   \* worker thread slots
  MaxClaims, \* bound: claims of one derivative
  Restores,  \* whether a file may return to an identity it had before
  Orphans,   \* (asset, variant) pairs an earlier release left queued without a job
  Budget,    \* bound: source changes, catalog scans, callers, faults,
             \* expired leases, restarts and integrity passes
  Remainders \* bound: what may be left of Budget at the least

ASSUME BudgetAssumption ==
  /\ MaxClaims \in Nat
  /\ Restores \in BOOLEAN
  /\ Orphans \subseteq Assets \X Variant
  /\ Budget \in [{"change", "scan", "call", "fault", "expiry", "audit", "restart"} -> Nat]

VARIABLES
  claims,     \* claims taken of each derivative so far: the source of fresh tokens
  worker,     \* what each worker thread is doing
  generating, \* _generating_paths
  served,     \* _served_paths
  deferred,   \* _deferred_unlinks
  op,         \* the caller that holds (or wants) the eviction lock
  sweep,      \* decisions a recovery or queue sweep took on its read snapshot
  audit,      \* what the integrity pass saw on its snapshot; history: misled, rows it
              \* made ready although an eviction had their file in hand, and torn,
              \* rows whose file was unlinked when a restart cut their eviction off
  left        \* what is left of Budget

db == <<row, job>>
dvars == <<disk, cat, row, job, file, claims, worker, generating, served, deferred, op, sweep, audit, left>>

-----------------------------------------------------------------------------
Claim == [key : Key, token : Nat, attempts : Nat]
Codes == {"source_changed", "source_missing", "asset_inactive", "invalid_source",
          "transient", "internal_error"}

\* open: claims not yet handled, the one asked for first.  cur: the claim in
\* hand.  pid, kid: identity the cache path and the render key were made of.
\* img: identity of the decoded pixels.  gen: paths added to _generating_paths.
Idle == [pc |-> "idle", open |-> <<>>, cur |-> <<>>, batch |-> FALSE, bg |-> FALSE,
         pid |-> 0, kid |-> 0, img |-> 0, gen |-> {}, exc |-> "none", ok |-> FALSE]
WorkerStates == {"idle", "claimed", "checked", "stated", "pathed", "keyed", "rendered", "valid",
                 "handled", "releasing", "failing", "closing", "quota"}

NoOp == [kind |-> "none", stage |-> "none", keys |-> <<>>, cands |-> <<>>, drop |-> {},
         sel |-> {}, gone |-> {}, prio |-> 3, o |-> Interactive, by |-> "none"]
\* todo, ready and done are functions of the derivatives read.
NoSweep == [kind |-> "none", todo |-> <<>>]
NoAudit == [stage |-> "none", ready |-> <<>>, done |-> <<>>, misled |-> {}, torn |-> {}]
AuditOver == [NoAudit EXCEPT !.misled = audit.misled, !.torn = audit.torn]

Commit(tx) == row' = tx.row /\ job' = tx.job
Spend(what) == left[what] > 0 /\ left' = [left EXCEPT ![what] = @ - 1] /\ left' \in Remainders

\* _eviction_lock and _file_lock.
EvictionFree == op.stage \in {"none", "want"}
FileLockFree == op.stage \notin {"evicted", "unlinked"}

DInit ==
  /\ disk = [a \in Assets |-> 1]
  /\ cat = [a \in Assets |-> [ident |-> 1, active |-> TRUE]]
  /\ row = [k \in Key |-> IF <<k[1], k[2]>> \in Orphans /\ k[3] = 1
                           THEN [NoRow EXCEPT !.st = "queued"] ELSE NoRow]
  /\ job = [k \in Key |-> NoJob]
  /\ file = [k \in Key |-> 0]
  /\ claims = [k \in Key |-> 0]
  /\ worker = [w \in Workers |-> Idle]
  /\ generating = {} /\ served = {} /\ deferred = {}
  /\ op = NoOp
  /\ sweep = NoSweep
  /\ audit = NoAudit
  /\ left = Budget

-----------------------------------------------------------------------------
(* The file system and the catalog, changed by others.                       *)

\* A source file is rewritten, removed, or restored to an earlier identity.
SourceChange ==
  /\ Spend("change")
  /\ \E a \in Assets, i \in 0..MaxIdent :
       /\ i # disk[a]
       /\ Restores \/ i = 0 \/ (i > disk[a] /\ disk[a] # 0)
       /\ disk' = [disk EXCEPT ![a] = i]
  /\ UNCHANGED <<cat, db, file, claims, worker, generating, served, deferred, op, sweep, audit>>

\* A scan upserts what it finds, or marks a missing file deleted.
CatalogScan ==
  /\ Spend("scan") /\ op.kind # "clear"
  /\ \E a \in Assets :
       LET seen == IF disk[a] = 0 THEN [cat[a] EXCEPT !.active = FALSE]
                                  ELSE [ident |-> disk[a], active |-> TRUE]
       IN cat[a] # seen /\ cat' = [cat EXCEPT ![a] = seen]
  /\ UNCHANGED <<disk, db, file, claims, worker, generating, served, deferred, op, sweep, audit>>

-----------------------------------------------------------------------------
(* Claiming.                                                                 *)

Runnable(k) == job[k].st = "queued" /\ Current(k)

Leaders == {k \in Key : /\ Runnable(k)
                        /\ \A o \in Key : Runnable(o) => job[k].prio <= job[o].prio}

\* _SIBLING_PROBE_SQL: at most _MAX_BATCH_SIBLINGS, which the variants never reach.
Siblings(k) ==
  {s \in Key \ {k} : /\ s[1] = k[1] /\ s[3] = k[3]
                     /\ Runnable(s) /\ row[s].st = "queued"
                     /\ job[s].prio <= 1 \/ job[k].prio >= 2}

\* The cascade renders the leader first, then the siblings.
ClaimsOf(k, sibs) ==
  LET key(n) == <<k[1], Variants[n], k[3]>>
      upto[n \in 0..Len(Variants)] ==
        IF n = 0 THEN <<k>>
        ELSE IF key(n) \in sibs THEN Append(upto[n - 1], key(n)) ELSE upto[n - 1]
      ordered == upto[Len(Variants)]
  IN [n \in DOMAIN ordered |->
        [key |-> ordered[n], token |-> claims[ordered[n]] + 1, attempts |-> job[ordered[n]].attempts + 1]]

ClaimJobs(w) ==
  /\ worker[w].pc = "idle"
  /\ \E k \in Leaders :
       LET taken == {k} \cup Siblings(k)
           mine == ClaimsOf(k, Siblings(k))
       IN /\ \A s \in taken : claims[s] < MaxClaims
          /\ Commit(ClaimEach(Tx(NoLedger), [s \in taken |-> claims[s] + 1]))
          /\ claims' = [s \in Key |-> IF s \in taken THEN claims[s] + 1 ELSE claims[s]]
          /\ worker' = [worker EXCEPT ![w] = [Idle EXCEPT
               !.pc = "claimed", !.open = mine, !.batch = Len(mine) > 1, !.bg = job[k].prio >= 2]]
  /\ UNCHANGED <<disk, cat, file, generating, served, deferred, op, sweep, left, audit>>

-----------------------------------------------------------------------------
(* Running a claim.  _run_job validates and then computes the cache path;    *)
(* _run_batch computes the paths and then validates its first claim.         *)

Asset(w) == IF worker[w].cur # <<>> THEN worker[w].cur[1].key[1] ELSE worker[w].open[1].key[1]
InHand(w) == IF worker[w].cur # <<>> THEN worker[w].cur[1] ELSE worker[w].open[1]
Set(w, r) == worker' = [worker EXCEPT ![w] = r]
WorkerOnly == UNCHANGED <<disk, cat, db, file, claims, served, deferred, op, sweep, left, audit>>

\* Mutant: only a missing source is noticed, not a changed one.
MutantVerdict(c) ==
  IF ~cat[c.key[1]].active THEN "asset_inactive"
  ELSE IF disk[c.key[1]] = 0 THEN "source_missing" ELSE "none"

\* _validate_claimed_source: the catalog's activity, then the file's identity.
Verdict(c) ==
  IF ~cat[c.key[1]].active THEN "asset_inactive"
  ELSE IF disk[c.key[1]] = 0 THEN "source_missing"
  ELSE IF disk[c.key[1]] # c.key[3] THEN "source_changed"
  ELSE "none"

Validate(w) ==
  /\ \/ worker[w].pc = "claimed" /\ ~worker[w].batch
     \/ worker[w].pc = "stated"
  /\ LET code == Verdict(InHand(w))
         next == IF worker[w].pc = "claimed" THEN "checked" ELSE "pathed"
     IN Set(w, [worker[w] EXCEPT !.pc = IF code = "none" THEN next ELSE "failing", !.exc = code])
  /\ UNCHANGED generating
  /\ WorkerOnly

\* derivative_cache_path: the name is made of the file as it is now.
CachePaths(w) ==
  /\ \/ worker[w].pc = "checked"
     \/ worker[w].pc = "claimed" /\ worker[w].batch
  /\ FileLockFree
  /\ LET i == disk[Asset(w)]
         paths == {PathOf(c.key, i) : c \in ToSet(worker[w].open)}
     IN IF i = 0
        THEN /\ Set(w, [worker[w] EXCEPT !.pc = "failing", !.exc = "source_missing"])
             /\ UNCHANGED generating
        ELSE /\ Set(w, [worker[w] EXCEPT !.pc = IF @ = "checked" THEN "pathed" ELSE "stated",
                                         !.pid = i, !.gen = paths])
             /\ generating' = generating \cup paths
  /\ WorkerOnly

\* render_derivatives (or generate_derivative) stats the source again for its keys.
RenderKeys(w) ==
  /\ worker[w].pc = "pathed"
  /\ LET i == disk[Asset(w)]
     IN Set(w, IF i = 0 THEN [worker[w] EXCEPT !.pc = "failing", !.exc = "source_missing"]
                        ELSE [worker[w] EXCEPT !.pc = "keyed", !.kid = i])
  /\ UNCHANGED generating
  /\ WorkerOnly

Cached(w) == {n \in DOMAIN worker[w].open : file[PathOf(worker[w].open[n].key, worker[w].kid)] # 0}
NextClaim(w) ==
  IF Cached(w) = {} THEN 1 ELSE CHOOSE n \in Cached(w) : \A m \in Cached(w) : n <= m

\* The source is opened once, when a variant is not cached.
Decode(w) ==
  /\ worker[w].pc = "keyed" /\ worker[w].img = 0 /\ Cached(w) = {}
  /\ LET i == disk[Asset(w)]
     IN Set(w, IF i = 0 THEN [worker[w] EXCEPT !.pc = "failing", !.exc = "source_missing"]
                        ELSE [worker[w] EXCEPT !.img = i])
  /\ UNCHANGED generating
  /\ WorkerOnly

\* One variant is produced: found in the cache, or encoded and written unless
\* its file is there already.
Render(w) ==
  /\ worker[w].pc = "keyed"
  /\ worker[w].img # 0 \/ Cached(w) # {}
  /\ LET n == NextClaim(w)
         c == worker[w].open[n]
         p == PathOf(c.key, worker[w].kid)
     IN /\ Set(w, [worker[w] EXCEPT !.pc = "rendered", !.cur = <<c>>, !.open = RemoveAt(worker[w].open, n)])
        /\ file' = IF file[p] = 0 THEN [file EXCEPT ![p] = worker[w].img] ELSE file
  /\ UNCHANGED <<disk, cat, db, claims, generating, served, deferred, op, sweep, left, audit>>

\* A decode fails every claim; an encode fails the variant in hand.
RenderFails(w) ==
  /\ worker[w].pc = "keyed" /\ Cached(w) = {}
  /\ Spend("fault")
  /\ \E code \in {"invalid_source", "transient", "internal_error"} :
       Set(w, IF worker[w].img = 0 THEN [worker[w] EXCEPT !.pc = "failing", !.exc = code]
              ELSE [worker[w] EXCEPT !.pc = "rendered", !.exc = code,
                                     !.cur = <<Head(worker[w].open)>>,
                                     !.open = Tail(worker[w].open)])
  /\ UNCHANGED <<disk, cat, db, file, claims, generating, served, deferred, op, sweep, audit>>

Revalidate(w) ==
  /\ worker[w].pc = "rendered" /\ worker[w].exc = "none"
  /\ LET code == Verdict(InHand(w))
     IN Set(w, [worker[w] EXCEPT !.pc = IF code = "none" THEN "valid" ELSE "rendered", !.exc = code])
  /\ UNCHANGED generating
  /\ WorkerOnly

\* _complete_claim, under the eviction lock and fenced by the claim token.
Complete(w) ==
  /\ worker[w].pc = "valid" /\ EvictionFree
  /\ LET c == InHand(w)
     IN /\ IF Owns(c)
           THEN /\ job' = [job EXCEPT ![c.key] = Ended(@, "done", "none")]
                /\ row' = [row EXCEPT ![c.key] = [st |-> "ready", path |-> worker[w].pid]]
           ELSE UNCHANGED db
        /\ Set(w, [worker[w] EXCEPT !.pc = "handled", !.cur = <<>>, !.ok = @ \/ Owns(c)])
  /\ UNCHANGED <<disk, cat, file, claims, generating, served, deferred, op, sweep, left, audit>>

-----------------------------------------------------------------------------
(* Failing and releasing claims.                                             *)

\* _handle_failure: the state a claim that failed with code goes to.
FailureOf(c, code) ==
  CASE code \in {"source_changed", "source_missing", "asset_inactive"} -> <<"skipped", code>>
    [] code = "transient" /\ c.attempts < MaxAttempts -> <<"queued", "none">>
    [] code = "transient" /\ c.attempts >= MaxAttempts -> <<"failed", "attempts_exhausted">>
    [] OTHER -> <<"failed", code>>

AfterFailure(w) ==
  IF worker[w].cur # <<>>
  THEN [worker[w] EXCEPT !.pc = "handled", !.cur = <<>>, !.exc = "none"]
  ELSE [worker[w] EXCEPT !.open = Tail(worker[w].open),
                         !.pc = IF Len(worker[w].open) = 1 THEN "closing" ELSE "failing"]

Failing(w) ==
  \/ worker[w].pc = "failing"
  \/ worker[w].pc = "rendered" /\ worker[w].exc # "none"

Fail(w) ==
  /\ Failing(w)
  /\ LET c == InHand(w)
         end == FailureOf(c, worker[w].exc)
     IN IF Owns(c) THEN Commit(SetEnds(Tx(NoLedger), [k \in {c.key} |-> end])) ELSE UNCHANGED db
  /\ Set(w, AfterFailure(w))
  /\ UNCHANGED <<disk, cat, file, claims, generating, served, deferred, op, sweep, left, audit>>

\* The failure op itself is refused (writer stopped, database locked).  The claim
\* keeps its lease; the other open ones are failed with that error, or left with
\* theirs when this was tried already.
OthersOpen(w) == IF worker[w].cur = <<>> THEN Tail(worker[w].open) ELSE worker[w].open
FailRefused(w) ==
  /\ Failing(w)
  /\ Spend("fault")
  /\ \/ Set(w, [worker[w] EXCEPT !.pc = "closing", !.cur = <<>>, !.open = <<>>])
     \/ /\ OthersOpen(w) # <<>>
        /\ Set(w, [worker[w] EXCEPT !.pc = "failing", !.cur = <<>>, !.exc = "transient",
                                    !.open = OthersOpen(w)])
  /\ UNCHANGED <<disk, cat, db, file, claims, generating, served, deferred, op, sweep, audit>>

\* _batch_should_yield, read after each variant of a background batch.
ShouldYield(w) ==
  /\ worker[w].bg
  /\ worker[w].open # <<>>
  /\ \/ \E k \in Key : Runnable(k) /\ job[k].prio <= 1
     \/ /\ Len(worker[w].open) >= 2
        /\ \E c \in ToSet(worker[w].open) : job[c.key].st = "running" /\ job[c.key].prio <= 1

Continue(w) ==
  /\ worker[w].pc = "handled"
  /\ Set(w, [worker[w] EXCEPT !.pc = IF ShouldYield(w) THEN "releasing"
                                     ELSE IF worker[w].open = <<>> THEN "closing" ELSE "keyed"])
  /\ UNCHANGED generating
  /\ WorkerOnly

\* _release_claims: back to queued, the attempt handed back.
ReleasedJob(j) ==
  [j EXCEPT !.st = "queued", !.token = 0, !.attempts = IF @ = 0 THEN 0 ELSE @ - 1]

StillOwned(w) == {c.key : c \in {d \in ToSet(worker[w].open) : Owns(d)}}

ReleaseClaims(w) ==
  /\ worker[w].pc = "releasing"
  /\ job' = [k \in Key |-> IF k \in StillOwned(w) THEN ReleasedJob(job[k]) ELSE job[k]]
  /\ row' = [k \in Key |-> IF k \in StillOwned(w) /\ row[k].st = "running"
                           THEN [row[k] EXCEPT !.st = "queued"] ELSE row[k]]
  /\ Set(w, [worker[w] EXCEPT !.pc = "closing", !.open = <<>>])
  /\ UNCHANGED <<disk, cat, file, claims, generating, served, deferred, op, sweep, left, audit>>

\* The finally clause, then _after_derivatives_ready when something completed.
Close(w) ==
  /\ worker[w].pc = "closing" /\ FileLockFree
  /\ generating' = generating \ worker[w].gen
  /\ Set(w, IF worker[w].ok THEN [Idle EXCEPT !.pc = "quota"] ELSE Idle)
  /\ WorkerOnly

-----------------------------------------------------------------------------
(* _reserve_capacity, under both locks: commit the evictions, unlink the     *)
(* files, finalize the rows, and look again.                                 *)

\* Mutant: the files that responses stream are not protected.
MutantEvictable ==
  {k \in Key : row[k].st = "ready" /\ row[k].path # 0 /\ PathOf(k, row[k].path) \notin generating}

Evictable ==
  {k \in Key : row[k].st = "ready" /\ row[k].path # 0
               /\ PathOf(k, row[k].path) \notin served \cup generating}

Needed(est) == Usage(Tx(NoLedger), est) + est - Quota
RoomFor(est) == Usage(Tx(NoLedger), est) + est <= Quota
Estimate == IF op.kind = "enforce" THEN 0 ELSE 1

\* After the reservation: fits is its answer.
Reserved(fits) ==
  CASE op.kind = "enforce" -> NoOp
    [] op.kind # "enforce" /\ fits -> [op EXCEPT !.stage = "retry", !.sel = {}, !.gone = {}]
    [] OTHER -> IF Len(op.keys) = 1 THEN NoOp
                ELSE [op EXCEPT !.stage = "reserve", !.keys = Tail(@), !.sel = {}, !.gone = {}]

SelectAndEvict ==
  /\ op.stage = "reserve"
  /\ \/ /\ RoomFor(Estimate)
        /\ op' = Reserved(TRUE)
        /\ UNCHANGED db
     \/ /\ ~RoomFor(Estimate)
        /\ Cardinality(Evictable) < Needed(Estimate)
        /\ op' = Reserved(FALSE)
        /\ UNCHANGED db
     \/ /\ ~RoomFor(Estimate)
        /\ \E sel \in SUBSET Evictable :
             /\ Cardinality(sel) = Needed(Estimate)
             /\ Commit(Evict(Tx(NoLedger), sel))
             /\ op' = [op EXCEPT !.stage = "evicted", !.sel = sel]
  /\ UNCHANGED <<disk, cat, file, claims, worker, generating, served, deferred, sweep, left, audit>>

\* An unlink may fail, within the fault budget; a missing file counts as removed.
UnlinkEvicted ==
  /\ op.stage = "evicted"
  /\ \E kept \in SUBSET op.sel :
       LET gone == op.sel \ kept
       IN /\ IF kept = {} THEN UNCHANGED left ELSE Spend("fault")
          /\ file' = [p \in Key |-> IF \E k \in gone : PathOf(k, row[k].path) = p THEN 0 ELSE file[p]]
          /\ op' = [op EXCEPT !.stage = "unlinked", !.gone = gone]
  /\ UNCHANGED <<disk, cat, db, claims, worker, generating, served, deferred, sweep, audit>>

FinalizeAndVerify ==
  /\ op.stage = "unlinked"
  /\ LET tx == FinalizeEviction(Tx(NoLedger), op.sel, op.gone)
     IN /\ Commit(tx)
        /\ op' = Reserved(Fits(tx, Estimate))
  /\ UNCHANGED <<disk, cat, file, claims, worker, generating, served, deferred, sweep, left, audit>>

EnforceQuota(w) ==
  /\ worker[w].pc = "quota" /\ op = NoOp
  /\ op' = [NoOp EXCEPT !.kind = "enforce", !.stage = "reserve"]
  /\ Set(w, Idle)
  /\ UNCHANGED <<disk, cat, db, file, claims, generating, served, deferred, sweep, left, audit>>

-----------------------------------------------------------------------------
(* Callers.  Between its reads and the eviction lock a caller is at stage    *)
(* "want"; one caller is in the model at a time.                             *)

\* schedule_derivative reads the asset and stats its file.
ScheduleBy(who, a, v, prio) ==
  /\ op = NoOp
  /\ cat[a].active /\ disk[a] # 0
  /\ op' = [NoOp EXCEPT !.kind = "schedule", !.stage = "want", !.prio = prio, !.by = who,
                        !.keys = <<<<a, v, disk[a]>>>>]

Schedule ==
  /\ Spend("call")
  /\ \E a \in Assets, v \in Variant, prio \in {0, 3} : ScheduleBy("caller", a, v, prio)
  /\ UNCHANGED <<disk, cat, db, file, claims, worker, generating, served, deferred, sweep, audit>>

\* Its coalesce op, under the eviction lock: an inactive asset is a KeyError.
ScheduleCoalesce ==
  /\ op.kind = "schedule" /\ op.stage \in {"want", "retry"}
  /\ LET k == Head(op.keys)
         tx == Coalesce(Tx(NoLedger), k, op.prio, op.o)
     IN IF ~cat[k[1]].active
        THEN op' = NoOp /\ UNCHANGED db
        ELSE /\ Commit(tx)
             /\ op' = IF op.stage = "want" /\ tx.out = "capacity_needed"
                      THEN [op EXCEPT !.stage = "reserve"] ELSE NoOp
  /\ UNCHANGED <<disk, cat, file, claims, worker, generating, served, deferred, sweep, left, audit>>

\* reconcile_desired_derivatives: the active assets whose file is as catalogued.
Candidates ==
  SetToSeq({<<a, disk[a]>> : a \in {b \in Assets : cat[b].active /\ disk[b] # 0 /\ disk[b] = cat[b].ident}})

Reconcile ==
  /\ Spend("call")
  /\ op = NoOp
  /\ Candidates # <<>>
  /\ \E o \in {Automatic, Startup, WarmLibrary} :
       op' = [NoOp EXCEPT !.kind = "reconcile", !.stage = "want", !.o = o, !.cands = Candidates]
  /\ UNCHANGED <<disk, cat, db, file, claims, worker, generating, served, deferred, sweep, audit>>

\* What the caller does once the retired paths ps are committed: the files no
\* row names go to _discard_retired_files, the pending keys to the reservation.
Referenced(tx, p) == \E k \in Key : tx.row[k].path # 0 /\ PathOf(k, tx.row[k].path) = p
Committed(tx, ps, pending) ==
  LET drop == {p \in ps : ~Referenced(tx, p)}
  IN IF drop # {} THEN [op EXCEPT !.stage = "discard", !.drop = drop, !.keys = pending]
     ELSE IF pending # <<>> THEN [op EXCEPT !.stage = "reserve", !.keys = pending] ELSE NoOp

ReconcileBatch ==
  /\ op.kind = "reconcile" /\ op.stage = "want"
  /\ LET done == Reconciled(Tx(NewLedger), op.cands, op.o)
     IN /\ Commit(done.tx)
        /\ op' = Committed(done.tx, RetiredPaths(Tx(NoLedger), CandidateAssets(op.cands)), done.pending)
  /\ UNCHANGED <<disk, cat, file, claims, worker, generating, served, deferred, sweep, left, audit>>

\* coalesce_pending, after a successful reservation; it does not look at the asset again.
ReconcilePending ==
  /\ op.kind = "reconcile" /\ op.stage = "retry"
  /\ Commit(Coalesce(Tx(NoLedger), Head(op.keys), 3, op.o))
  /\ op' = IF Len(op.keys) = 1 THEN NoOp ELSE [op EXCEPT !.stage = "reserve", !.keys = Tail(@)]
  /\ UNCHANGED <<disk, cat, file, claims, worker, generating, served, deferred, sweep, left, audit>>

\* _finish_deferred_unlink for the paths ps that nothing serves any more.
Finished(ps) == {p \in ps \ generating : ~Referenced(Tx(NoLedger), p)}

\* retire_superseded_derivatives, for the whole catalog: deferred unlinks that
\* were left behind first, then the batch.
RetireSuperseded ==
  /\ Spend("call")
  /\ op = NoOp
  /\ Superseded(Tx(NoLedger), Assets) # {}
  /\ LET tx == Retire(Tx(NoLedger), Assets)
         drop == {p \in RetiredPaths(Tx(NoLedger), Assets) : ~Referenced(tx, p)}
     IN /\ Commit(tx)
        /\ op' = IF drop = {} THEN NoOp
                 ELSE [NoOp EXCEPT !.kind = "retire", !.stage = "discard", !.drop = drop]
  /\ deferred' = deferred \cap served
  /\ file' = [p \in Key |-> IF p \in Finished(deferred \ served) THEN 0 ELSE file[p]]
  /\ UNCHANGED <<disk, cat, claims, worker, generating, served, sweep, audit>>

\* Mutant: a file that is being rendered is put off too.
MutantPutOff(p) == p \in served \cup generating
\* A retired file that a response streams is unlinked when the response ends.
PutOff(p) == p \in served /\ p \notin generating

\* _discard_retired_files: one path at a time under the file lock.
DiscardOne ==
  /\ op.stage = "discard"
  /\ \E p \in op.drop :
       /\ deferred' = IF PutOff(p) THEN deferred \cup {p} ELSE deferred
       /\ file' = IF p \in served \cup generating THEN file ELSE [file EXCEPT ![p] = 0]
       /\ op' = IF op.drop # {p} THEN [op EXCEPT !.drop = @ \ {p}]
                ELSE IF op.keys = <<>> THEN NoOp
                ELSE [op EXCEPT !.drop = {}, !.stage = "reserve"]
  /\ UNCHANGED <<disk, cat, db, claims, worker, generating, served, sweep, left, audit>>

\* repair_derivative_consistency, for one derivative.
Repair ==
  /\ Spend("call")
  /\ \E k \in Key :
       /\ row[k].st = "queued" /\ ~ActiveJob(job[k])
       /\ Commit(Repaired(Tx(NoLedger), k))
  /\ UNCHANGED <<disk, cat, file, claims, worker, generating, served, deferred, op, sweep, audit>>

\* The clear runs inside the exclusive maintenance gate, with every producer
\* drained and no queued or running derivative job.
Quiet ==
  /\ op = NoOp /\ sweep = NoSweep /\ audit.stage = "none"
  /\ \A w \in Workers : worker[w] = Idle
  /\ \A k \in Key : ~ActiveJob(job[k])

\* The rows, the assets with them, in one op; then the files no response streams.
ClearRows ==
  /\ Spend("call")
  /\ Quiet
  /\ row' = [k \in Key |-> NoRow] /\ job' = [k \in Key |-> NoJob]
  /\ op' = [NoOp EXCEPT !.kind = "clear", !.stage = "want"]
  /\ cat' = [a \in Assets |-> [cat[a] EXCEPT !.active = FALSE]]
  /\ UNCHANGED <<disk, file, claims, worker, generating, served, deferred, sweep, audit>>

ClearFiles ==
  /\ op.kind = "clear"
  /\ file' = [p \in Key |-> IF p \in served \cup generating THEN file[p] ELSE 0]
  /\ op' = NoOp
  /\ UNCHANGED <<disk, cat, db, claims, worker, generating, served, deferred, sweep, left, audit>>

-----------------------------------------------------------------------------
(* Recovery.  Both sweeps read first and write later.                        *)

\* Mutant: a queued job of a file that changed is not swept.
MutantStale == {k \in Key : job[k].st = "queued" /\ ~cat[k[1]].active}

Stale == {k \in Key : job[k].st = "queued" /\ ~Current(k)}

\* _reconcile_queued_jobs: run by every idle claim and by the supervisor.
SweepRead ==
  /\ sweep = NoSweep
  /\ Stale # {}
  /\ sweep' = [kind |-> "queued", todo |-> [k \in Stale |-> SweepCode(k)]]
  /\ UNCHANGED <<disk, cat, db, file, claims, worker, generating, served, deferred, op, left, audit>>

SweepWrite ==
  /\ sweep.kind = "queued"
  /\ Commit(SetEnds(Tx(NoLedger), [k \in {d \in DOMAIN sweep.todo : job[d].st = "queued"} |->
                                     <<"skipped", sweep.todo[k]>>]))
  /\ sweep' = NoSweep
  /\ UNCHANGED <<disk, cat, file, claims, worker, generating, served, deferred, op, left, audit>>

\* Claims no live worker holds: their lease runs out for certain.
Abandoned(k) ==
  job[k].st = "running" /\
  \A w \in Workers : \A c \in ToSet(worker[w].open \o worker[w].cur) :
    c.key # k \/ c.token # job[k].token

Recoverable(ks) == [k \in ks |-> [token |-> job[k].token, end |-> RecoveryOf(k)]]

\* _recover_running_jobs(expired_only): abandoned claims, or, within the
\* budget, a claim whose heartbeat did not reach the database for a lease.
RecoverRead ==
  /\ sweep = NoSweep
  /\ \/ /\ \E k \in Key : Abandoned(k)
        /\ sweep' = [kind |-> "recover", todo |-> Recoverable({k \in Key : Abandoned(k)})]
        /\ UNCHANGED left
     \/ /\ Spend("expiry")
        /\ \E k \in Key : /\ job[k].st = "running" /\ ~Abandoned(k)
                          /\ sweep' = [kind |-> "recover", todo |-> Recoverable({k})]
  /\ UNCHANGED <<disk, cat, db, file, claims, worker, generating, served, deferred, op, audit>>

\* What the snapshot found is ended only where the same claim still runs.
Recovered(todo) ==
  [k \in {d \in DOMAIN todo : job[d].st = "running" /\ job[d].token = todo[d].token} |-> todo[k].end]

RecoverWrite ==
  /\ sweep.kind = "recover"
  /\ Commit(SetEnds(Tx(NoLedger), Recovered(sweep.todo)))
  /\ sweep' = NoSweep
  /\ UNCHANGED <<disk, cat, file, claims, worker, generating, served, deferred, op, left, audit>>

\* The integrity pass (run_all_checks) reads the ready rows whose file is gone
\* and the done jobs whose row is not ready, and writes later, unfenced.
AuditRead ==
  /\ audit.stage = "none"
  /\ Spend("audit")
  /\ audit' = [audit EXCEPT
       !.stage = "ready",
       !.ready = [k \in {r \in Key : row[r].st = "ready" /\ ~HasFile(r, row[r])} |-> cat[k[1]]],
       !.done = [k \in {r \in Key : job[r].st = "done" /\ row[r].st # "ready"} |-> HasFile(k, row[k])]]
  /\ UNCHANGED <<disk, cat, db, file, claims, worker, generating, served, deferred, op, sweep>>

\* By the catalog as it was read and the file as it is.
Applicable(k) == audit.ready[k].active /\ audit.ready[k].ident = k[3] /\ disk[k[1]] = k[3]
AuditCode(k) ==
  IF ~audit.ready[k].active THEN "asset_inactive"
  ELSE IF disk[k[1]] = 0 THEN "source_missing" ELSE "source_changed"

AuditedJob(j, k) ==
  IF Applicable(k) THEN IF ActiveJob(j) THEN j ELSE QueuedJob(3)
  ELSE IF ActiveJob(j) THEN Ended(j, "skipped", AuditCode(k)) ELSE j

AuditReady ==
  /\ audit.stage = "ready"
  /\ LET due == {k \in DOMAIN audit.ready : row[k].st # "absent"}
     IN /\ row' = [k \in Key |-> IF k \notin due THEN row[k]
                                ELSE [st |-> IF Applicable(k) THEN "queued" ELSE "skipped", path |-> 0]]
        /\ job' = [k \in Key |-> IF k \in due THEN AuditedJob(job[k], k) ELSE job[k]]
  /\ audit' = [audit EXCEPT !.stage = "done", !.ready = <<>>]
  /\ UNCHANGED <<disk, cat, file, claims, worker, generating, served, deferred, op, sweep, left>>

\* Done jobs whose file was there make their rows ready, others fail.
AuditDone ==
  /\ audit.stage = "done"
  /\ LET there == {k \in DOMAIN audit.done : audit.done[k]}
         gone == {k \in DOMAIN audit.done \ there : job[k].st = "done"}
     IN /\ row' = [k \in Key |-> IF k \in there /\ row[k].st # "absent"
                                THEN [row[k] EXCEPT !.st = "ready"] ELSE row[k]]
        /\ job' = [k \in Key |-> IF k \in gone THEN [job[k] EXCEPT !.st = "failed", !.rc = "internal_error"]
                                ELSE job[k]]
        /\ audit' = [AuditOver EXCEPT !.misled =
             audit.misled \cup {k \in there : k \in op.sel \/ ~HasFile(k, row[k])}]
  /\ UNCHANGED <<disk, cat, file, claims, worker, generating, served, deferred, op, sweep, left>>

\* The process ends anywhere and starts again: only rows and files remain, and
\* start() sweeps the queue and recovers every running claim.
RestartedRows ==
  SetEnds(Tx(NoLedger), [k \in Stale \cup {r \in Key : job[r].st = "running"} |->
                           IF k \in Stale THEN <<"skipped", SweepCode(k)>> ELSE RecoveryOf(k)])

Restart ==
  /\ Spend("restart")
  /\ Commit(RestartedRows)
  /\ worker' = [w \in Workers |-> Idle]
  /\ generating' = {} /\ served' = {} /\ deferred' = {}
  /\ op' = NoOp /\ sweep' = NoSweep /\ audit' = [AuditOver EXCEPT !.torn = @ \cup op.gone]
  /\ UNCHANGED <<disk, cat, file, claims>>

-----------------------------------------------------------------------------
Work(w) ==
  \/ ClaimJobs(w) \/ Validate(w) \/ CachePaths(w) \/ RenderKeys(w) \/ Decode(w) \/ Render(w)
  \/ Revalidate(w) \/ Complete(w) \/ Fail(w) \/ Continue(w) \/ ReleaseClaims(w) \/ Close(w)
  \/ EnforceQuota(w)
Hold ==
  \/ SelectAndEvict \/ UnlinkEvicted \/ FinalizeAndVerify \/ ScheduleCoalesce
  \/ ReconcileBatch \/ ReconcilePending \/ DiscardOne \/ ClearFiles
Supervise ==
  SweepRead \/ SweepWrite \/ RecoverRead \/ RecoverWrite \/ AuditReady \/ AuditDone
Call == Schedule \/ Reconcile \/ RetireSuperseded \/ Repair \/ ClearRows \/ AuditRead

DNext ==
  \/ \E w \in Workers : Work(w) \/ RenderFails(w) \/ FailRefused(w)
  \/ Hold \/ Supervise \/ Call \/ SourceChange \/ CatalogScan

DSpec == DInit /\ [][DNext \/ Restart]_dvars

\* Weak fairness of the threads, with their guards written out instead of
\* ENABLED (which TLC evaluates too slowly here): a worker that can go on, a
\* caller that holds or wants a lock, and a supervisor with something to sweep
\* do not stop.
CanGoOn(w) ==
  CASE worker[w].pc = "idle" -> \E k \in Leaders : \A s \in {k} \cup Siblings(k) : claims[s] < MaxClaims
    [] worker[w].pc = "valid" -> EvictionFree
    [] worker[w].pc = "quota" -> op = NoOp
    [] worker[w].pc \in {"claimed", "checked", "closing"} -> FileLockFree
    [] OTHER -> TRUE
MustSweep == sweep # NoSweep \/ Stale # {} \/ \E k \in Key : Abandoned(k)

DFairness ==
  /\ \A w \in Workers : []<>~CanGoOn(w) \/ []<><<TRUE>>_(worker[w])
  /\ []<>(op = NoOp) \/ []<><<TRUE>>_op
  /\ []<>~MustSweep \/ []<><<TRUE>>_sweep

DFairSpec == DSpec /\ DFairness

-----------------------------------------------------------------------------
(* Properties.                                                               *)

\* Every variable has its type, and no path of claim, failure, release, recovery
\* and restart renders one job more often than _MAX_ATTEMPTS.
DTypeOK ==
  /\ disk \in [Assets -> 0..MaxIdent]
  /\ cat \in [Assets -> [ident : Ident, active : BOOLEAN]]
  /\ row \in [Key -> Row] /\ job \in [Key -> Job]
  /\ \A k \in Key : job[k].attempts <= MaxAttempts
  /\ file \in [Key -> 0..MaxIdent]
  /\ claims \in [Key -> 0..MaxClaims]
  /\ \A w \in Workers : worker[w].pc \in WorkerStates /\ worker[w].open \in Seq(Claim)
  /\ generating \subseteq Key /\ served \subseteq Key /\ deferred \subseteq Key
  /\ sweep.kind \in {"none", "queued", "recover"} /\ audit.stage \in {"none", "ready", "done"}
  /\ left \in [DOMAIN Budget -> Nat]

\* A derivative that says it is queued or running has a job that will move it:
\* no step leaves a row waiting for nobody.
NoLostWork ==
  [][\A k \in Key :
       row'[k].st \in {"queued", "running"} /\ ~ActiveJob(job'[k])
       => row[k].st \in {"queued", "running"} /\ ~ActiveJob(job[k])]_dvars

\* CapacityLedger: coalescing a whole batch against one running account decides
\* exactly what a fresh aggregate query for each identity would.
LedgerExact ==
  \A o \in {Automatic, Startup, WarmLibrary} :
    LET kept == Reconciled(Tx(NewLedger), Candidates, o)
        fresh == Reconciled(Tx(NoLedger), Candidates, o)
    IN kept.tx.row = fresh.tx.row /\ kept.tx.job = fresh.tx.job /\ kept.pending = fresh.pending

\* The promise of a leased queue.  A row's result is offered while it is ready,
\* withdrawn while it is evicted with its file still named.  What the integrity
\* pass offers without a file is not counted.
Phase(j) ==
  CASE j.st = "none" -> "none" [] j.st = "queued" -> "waiting" [] j.st = "running" -> "leased"
    [] OTHER -> "settled"
OfferOf(r) ==
  CASE r.st = "ready" -> "offered" [] r.st = "evicted" /\ r.path # 0 -> "withdrawn" [] OTHER -> "none"
HeldTokens(k) ==
  {c.token : c \in {d \in UNION {ToSet(worker[w].open \o worker[w].cur) : w \in Workers} : d.key = k}}

Queue == INSTANCE LeasedQueue WITH
  Item <- Key, Token <- 1..MaxClaims, NoToken <- 0,
  phase <- [k \in Key |-> Phase(job[k])],
  lease <- [k \in Key |-> job[k].token],
  held <- [k \in Key |-> HeldTokens(k)],
  offer <- [k \in Key |-> IF k \in audit.misled THEN "none" ELSE OfferOf(row[k])]

\* Claims, renewals that come too late, recovery, sweeps, supersession and
\* restarts implement it: a worker that lost its lease publishes nothing.
LeasesFence == Queue!Spec

\* Every queued or running job ends, whatever fails, expires or restarts, and
\* although background batches yield and sweeps compete with workers.
DerivativesSettle == \A k \in Key : ActiveJob(job[k]) ~> ~ActiveJob(job[k])

\* A derivative is offered as ready only while the file its row names exists and
\* holds the pixels of the identity it is ready for, although the worker stats
\* its source three times on the way (a file that returns to an identity it
\* had before can defeat this: see Restores) and evictions, sweeps, recoveries
\* and the integrity pass move the same rows.  The integrity pass restores what
\* it saw before its op, so a row whose eviction was under way is exempted.
\* After a restart cut an eviction off, a worker that had lost its lease may have
\* made the unlinked file again, from a newer source: the integrity pass then
\* restores the row to it.  Such a row is superseded: its source has moved on.
ReadyHasPixels ==
  \A k \in Key : row[k].st = "ready" =>
    \/ k \in audit.misled
    \/ row[k].path # 0 /\ file[PathOf(k, row[k].path)] = k[3]
    \/ /\ k \in audit.torn
       /\ row[k].path # 0 /\ file[PathOf(k, row[k].path)] # 0
       /\ disk[k[1]] # k[3]

=============================================================================
