-------------------------- MODULE MetadataJobsProofs --------------------------
(***************************************************************************)
(* Type correctness of MetadataJobs for every number of files, workers,    *)
(* tokens and retries; what the claim fence gives: one owner per row,      *)
(* whose view of version and attempt is the row's, a live lease that       *)
(* nobody takes away, completions backed by what is stored; and that       *)
(* stored metadata is fresh.                                               *)
(***************************************************************************)
EXTENDS MetadataJobs, TLAPS

-----------------------------------------------------------------------------
(* Row transitions stay within the row type.                               *)

LEMMA ZeroType == 0 \in Ver /\ 0 \in Side
BY MetadataAssumption DEF Ver, Side

LEMMA ReleaseType ==
  ASSUME NEW j \in Job, NEW s \in JobStates
  PROVE  Release(j, s) \in Job
BY DEF Release, Job, JobStates, MaybeToken

LEMMA RecoveredType ==
  ASSUME NEW j \in Job
  PROVE  Recovered(j) \in Job /\ RecoveredIfAbandoned(j) \in Job
BY ReleaseType DEF Recovered, RecoveredIfAbandoned, JobStates

LEMMA GivenBackType ==
  ASSUME NEW j \in Job
  PROVE  GivenBack(j) \in Job
<1> DEFINE r == Release(j, "queued")
           n == IF r.attempts > 0 THEN r.attempts - 1 ELSE 0
<1>1. r \in Job
  BY ReleaseType DEF JobStates
<1>2. n \in Nat
  BY <1>1 DEF Job
<1> HIDE DEF r, n
<1>3. [r EXCEPT !.attempts = n] \in Job
  BY <1>1, <1>2 DEF Job
<1> QED
  BY <1>3 DEF GivenBack, r, n

LEMMA StartedType ==
  ASSUME NEW j \in Job, NEW t \in Tokens
  PROVE  Started(j, t) \in Job
BY DEF Started, Job, JobStates, MaybeToken

LEMMA DispatchedType ==
  ASSUME NEW j \in Job, NEW v \in Ver
  PROVE  Dispatched(j, v) \in Job
<1> DEFINE same == j.state # "none" /\ j.ver = v
           k == IF same THEN RecoveredIfAbandoned(j) ELSE j
<1>1. k \in Job
  BY RecoveredType
<1>2. Release(k, "queued") \in Job
  BY <1>1, ReleaseType DEF JobStates
<1>3. [Release(k, "queued") EXCEPT !.ver = v, !.attempts = IF same THEN @ ELSE 0] \in Job
  BY <1>2 DEF Job
<1> QED
  BY <1>1, <1>3 DEF Dispatched

LEMMA CompletedType ==
  ASSUME NEW j \in Job, NEW s \in JobStates
  PROVE  Completed(j, s) \in Job
BY ReleaseType DEF Completed, Job

LEMMA OutcomeType ==
  ASSUME NEW m, NEW p, NEW v
  PROVE  Outcome(m, p, v) \in {"done", "skipped", "stale"}
BY DEF Outcome

LEMMA MarkedCurrentType ==
  ASSUME job \in [Paths -> Job], NEW p \in Paths, NEW v \in Ver, NEW m
  PROVE  MarkedCurrent(p, v, m) \in [Paths -> Job]
<1>1. [job[p] EXCEPT !.ver = v] \in Job
  BY DEF Job
<1>2. Outcome(m, p, v) \in JobStates
  BY OutcomeType DEF JobStates
<1>3. Completed([job[p] EXCEPT !.ver = v], Outcome(m, p, v)) \in Job
  BY <1>1, <1>2, CompletedType
<1> QED
  BY <1>3 DEF MarkedCurrent

LEMMA AssetDoneType ==
  ASSUME asset \in [Paths -> Asset], NEW p \in Paths, NEW s
  PROVE  AssetDone(p, s) \in [Paths -> Asset]
BY DEF AssetDone, Asset

LEMMA UpsertedType ==
  ASSUME im \in [Paths -> Metadata], NEW p \in Paths, NEW m \in Meta
  PROVE  Upserted(p, m) \in [Paths -> Metadata]
BY DEF Upserted, Metadata, Meta

LEMMA SpendType ==
  ASSUME NEW o, Spend(o), left \in [{"change", "scan", "fault", "extra"} -> Nat]
  PROVE  left' \in [{"change", "scan", "fault", "extra"} -> Nat]
BY DEF Spend

LEMMA SpentType ==
  ASSUME left \in [{"change", "scan", "fault", "extra"} -> Nat],
         NEW k \in {"change", "scan", "fault", "extra"}, left[k] > 0
  PROVE  [left EXCEPT ![k] = left[k] - 1] \in [{"change", "scan", "fault", "extra"} -> Nat]
<1>1. left[k] \in Nat /\ left[k] - 1 \in Nat
  OBVIOUS
<1> QED
  BY <1>1

\* A busy worker has a claim; it moves to another busy state, or drops it.
LEMMA WorkerType ==
  ASSUME worker \in [Workers -> Worker], NEW w \in Workers
  PROVE  /\ ToIdle(w) => worker' \in [Workers -> Worker]
         /\ Busy(w) => /\ worker[w] = [pc |-> worker[w].pc, claim |-> worker[w].claim, meta |-> worker[w].meta]
                       /\ worker[w].claim \in Claim
                       /\ worker[w].meta \in Meta
                       /\ \A s \in WorkerStates \ {"idle", "dead"} :
                            ToState(w, s) => worker' \in [Workers -> Worker]
<1>1. Idle \in Worker
  BY DEF Idle, Worker
<1>2. worker[w] \in Worker
  OBVIOUS
<1>3. ASSUME Busy(w)
      PROVE  worker[w] \in [pc : WorkerStates \ {"idle", "dead"}, claim : Claim, meta : Meta]
  BY <1>2, <1>3 DEF Worker, Busy
<1>4. ASSUME Busy(w), NEW s \in WorkerStates \ {"idle", "dead"}
      PROVE  [worker[w] EXCEPT !.pc = s] \in Worker
  BY <1>3, <1>4 DEF Worker
<1> QED
  BY <1>1, <1>3, <1>4 DEF ToIdle, ToState

-----------------------------------------------------------------------------
(* Every action preserves TypeOK.                                          *)

LEMMA StartClaimsType ==
  ASSUME TypeOK, NEW w \in Workers, NEW o, NEW n \in 1..ClaimBatch,
         NEW ps \in [1..n -> Due], NEW ts \in [1..n -> Fresh], StartClaims(w, o, ps, ts, n)
  PROVE  /\ job' \in [Paths -> Job]
         /\ worker' \in [Workers -> Worker]
         /\ buf' \in [Workers -> Seq(Claim)]
         /\ pend' \in [Paths -> MaybeToken]
<1> DEFINE claims == [i \in 1..n |-> [path |-> ps[i], ver |-> job[ps[i]].ver,
                                      attempts |-> job[ps[i]].attempts + 1, token |-> ts[i]]]
           Claimed(p) == \E i \in 1..n : ps[i] = p
           TokenOf(p) == ts[CHOOSE i \in 1..n : ps[i] = p]
<1>1. \A i \in 1..n : ps[i] \in Paths /\ ts[i] \in Tokens
  BY DEF Due, Fresh
<1>2. \A i \in 1..n : claims[i] \in Claim
  BY <1>1 DEF TypeOK, Claim, Job
<1>3. n \in Nat /\ n > 0
  BY MetadataAssumption
<1>4. claims \in Seq(Claim) /\ claims # <<>> /\ Len(claims) = n
  BY <1>2, <1>3
<1>5. \A p \in Paths : Claimed(p) => TokenOf(p) \in Tokens
  BY <1>1
<1>6. /\ job' = [p \in Paths |-> IF Claimed(p) THEN Started(job[p], TokenOf(p)) ELSE job[p]]
      /\ o = "ok" => /\ worker' = [worker EXCEPT ![w] = [pc |-> "check", claim |-> claims[1], meta |-> NoMeta]]
                     /\ buf' = [buf EXCEPT ![w] = Tail(claims)]
                     /\ pend' = [p \in Paths |-> IF Claimed(p) /\ p # ps[1] THEN TokenOf(p) ELSE pend[p]]
      /\ o # "ok" => UNCHANGED <<worker, buf, pend>>
  BY DEF StartClaims
<1>7. claims[1] \in Claim
  BY <1>2, <1>3
<1> HIDE DEF claims, Claimed, TokenOf
<1>8. job' \in [Paths -> Job]
  BY <1>5, <1>6, StartedType DEF TypeOK
<1>9. [pc |-> "check", claim |-> claims[1], meta |-> NoMeta] \in Worker
  BY <1>7, ZeroType DEF Worker, WorkerStates, Beating, Meta, NoMeta
<1>10. Tail(claims) \in Seq(Claim)
  BY <1>4
<1>11. \A p \in Paths : (IF Claimed(p) /\ p # ps[1] THEN TokenOf(p) ELSE pend[p]) \in MaybeToken
  BY <1>5 DEF TypeOK, MaybeToken
<1>12. CASE o = "ok"
  <2>1. worker' \in [Workers -> Worker]
    BY <1>6, <1>9, <1>12 DEF TypeOK
  <2>2. buf' \in [Workers -> Seq(Claim)]
    BY <1>6, <1>10, <1>12 DEF TypeOK
  <2>3. pend' \in [Paths -> MaybeToken]
    BY <1>6, <1>11, <1>12
  <2> QED
    BY <1>8, <2>1, <2>2, <2>3
<1>13. CASE o # "ok"
  BY <1>6, <1>8, <1>13 DEF TypeOK
<1> QED
  BY <1>12, <1>13

LEMMA ClaimType ==
  ASSUME TypeOK, NEW w \in Workers, NEW o, ClaimJobs(w, o)
  PROVE  TypeOK'
<1>1. PICK n \in 1..ClaimBatch : \E ps \in [1..n -> Due], ts \in [1..n -> Fresh] : StartClaims(w, o, ps, ts, n)
  BY DEF ClaimJobs
<1>2. PICK ps \in [1..n -> Due], ts \in [1..n -> Fresh] : StartClaims(w, o, ps, ts, n)
  BY <1>1
<1>3. /\ job' \in [Paths -> Job]
      /\ worker' \in [Workers -> Worker]
      /\ buf' \in [Workers -> Seq(Claim)]
      /\ pend' \in [Paths -> MaybeToken]
  BY <1>2, StartClaimsType
<1>4. left' \in [{"change", "scan", "fault", "extra"} -> Nat]
  BY SpendType DEF ClaimJobs, TypeOK
<1> QED
  BY <1>3, <1>4 DEF TypeOK, ClaimJobs, workerFrame

LEMMA NextBufferedType ==
  ASSUME TypeOK, NEW w \in Workers, NextBuffered(w)
  PROVE  TypeOK'
<1>1. buf[w] \in Seq(Claim) /\ buf[w] # <<>>
  BY DEF TypeOK, NextBuffered
<1>2. Head(buf[w]) \in Claim /\ Tail(buf[w]) \in Seq(Claim)
  BY <1>1
<1>3. [pc |-> "check", claim |-> Head(buf[w]), meta |-> NoMeta] \in Worker
  BY <1>2, ZeroType DEF Worker, WorkerStates, Beating, Meta, NoMeta
<1> QED
  BY <1>2, <1>3 DEF TypeOK, NextBuffered, workerFrame, rows, MaybeToken

LEMMA RunJobType ==
  ASSUME TypeOK, NEW w \in Workers,
         CheckCurrent(w) \/ ExtractStat(w) \/ ExtractRead(w) \/ Recheck(w)
  PROVE  TypeOK'
<1>1. Busy(w)
  BY DEF Busy, CheckCurrent, ExtractStat, ExtractRead, Recheck
<1>2. {"stat", "stale", "fail", "retry", "write", "read", "recheck"} \subseteq WorkerStates \ {"idle", "dead"}
  BY DEF WorkerStates, Beating
<1>3. worker[w].claim.path \in Paths
  BY <1>1, WorkerType DEF TypeOK, Claim
<1>4. CASE CheckCurrent(w)
  BY <1>1, <1>2, <1>4, WorkerType DEF TypeOK, CheckCurrent, workerFrame, rows
<1>5. ASSUME NEW m \in Meta, NEW s \in WorkerStates \ {"idle", "dead"}, GoesOn(w, s, m)
      PROVE  worker' \in [Workers -> Worker]
  <2>1. [pc |-> s, claim |-> worker[w].claim, meta |-> m] \in Worker
    BY <1>1, WorkerType DEF TypeOK, Worker
  <2> QED
    BY <1>5, <2>1 DEF GoesOn, TypeOK
<1>6. CASE ExtractStat(w)
  <2>1. [ver |-> disk[worker[w].claim.path].ver, side |-> 0, content |-> 0] \in Meta
    BY <1>3, ZeroType DEF TypeOK, Meta
  <2>2. worker' \in [Workers -> Worker]
    BY <1>1, <1>2, <1>5, <1>6, <2>1, WorkerType DEF TypeOK, ExtractStat
  <2> QED
    BY <1>6, <2>2 DEF TypeOK, ExtractStat, workerFrame, rows
<1>7. CASE ExtractRead(w)
  <2>1. [ver |-> worker[w].meta.ver, side |-> disk[worker[w].claim.path].side,
        content |-> disk[worker[w].claim.path].ver] \in Meta
    BY <1>1, <1>3, WorkerType DEF TypeOK, Meta
  <2>2. worker' \in [Workers -> Worker]
    BY <1>1, <1>2, <1>5, <1>7, <2>1, WorkerType DEF TypeOK, ExtractRead
  <2>3. left' \in [{"change", "scan", "fault", "extra"} -> Nat]
    BY <1>7, SpentType DEF TypeOK, ExtractRead
  <2> QED
    BY <1>7, <2>2, <2>3 DEF TypeOK, ExtractRead, workerFrame, rows
<1>8. CASE Recheck(w)
  <2>1. worker' \in [Workers -> Worker]
    BY <1>1, <1>2, <1>8, WorkerType DEF TypeOK, Recheck
  <2>2. left' \in [{"change", "scan", "fault", "extra"} -> Nat]
    BY <1>8, SpentType DEF TypeOK, Recheck
  <2> QED
    BY <1>8, <2>1, <2>2 DEF TypeOK, Recheck, workerFrame, rows
<1> QED
  BY <1>4, <1>6, <1>7, <1>8

LEMMA SettleType ==
  ASSUME TypeOK, NEW w \in Workers, NEW o, NEW j \in Job, Busy(w), SettleRow(w, o, j)
  PROVE  job' \in [Paths -> Job]
BY WorkerType DEF TypeOK, SettleRow, Claim

LEMMA FinishType ==
  ASSUME TypeOK, NEW w \in Workers, NEW o,
         MarkStale(w, o) \/ PersistAndComplete(w, o) \/ RecordFailure(w, o)
  PROVE  TypeOK'
<1>1. Busy(w)
  BY DEF Busy, MarkStale, PersistAndComplete, RecordFailure
<1>2. /\ worker[w].claim.path \in Paths
      /\ worker[w].meta \in Meta
      /\ job[worker[w].claim.path] \in Job
  BY <1>1, WorkerType DEF TypeOK, Claim
<1>3. left' \in [{"change", "scan", "fault", "extra"} -> Nat]
  BY SpendType DEF TypeOK, MarkStale, PersistAndComplete, RecordFailure
<1>4. ToIdle(w) \/ AfterOp(w, o) => worker' \in [Workers -> Worker]
  BY <1>1, WorkerType DEF TypeOK, AfterOp, WorkerStates
<1>5. CASE MarkStale(w, o)
  <2>1. job' \in [Paths -> Job]
    BY <1>1, <1>2, <1>5, ReleaseType, SettleType DEF MarkStale, JobStates
  <2> QED
    BY <1>3, <1>4, <1>5, <2>1 DEF TypeOK, MarkStale, workerFrame
<1>6. CASE RecordFailure(w, o)
  <2>1. Release(job[worker[w].claim.path], "queued") \in Job
    BY <1>2, ReleaseType DEF JobStates
  <2>2. [Release(job[worker[w].claim.path], "queued") EXCEPT !.due = FALSE] \in Job
    BY <2>1 DEF Job
  <2>3. Release(job[worker[w].claim.path], "failed") \in Job
    BY <1>2, ReleaseType DEF JobStates
  <2>4. job' \in [Paths -> Job]
    BY <1>1, <1>6, <2>2, <2>3, SettleType DEF RecordFailure
  <2> QED
    BY <1>3, <1>4, <1>6, <2>4 DEF TypeOK, RecordFailure, workerFrame
<1>7. CASE PersistAndComplete(w, o)
  <2> DEFINE p == worker[w].claim.path
             m == Upserted(p, worker[w].meta)
             s == Outcome(m[p], p, worker[w].claim.ver)
  <2>1. m \in [Paths -> Metadata]
    BY <1>2, UpsertedType DEF TypeOK
  <2>2. s \in JobStates
    BY OutcomeType DEF JobStates
  <2>3. Completed(job[p], s) \in Job
    BY <1>2, <2>2, CompletedType
  <2>4. AssetDone(p, s) \in [Paths -> Asset]
    BY <1>2, AssetDoneType DEF TypeOK
  <2>5. CASE Applied(o) /\ OwnsRow(job[p], worker[w].claim.token)
    <3>1. job' \in [Paths -> Job]
      BY <1>1, <1>7, <2>3, <2>5, SettleType DEF PersistAndComplete
    <3>2. im' \in [Paths -> Metadata] /\ asset' \in [Paths -> Asset]
      BY <1>7, <2>1, <2>4, <2>5 DEF PersistAndComplete, TypeOK
    <3> QED
      BY <1>3, <1>4, <1>7, <3>1, <3>2 DEF TypeOK, PersistAndComplete, workerFrame
  <2>6. CASE ~(Applied(o) /\ OwnsRow(job[p], worker[w].claim.token))
    BY <1>3, <1>4, <1>7, <2>6 DEF TypeOK, PersistAndComplete, workerFrame, rows
  <2> QED
    BY <2>5, <2>6
<1> QED
  BY <1>5, <1>6, <1>7

\* Steps that only move job rows within their type, and workers to idle or dead.
LEMMA UpkeepType ==
  ASSUME TypeOK
  PROVE  /\ \A w \in Workers : Renew(w) => TypeOK'
         /\ \A w \in Workers, o \in Outcomes : WorkerExit(w, o) => TypeOK'
         /\ \A o \in Outcomes : Supervise(o) => TypeOK'
         /\ \A p \in Paths : LeaseExpires(p) \/ BackoffElapses(p) => TypeOK'
<1>1. \A p \in Paths : job[p] \in Job
  BY DEF TypeOK
<1>2. ASSUME NEW w \in Workers, Renew(w)
      PROVE  TypeOK'
  <2>1. \A p \in Paths : [job[p] EXCEPT !.lease = "live"] \in Job
    BY <1>1 DEF Job
  <2>2. job' \in [Paths -> Job]
    BY <1>1, <1>2, <2>1 DEF Renew
  <2> QED
    BY <1>2, <2>2 DEF TypeOK, Renew, workerFrame
<1>3. ASSUME NEW w \in Workers, NEW o \in Outcomes, WorkerExit(w, o)
      PROVE  TypeOK'
  <2>1. \A p \in Paths : GivenBack(job[p]) \in Job
    BY <1>1, GivenBackType
  <2>2. job' \in [Paths -> Job]
    BY <1>1, <1>3, <2>1 DEF WorkerExit
  <2>3. pend' \in [Paths -> MaybeToken]
    BY <1>3 DEF WorkerExit, TypeOK, MaybeToken
  <2>4. [Idle EXCEPT !.pc = "dead"] \in Worker
    BY DEF Idle, Worker
  <2>5. worker' \in [Workers -> Worker] /\ buf' \in [Workers -> Seq(Claim)]
    BY <1>3, <2>4 DEF WorkerExit, TypeOK
  <2>6. left' \in [{"change", "scan", "fault", "extra"} -> Nat]
    BY <1>3, SpentType DEF WorkerExit, TypeOK
  <2> QED
    BY <1>3, <2>2, <2>3, <2>5, <2>6 DEF TypeOK, WorkerExit, workerFrame
<1>4. ASSUME NEW o \in Outcomes, Supervise(o)
      PROVE  TypeOK'
  <2>1. job' \in [Paths -> Job]
    BY <1>1, <1>4, RecoveredType DEF Supervise, TypeOK
  <2>2. Idle \in Worker
    BY DEF Idle, Worker
  <2>3. worker' \in [Workers -> Worker]
    BY <1>4, <2>2 DEF Supervise, TypeOK
  <2>4. left' \in [{"change", "scan", "fault", "extra"} -> Nat]
    BY <1>4, SpendType DEF Supervise, TypeOK
  <2> QED
    BY <1>4, <2>1, <2>3, <2>4 DEF TypeOK, Supervise, workerFrame
<1>5. ASSUME NEW p \in Paths, LeaseExpires(p) \/ BackoffElapses(p)
      PROVE  TypeOK'
  <2>1. [job[p] EXCEPT !.lease = "expired"] \in Job /\ [job[p] EXCEPT !.due = TRUE] \in Job
    BY <1>1 DEF Job
  <2>2. job' \in [Paths -> Job]
    BY <1>5, <2>1 DEF LeaseExpires, BackoffElapses, TypeOK
  <2> QED
    BY <1>5, <2>2 DEF TypeOK, LeaseExpires, BackoffElapses, timeFrame
<1> QED
  BY <1>2, <1>3, <1>4, <1>5

LEMMA EnvironmentType ==
  ASSUME TypeOK, Environment
  PROVE  TypeOK'
<1>1. PICK p \in Paths : FileWritten(p) \/ FileRemoved(p) \/ FileRestored(p) \/ SidecarChanged(p)
  BY DEF Environment
<1>2. disk[p] \in [ver : Ver, here : BOOLEAN, side : Side]
  BY DEF TypeOK
<1>3. ASSUME NEW d \in [ver : Ver, here : BOOLEAN, side : Side], Change(p, d)
      PROVE  TypeOK'
  <2>1. left' \in [{"change", "scan", "fault", "extra"} -> Nat]
    BY <1>3, SpentType DEF Change, TypeOK
  <2> QED
    BY <1>3, <2>1 DEF Change, TypeOK, fileFrame, rows
<1>4. CASE FileWritten(p)
  <2>1. disk[p].ver + 1 \in Ver
    BY <1>2, <1>4, MetadataAssumption DEF FileWritten, Ver
  <2>2. [disk[p] EXCEPT !.ver = @ + 1, !.here = TRUE] \in [ver : Ver, here : BOOLEAN, side : Side]
    BY <1>2, <2>1
  <2> QED
    BY <1>3, <1>4, <2>2 DEF FileWritten
<1>5. CASE FileRemoved(p)
  BY <1>2, <1>3, <1>5 DEF FileRemoved
<1>6. CASE FileRestored(p)
  BY <1>2, <1>3, <1>6 DEF FileRestored
<1>7. CASE SidecarChanged(p)
  <2>1. PICK s \in Side : Change(p, [disk[p] EXCEPT !.side = s])
    BY <1>7 DEF SidecarChanged
  <2> QED
    BY <1>2, <1>3, <2>1
<1> QED
  BY <1>1, <1>4, <1>5, <1>6, <1>7

\* A catalog job never dispatches or writes without a path it discovered.
LEMMA ScanType ==
  ASSUME TypeOK
  PROVE  /\ \A p \in Paths : ScanDiscover(p) => TypeOK'
         /\ ScanWrite \/ DispatchStat \/ ScanAbandoned => TypeOK'
         /\ DispatchWrite => TypeOK'
<1> DEFINE Going == [pc : {"write", "stat", "dispatch"}, path : Paths, ver : Ver]
<1>1. scan \in Going \cup {NoScan}
  BY DEF TypeOK
<1>2. ASSUME NEW p \in Paths, ScanDiscover(p)
      PROVE  TypeOK'
  <2>1. scan' \in Going
    BY <1>2, ZeroType DEF ScanDiscover, TypeOK
  <2>2. left' \in [{"change", "scan", "fault", "extra"} -> Nat]
    BY <1>2, SpentType DEF ScanDiscover, TypeOK
  <2> QED
    BY <1>2, <2>1, <2>2 DEF ScanDiscover, TypeOK, scanFrame, rows
<1>3. ASSUME scan.pc # "idle"
      PROVE  scan \in Going /\ scan.path \in Paths /\ scan.ver \in Ver
  BY <1>1, <1>3 DEF NoScan
<1>4. CASE ScanWrite
  <2> DEFINE p == scan.path
             gone == [asset[p] EXCEPT !.active = FALSE]
             seen == [ver |-> scan.ver, active |-> TRUE,
                      mstate |-> IF asset[p].ver = scan.ver THEN asset[p].mstate ELSE "pending"]
  <2>0. scan \in Going /\ p \in Paths /\ scan.ver \in Ver /\ asset[p] \in Asset
    BY <1>3, <1>4 DEF ScanWrite, TypeOK
  <2>1. CASE scan.ver = 0
    <3>1. gone \in Asset
      BY <2>0 DEF Asset
    <3>2. asset' = [asset EXCEPT ![p] = gone] /\ scan' = NoScan
      BY <1>4, <2>1 DEF ScanWrite
    <3> HIDE DEF gone
    <3>3. asset' \in [Paths -> Asset]
      BY <3>1, <3>2 DEF TypeOK
    <3> QED
      BY <1>4, <3>2, <3>3 DEF ScanWrite, TypeOK, scanFrame
  <2>2. CASE scan.ver # 0
    <3>1. seen \in Asset
      BY <2>0 DEF Asset
    <3>2. asset' = [asset EXCEPT ![p] = seen] /\ scan' = [scan EXCEPT !.pc = "stat"]
      BY <1>4, <2>2 DEF ScanWrite
    <3> HIDE DEF seen
    <3>3. asset' \in [Paths -> Asset]
      BY <3>1, <3>2 DEF TypeOK
    <3>4. scan' \in Going
      BY <2>0, <3>2
    <3> QED
      BY <1>4, <3>3, <3>4 DEF ScanWrite, TypeOK, scanFrame
  <2> QED
    BY <2>1, <2>2
<1>5. CASE DispatchStat
  <2>1. scan \in Going /\ disk[scan.path].ver \in Ver
    BY <1>3, <1>5 DEF DispatchStat, TypeOK
  <2>2. scan' \in Going \cup {NoScan}
    BY <1>5, <2>1 DEF DispatchStat
  <2> QED
    BY <1>5, <2>2 DEF DispatchStat, TypeOK, scanFrame, rows
<1>6. CASE ScanAbandoned
  BY <1>6 DEF ScanAbandoned, TypeOK, scanFrame, rows
<1>7. CASE DispatchWrite
  <2> DEFINE p == scan.path
             v == scan.ver
  <2>1. p \in Paths /\ v \in Ver
    BY <1>3, <1>7 DEF DispatchWrite
  <2>2. MarkedCurrent(p, v, im[p]) \in [Paths -> Job]
    BY <2>1, MarkedCurrentType DEF TypeOK
  <2>3. AssetDone(p, Outcome(im[p], p, v)) \in [Paths -> Asset]
    BY <2>1, AssetDoneType DEF TypeOK
  <2>4. Dispatched(job[p], v) \in Job
    BY <2>1, DispatchedType DEF TypeOK
  <2>5. job' \in [Paths -> Job]
    BY <1>7, <2>2, <2>4 DEF DispatchWrite, TypeOK
  <2>6. asset' \in [Paths -> Asset]
    BY <1>7, <2>3 DEF DispatchWrite, TypeOK
  <2> QED
    BY <1>7, <2>5, <2>6 DEF DispatchWrite, TypeOK, scanFrame
<1> QED
  BY <1>2, <1>4, <1>5, <1>6, <1>7

LEMMA ReaderType ==
  ASSUME TypeOK
  PROVE  /\ \A p \in Paths : ReaderStat(p) => TypeOK'
         /\ ReaderRead => TypeOK'
         /\ ReaderWrite => TypeOK'
<1> DEFINE Going == [pc : {"read", "write"}, path : Paths, meta : Meta]
<1>1. reader \in Going \cup {NoReader}
  BY DEF TypeOK
<1>2. ASSUME NEW p \in Paths, ReaderStat(p)
      PROVE  TypeOK'
  <2>1. disk[p].ver \in Ver
    BY DEF TypeOK
  <2>2. [NoMeta EXCEPT !.ver = disk[p].ver] \in Meta
    BY <2>1, ZeroType DEF NoMeta, Meta
  <2>3. reader' \in Going
    BY <1>2, <2>2 DEF ReaderStat
  <2>4. left' \in [{"change", "scan", "fault", "extra"} -> Nat]
    BY <1>2, SpentType DEF ReaderStat, TypeOK
  <2> QED
    BY <1>2, <2>3, <2>4 DEF ReaderStat, TypeOK, readerFrame, rows
<1>3. ASSUME reader.pc # "idle"
      PROVE  reader \in Going /\ reader.path \in Paths /\ reader.meta \in Meta
  BY <1>1, <1>3 DEF NoReader
<1>4. CASE ReaderRead
  <2> DEFINE r == [pc |-> "write", path |-> reader.path,
                   meta |-> [ver |-> reader.meta.ver, side |-> disk[reader.path].side,
                             content |-> disk[reader.path].ver]]
  <2>1. /\ reader.path \in Paths /\ reader.meta.ver \in Ver
        /\ disk[reader.path].ver \in Ver /\ disk[reader.path].side \in Side
    BY <1>3, <1>4 DEF ReaderRead, TypeOK, Meta
  <2>2. r \in Going
    BY <2>1 DEF Meta
  <2>3. reader' = r \/ reader' = NoReader
    BY <1>4 DEF ReaderRead
  <2> HIDE DEF r
  <2>4. reader' \in Going \cup {NoReader}
    BY <2>2, <2>3
  <2> QED
    BY <1>4, <2>4 DEF ReaderRead, TypeOK, readerFrame, rows
<1>5. CASE ReaderWrite
  <2> DEFINE p == reader.path
             v == reader.meta.ver
             m == Upserted(p, reader.meta)
  <2>1. p \in Paths /\ reader.meta \in Meta /\ v \in Ver
    BY <1>3, <1>5 DEF ReaderWrite, Meta
  <2>2. m \in [Paths -> Metadata]
    BY <2>1, UpsertedType DEF TypeOK
  <2>3. MarkedCurrent(p, v, m[p]) \in [Paths -> Job]
    BY <2>1, MarkedCurrentType DEF TypeOK
  <2>4. AssetDone(p, Outcome(m[p], p, v)) \in [Paths -> Asset]
    BY <2>1, AssetDoneType DEF TypeOK
  <2>5. im' = m
    BY <1>5 DEF ReaderWrite
  <2>6. job' \in [Paths -> Job] /\ asset' \in [Paths -> Asset]
    BY <1>5, <2>3, <2>4 DEF ReaderWrite, TypeOK
  <2> QED
    BY <1>5, <2>2, <2>5, <2>6 DEF ReaderWrite, TypeOK, readerFrame
<1> QED
  BY <1>2, <1>4, <1>5

LEMMA RenderType ==
  ASSUME TypeOK
  PROVE  /\ \A p \in Paths : RenderStat(p) => TypeOK'
         /\ RenderWrite => TypeOK'
<1>1. ASSUME NEW p \in Paths, RenderStat(p)
      PROVE  TypeOK'
  <2>1. render' \in [path : Paths, ver : Ver]
    BY <1>1 DEF RenderStat, TypeOK
  <2>2. left' \in [{"change", "scan", "fault", "extra"} -> Nat]
    BY <1>1, SpentType DEF RenderStat, TypeOK
  <2> QED
    BY <1>1, <2>1, <2>2 DEF RenderStat, TypeOK, renderFrame, rows
<1>2. CASE RenderWrite
  <2> DEFINE p == render.path
             a == [ver |-> render.ver, mstate |-> "done",
                   active |-> IF asset[p].ver = 0 THEN TRUE ELSE asset[p].active]
             d == [im[p] EXCEPT !.sec = render.ver]
  <2>1. p \in Paths /\ render.ver \in Ver
    BY <1>2 DEF RenderWrite, TypeOK
  <2>2. a \in Asset
    BY <2>1 DEF TypeOK, Asset
  <2>3. d \in Metadata
    BY <2>1 DEF TypeOK, Metadata
  <2>4. asset' = [asset EXCEPT ![p] = a] /\ im' = [im EXCEPT ![p] = d]
    BY <1>2 DEF RenderWrite
  <2> HIDE DEF a, d
  <2>5. asset' \in [Paths -> Asset] /\ im' \in [Paths -> Metadata]
    BY <2>2, <2>3, <2>4 DEF TypeOK
  <2> QED
    BY <1>2, <2>5 DEF RenderWrite, TypeOK, renderFrame
<1> QED
  BY <1>1, <1>2

\* The integrity pass over one row.
LEMMA IntegrityType ==
  ASSUME TypeOK, Integrity
  PROVE  TypeOK'
<1> DEFINE j1(p) == RecoveredIfAbandoned(job[p])
           lost(p) == asset[p].mstate = "done" /\ ~Matches(im[p], asset[p].ver)
           j2(p) == IF ~lost(p) \/ j1(p).state = "running" THEN j1(p)
                    ELSE IF j1(p).state = "none" THEN [NoJob EXCEPT !.state = "queued", !.ver = asset[p].ver]
                    ELSE [j1(p) EXCEPT !.state = "queued"]
           done(p) == \/ asset[p].mstate = "done" /\ ~lost(p)
                      \/ j2(p).state = "done" /\ Matches(im[p], j2(p).ver) /\ asset[p].ver = j2(p).ver
           orphan(p) == asset[p].ver = 0 /\ j2(p).state \in {"queued", "running"}
           j3(p) == IF orphan(p) THEN [j2(p) EXCEPT !.state = "failed"] ELSE j2(p)
           a(p) == [asset[p] EXCEPT !.mstate = IF done(p) THEN "done" ELSE "pending"]
<1>1. /\ job' = [p \in Paths |-> j3(p)]
      /\ asset' = [p \in Paths |-> a(p)]
  BY DEF Integrity
<1>2. \A p \in Paths : a(p) \in Asset
  <2>1. \A p \in Paths : asset[p] \in Asset
    BY DEF TypeOK
  <2> HIDE DEF done
  <2> QED
    BY <2>1 DEF Asset
<1>3. \A p \in Paths : j3(p) \in Job
  <2> SUFFICES ASSUME NEW p \in Paths
               PROVE  j3(p) \in Job
    OBVIOUS
  <2>1. j1(p) \in Job
    BY RecoveredType DEF TypeOK
  <2>2. [NoJob EXCEPT !.state = "queued", !.ver = asset[p].ver] \in Job
    BY ZeroType DEF TypeOK, Asset, NoJob, Job, JobStates, MaybeToken
  <2>3. [j1(p) EXCEPT !.state = "queued"] \in Job
    BY <2>1 DEF Job, JobStates
  <2> HIDE DEF j1, lost
  <2>4. j2(p) \in Job
    BY <2>1, <2>2, <2>3
  <2> HIDE DEF j2
  <2>5. [j2(p) EXCEPT !.state = "failed"] \in Job
    BY <2>4 DEF Job, JobStates
  <2> QED
    BY <2>4, <2>5
<1> HIDE DEF j3, a
<1>4. job' \in [Paths -> Job] /\ asset' \in [Paths -> Asset]
  BY <1>1, <1>2, <1>3
<1>5. left' \in [{"change", "scan", "fault", "extra"} -> Nat]
  BY SpentType DEF Integrity, TypeOK
<1>6. sweep' \in [pc : {"idle", "look", "fail"}, missing : SUBSET Paths]
  BY DEF Integrity, TypeOK
<1> QED
  BY <1>4, <1>5, <1>6 DEF Integrity, TypeOK, housekeepingFrame

LEMMA HousekeepingType ==
  ASSUME TypeOK
  PROVE  /\ IntegrityLook \/ IntegrityFail => TypeOK'
         /\ \A p \in Paths : CleanupStale(p) \/ ForgetOffline(p) => TypeOK'
<1>1. CASE IntegrityLook
  <2>1. sweep' \in [pc : {"idle", "look", "fail"}, missing : SUBSET Paths]
    BY <1>1 DEF IntegrityLook
  <2> QED
    BY <1>1, <2>1 DEF IntegrityLook, TypeOK, housekeepingFrame, rows
<1>2. CASE IntegrityFail
  <2>1. \A p \in Paths : [job[p] EXCEPT !.state = "failed"] \in Job
    <3>1. \A p \in Paths : job[p] \in Job
      BY DEF TypeOK
    <3> QED
      BY <3>1 DEF Job, JobStates
  <2>2. job' \in [Paths -> Job]
    BY <1>2, <2>1 DEF IntegrityFail, TypeOK
  <2>3. sweep' \in [pc : {"idle", "look", "fail"}, missing : SUBSET Paths]
    BY <1>2 DEF IntegrityFail, NoSweep
  <2> QED
    BY <1>2, <2>2, <2>3 DEF IntegrityFail, TypeOK, housekeepingFrame
<1>3. /\ NoJob \in Job
      /\ NoMetadata \in Metadata
      /\ NoAsset \in Asset
  BY ZeroType DEF NoJob, Job, JobStates, MaybeToken, NoMetadata, Metadata, NoAsset, Asset
<1>4. ASSUME NEW p \in Paths, CleanupStale(p)
      PROVE  TypeOK'
  BY <1>3, <1>4 DEF CleanupStale, TypeOK, housekeepingFrame
<1>5. ASSUME NEW p \in Paths, ForgetOffline(p)
      PROVE  TypeOK'
  BY <1>3, <1>5 DEF ForgetOffline, TypeOK, housekeepingFrame
<1> QED
  BY <1>1, <1>2, <1>4, <1>5

LEMMA RestartType ==
  ASSUME TypeOK, Crash \/ Startup
  PROVE  TypeOK'
<1>0. \A p \in Paths : job[p] \in Job
  BY DEF TypeOK
<1>1. CASE Crash
  <2>1. Idle \in Worker
    BY DEF Idle, Worker
  <2>2. worker' \in [Workers -> Worker] /\ buf' \in [Workers -> Seq(Claim)] /\ pend' \in [Paths -> MaybeToken]
    BY <1>1, <2>1 DEF Crash, MaybeToken
  <2>3. left' \in [{"change", "scan", "fault", "extra"} -> Nat]
    BY <1>1, SpentType DEF Crash, TypeOK
  <2>4. sweep' \in [pc : {"idle", "look", "fail"}, missing : SUBSET Paths]
    BY <1>1 DEF Crash, NoSweep
  <2>5. /\ scan' = NoScan /\ reader' = NoReader /\ render' = NoRender /\ phase' = "reset"
        /\ plan' \in [Paths -> {"keep", "skip", "demote", "repair"}]
        /\ disk' = disk /\ asset' = asset /\ im' = im /\ job' = job
    BY <1>1 DEF Crash, rows
  <2> QED
    BY <2>2, <2>3, <2>4, <2>5 DEF TypeOK
<1>2. CASE ResetRunning
  <2>1. job' \in [Paths -> Job]
    BY <1>0, <1>2, RecoveredType DEF ResetRunning
  <2> QED
    BY <1>2, <2>1 DEF ResetRunning, TypeOK, recoveryFrame
<1>3. CASE PlanRepairs
  <2>1. plan' \in [Paths -> {"keep", "skip", "demote", "repair"}]
    BY <1>3 DEF PlanRepairs
  <2> QED
    BY <1>3, <2>1 DEF PlanRepairs, TypeOK, recoveryFrame
<1>4. CASE ApplyRepairs
  <2>1. \A p \in Paths, s \in JobStates : [job[p] EXCEPT !.state = s] \in Job
    BY <1>0 DEF Job
  <2>2. job' \in [Paths -> Job]
    BY <1>0, <1>4, <2>1 DEF ApplyRepairs, JobStates
  <2>3. \A p \in Paths : [asset[p] EXCEPT !.mstate = "done"] \in Asset
    <3>1. \A p \in Paths : asset[p] \in Asset
      BY DEF TypeOK
    <3> QED
      BY <3>1 DEF Asset
  <2>4. asset' \in [Paths -> Asset]
    BY <1>4, <2>3 DEF ApplyRepairs, TypeOK
  <2>5. plan' \in [Paths -> {"keep", "skip", "demote", "repair"}]
    BY <1>4 DEF ApplyRepairs
  <2> QED
    BY <1>4, <2>2, <2>4, <2>5 DEF ApplyRepairs, TypeOK, recoveryFrame
<1> QED
  BY <1>1, <1>2, <1>3, <1>4 DEF Startup

LEMMA InitType ==
  ASSUME Init
  PROVE  TypeOK
<1>1. 1 \in Ver /\ 0 \in Ver /\ 0 \in Side
  BY MetadataAssumption DEF Ver, Side
<1>2. disk \in [Paths -> [ver : Ver, here : BOOLEAN, side : Side]]
  <2>1. \A p \in Paths : disk[p] \in [ver : Ver, here : BOOLEAN, side : Side]
    BY <1>1 DEF Init
  <2> QED
    BY <2>1 DEF Init
<1>3. NoAsset \in Asset /\ NoMetadata \in Metadata /\ NoJob \in Job
  BY <1>1 DEF NoAsset, Asset, NoMetadata, Metadata, NoJob, Job, JobStates, MaybeToken
<1>4. asset \in [Paths -> Asset] /\ im \in [Paths -> Metadata] /\ job \in [Paths -> Job]
  BY <1>3 DEF Init
<1>5. Idle \in Worker
  BY DEF Idle, Worker
<1>6. worker \in [Workers -> Worker] /\ buf \in [Workers -> Seq(Claim)] /\ pend \in [Paths -> MaybeToken]
  BY <1>5 DEF Init, MaybeToken
<1>7. /\ scan = NoScan /\ reader = NoReader /\ render = NoRender /\ phase = "up"
      /\ sweep \in [pc : {"idle", "look", "fail"}, missing : SUBSET Paths]
      /\ plan \in [Paths -> {"keep", "skip", "demote", "repair"}]
  BY DEF Init, NoSweep
<1>8. left \in [{"change", "scan", "fault", "extra"} -> Nat]
  BY MetadataAssumption DEF Init
<1> QED
  BY <1>2, <1>4, <1>6, <1>7, <1>8 DEF TypeOK

LEMMA NextType ==
  ASSUME TypeOK, [Next]_vars
  PROVE  TypeOK'
<1>1. CASE UNCHANGED vars
  BY <1>1 DEF vars, TypeOK
<1>2. ASSUME NEW w \in Workers, WorkerStep(w)
      PROVE  TypeOK'
  BY <1>2, ClaimType, NextBufferedType, RunJobType, FinishType DEF WorkerStep
<1>3. ASSUME NEW p \in Paths, LeaseExpires(p) \/ BackoffElapses(p)
      PROVE  TypeOK'
  BY <1>3, UpkeepType
<1>4. CASE SupervisorStep
  BY <1>4, UpkeepType DEF SupervisorStep, Outcomes
<1>5. CASE Service
  BY <1>5, UpkeepType, ScanType, ReaderType, RenderType, IntegrityType, HousekeepingType
     DEF Service, Outcomes
<1>6. CASE Environment
  BY <1>6, EnvironmentType
<1>7. CASE Crash \/ Startup
  BY <1>7, RestartType
<1> QED
  BY <1>1, <1>2, <1>3, <1>4, <1>5, <1>6, <1>7 DEF Next

\* The type invariant holds in every reachable state.
THEOREM TypeCorrect == Spec => []TypeOK
BY InitType, NextType, PTL DEF Spec

-----------------------------------------------------------------------------
(* Ownership.  A running row comes from a claim alone, and a claim takes   *)
(* tokens nobody holds.                                                    *)

\* No two workers hold the same token: what SoleOwner needs to be inductive.
DistinctTokens ==
  \A v, w \in Workers : v # w =>
    \A c \in ClaimsOf(v), d \in ClaimsOf(w) : c.token # d.token

OwnershipInv == TypeOK /\ DistinctTokens /\ OwnerViewIsCurrent

\* Row k, after j, is running only if j was, for the same owner, version and attempt.
Kept(j, k) ==
  k.state = "running" => j.state = "running" /\ k.token = j.token /\ k.ver = j.ver /\ k.attempts = j.attempts

JobsKept == \A p \in Paths : Kept(job[p], job'[p])
ClaimsKept == \A w \in Workers : ClaimsOf(w)' \subseteq ClaimsOf(w)

LEMMA RecoveredKept ==
  ASSUME NEW j \in Job
  PROVE  /\ Recovered(j).state # "running"
         /\ Kept(j, RecoveredIfAbandoned(j))
BY DEF Recovered, RecoveredIfAbandoned, Release, Kept, Job

LEMMA DispatchedKept ==
  ASSUME NEW j \in Job, NEW v \in Ver
  PROVE  Kept(j, Dispatched(j, v))
<1> DEFINE same == j.state # "none" /\ j.ver = v
           k == IF same THEN RecoveredIfAbandoned(j) ELSE j
           r == Release(k, "queued")
           q == [r EXCEPT !.ver = v, !.attempts = IF same THEN @ ELSE 0]
<1>1. k \in Job /\ Kept(j, k)
  BY RecoveredType, RecoveredKept DEF Kept
<1>2. r \in Job /\ r.state = "queued"
  <2>1. r \in Job
    BY <1>1, ReleaseType DEF JobStates
  <2>2. r.state = "queued"
    BY <1>1 DEF Release, Job
  <2> QED
    BY <2>1, <2>2
<1> HIDE DEF r
<1>3. q.state = "queued"
  BY <1>2 DEF Job
<1>4. Dispatched(j, v) = k \/ Dispatched(j, v) = q
  BY DEF Dispatched, r
<1> HIDE DEF q, k
<1> QED
  BY <1>1, <1>3, <1>4 DEF Kept

LEMMA MarkedCurrentKept ==
  ASSUME job \in [Paths -> Job], NEW p \in Paths, NEW v \in Ver, NEW m, job' = MarkedCurrent(p, v, m)
  PROVE  JobsKept
<1> DEFINE j == [job[p] EXCEPT !.ver = v]
           s == Outcome(m, p, v)
<1>1. j \in Job
  BY DEF Job
<1>2. s \in {"done", "skipped", "stale"}
  BY OutcomeType
<1>3. job' = [job EXCEPT ![p] = Completed(j, s)]
  BY DEF MarkedCurrent
<1> HIDE DEF j, s
<1>4. Completed(j, s).state = s
  BY <1>1, <1>2 DEF Completed, Release, Job
<1>5. Kept(job[p], Completed(j, s))
  BY <1>2, <1>4 DEF Kept
<1> QED
  BY <1>3, <1>5 DEF JobsKept, Kept

LEMMA ClaimsTyped ==
  ASSUME TypeOK, NEW w \in Workers
  PROVE  ClaimsOf(w) \subseteq Claim
<1>1. \A i \in 1..Len(buf[w]) : buf[w][i] \in Claim
  BY DEF TypeOK
<1>2. Busy(w) => worker[w].claim \in Claim
  BY WorkerType DEF TypeOK
<1> QED
  BY <1>1, <1>2 DEF ClaimsOf

\* A worker step that stays with its claim or drops it adds no claim.
LEMMA StepKeepsClaims ==
  ASSUME TypeOK, NEW w \in Workers, buf' = buf,
         \/ ToIdle(w)
         \/ Busy(w) /\ \E s : ToState(w, s) \/ \E m : GoesOn(w, s, m)
  PROVE  ClaimsKept
<1>1. \A v \in Workers : v # w => worker'[v] = worker[v]
  BY DEF ToIdle, ToState, GoesOn, TypeOK
<1>2. CASE ToIdle(w)
  <2>1. ~Busy(w)'
    BY <1>2 DEF ToIdle, TypeOK, Idle, Busy
  <2> QED
    BY <1>1, <2>1 DEF ClaimsKept, ClaimsOf, Busy
<1>3. CASE Busy(w) /\ \E s : ToState(w, s) \/ \E m : GoesOn(w, s, m)
  <2>1. worker'[w].claim = worker[w].claim
    BY <1>3, WorkerType DEF ToState, GoesOn, TypeOK
  <2> QED
    BY <1>1, <1>3, <2>1 DEF ClaimsKept, ClaimsOf, Busy
<1> QED
  BY <1>2, <1>3

LEMMA SameClaims ==
  ASSUME worker' = worker, buf' = buf
  PROVE  ClaimsKept
BY DEF ClaimsKept, ClaimsOf, Busy

LEMMA SameJobs ==
  ASSUME job' = job
  PROVE  JobsKept
BY DEF JobsKept, Kept

LEMMA SettleKept ==
  ASSUME TypeOK, NEW w \in Workers, NEW o, NEW k, k.state # "running", SettleRow(w, o, k)
  PROVE  JobsKept
BY DEF TypeOK, SettleRow, JobsKept, Kept

LEMMA RunJobKeeps ==
  ASSUME TypeOK, NEW w \in Workers,
         CheckCurrent(w) \/ ExtractStat(w) \/ ExtractRead(w) \/ Recheck(w)
  PROVE  ClaimsKept /\ JobsKept
<1>1. Busy(w)
  BY DEF Busy, CheckCurrent, ExtractStat, ExtractRead, Recheck
<1>2. buf' = buf /\ job' = job
  BY DEF CheckCurrent, ExtractStat, ExtractRead, Recheck, rows
<1>3. ToIdle(w) \/ \E s : ToState(w, s) \/ \E m : GoesOn(w, s, m)
  <2>1. CASE CheckCurrent(w)
    BY <2>1 DEF CheckCurrent
  <2>2. CASE ExtractStat(w)
    BY <2>2 DEF ExtractStat
  <2>3. CASE ExtractRead(w)
    BY <2>3 DEF ExtractRead
  <2>4. CASE Recheck(w)
    BY <2>4 DEF Recheck
  <2> QED
    BY <2>1, <2>2, <2>3, <2>4
<1> QED
  BY <1>1, <1>2, <1>3, StepKeepsClaims, SameJobs

LEMMA FinishKeeps ==
  ASSUME TypeOK, NEW w \in Workers, NEW o,
         MarkStale(w, o) \/ PersistAndComplete(w, o) \/ RecordFailure(w, o)
  PROVE  ClaimsKept /\ JobsKept
<1>1. Busy(w)
  BY DEF Busy, MarkStale, PersistAndComplete, RecordFailure
<1>2. buf' = buf
  BY DEF MarkStale, PersistAndComplete, RecordFailure
<1>3. ToIdle(w) \/ \E s : ToState(w, s)
  BY DEF MarkStale, PersistAndComplete, RecordFailure, AfterOp
<1>4. ClaimsKept
  BY <1>1, <1>2, <1>3, StepKeepsClaims
<1> DEFINE p == worker[w].claim.path
<1>5. job[p] \in Job
  BY <1>1, WorkerType DEF TypeOK, Claim
<1>6. \A s \in JobStates : Release(job[p], s).state = s
  BY <1>5 DEF Release, Job
<1>7. CASE MarkStale(w, o)
  <2>1. SettleRow(w, o, Release(job[p], "stale")) /\ Release(job[p], "stale").state = "stale"
    BY <1>6, <1>7 DEF MarkStale, JobStates
  <2> QED
    BY <1>4, <2>1, SettleKept
<1>8. CASE RecordFailure(w, o)
  <2>1. Release(job[p], "queued") \in Job
    BY <1>5, ReleaseType DEF JobStates
  <2>2. [Release(job[p], "queued") EXCEPT !.due = FALSE].state = "queued"
    BY <1>6, <2>1 DEF Job, JobStates
  <2> QED
    <3>1. \/ SettleRow(w, o, [Release(job[p], "queued") EXCEPT !.due = FALSE])
          \/ SettleRow(w, o, Release(job[p], "failed"))
      BY <1>8 DEF RecordFailure
    <3>2. Release(job[p], "failed").state = "failed"
      BY <1>6 DEF JobStates
    <3>3. CASE SettleRow(w, o, [Release(job[p], "queued") EXCEPT !.due = FALSE])
      BY <1>4, <2>2, <3>3, SettleKept
    <3>4. CASE SettleRow(w, o, Release(job[p], "failed"))
      BY <1>4, <3>2, <3>4, SettleKept
    <3> QED
      BY <3>1, <3>3, <3>4
<1>9. CASE PersistAndComplete(w, o)
  <2> DEFINE m == Upserted(p, worker[w].meta)
             s == Outcome(m[p], p, worker[w].claim.ver)
  <2>1. s \in {"done", "skipped", "stale"}
    BY OutcomeType
  <2>2. \/ SettleRow(w, o, Completed(job[p], s))
        \/ job' = job
    BY <1>9 DEF PersistAndComplete, rows
  <2> HIDE DEF s
  <2>3. Completed(job[p], s).state = s
    BY <1>5, <2>1 DEF Completed, Release, Job
  <2> QED
    <3>1. CASE SettleRow(w, o, Completed(job[p], s))
      BY <1>4, <2>1, <2>3, <3>1, SettleKept
    <3> QED
      BY <1>4, <2>2, <3>1, SameJobs
<1> QED
  BY <1>4, <1>7, <1>8, <1>9

LEMMA NextBufferedKeeps ==
  ASSUME TypeOK, NEW w \in Workers, NextBuffered(w)
  PROVE  ClaimsKept /\ JobsKept
<1>1. buf[w] \in Seq(Claim) /\ buf[w] # <<>>
  BY DEF TypeOK, NextBuffered
<1>2. /\ worker'[w].claim = Head(buf[w])
      /\ buf'[w] = Tail(buf[w])
      /\ \A v \in Workers : v # w => worker'[v] = worker[v] /\ buf'[v] = buf[v]
  BY DEF TypeOK, NextBuffered
<1>3. /\ Head(buf[w]) = buf[w][1] /\ 1 \in 1..Len(buf[w])
      /\ \A i \in 1..Len(Tail(buf[w])) : i + 1 \in 1..Len(buf[w]) /\ Tail(buf[w])[i] = buf[w][i + 1]
  BY <1>1
<1>4. ClaimsOf(w)' \subseteq ClaimsOf(w)
  BY <1>2, <1>3 DEF ClaimsOf
<1>5. ClaimsKept
  <2>1. \A v \in Workers : v # w => ClaimsOf(v)' = ClaimsOf(v)
    BY <1>2 DEF ClaimsOf, Busy
  <2> QED
    BY <1>4, <2>1 DEF ClaimsKept
<1> QED
  BY <1>5, SameJobs DEF NextBuffered, rows

LEMMA UpkeepKeeps ==
  ASSUME TypeOK
  PROVE  /\ \A w \in Workers : Renew(w) => ClaimsKept /\ JobsKept
         /\ \A w \in Workers, o \in Outcomes : WorkerExit(w, o) => ClaimsKept /\ JobsKept
         /\ \A o \in Outcomes : Supervise(o) => ClaimsKept /\ JobsKept
         /\ \A p \in Paths : LeaseExpires(p) \/ BackoffElapses(p) => ClaimsKept /\ JobsKept
<1>1. \A p \in Paths : job[p] \in Job
  BY DEF TypeOK
<1>2. ASSUME NEW w \in Workers, Renew(w)
      PROVE  ClaimsKept /\ JobsKept
  <2>1. \A p \in Paths : Kept(job[p], [job[p] EXCEPT !.lease = "live"]) /\ Kept(job[p], job[p])
    BY <1>1 DEF Job, Kept
  <2>2. JobsKept
    BY <1>2, <2>1 DEF Renew, JobsKept
  <2> QED
    BY <1>2, <2>2, SameClaims DEF Renew
<1>3. ASSUME NEW w \in Workers, NEW o \in Outcomes, WorkerExit(w, o)
      PROVE  ClaimsKept /\ JobsKept
  <2>1. \A p \in Paths : GivenBack(job[p]).state = "queued"
    <3>1. \A p \in Paths : Release(job[p], "queued") \in Job
      BY <1>1, ReleaseType DEF JobStates
    <3>2. \A p \in Paths : Release(job[p], "queued").state = "queued"
      BY <1>1 DEF Release, Job
    <3> QED
      BY <3>1, <3>2 DEF GivenBack, Job
  <2>2. JobsKept
    BY <1>3, <2>1 DEF WorkerExit, JobsKept, Kept
  <2>3. /\ ~Busy(w)' /\ buf'[w] = <<>>
        /\ \A v \in Workers : v # w => worker'[v] = worker[v] /\ buf'[v] = buf[v]
    BY <1>3 DEF WorkerExit, TypeOK, Busy, Idle
  <2>4. ClaimsKept
    BY <2>3 DEF ClaimsKept, ClaimsOf, Busy
  <2> QED
    BY <2>2, <2>4
<1>4. ASSUME NEW o \in Outcomes, Supervise(o)
      PROVE  ClaimsKept /\ JobsKept
  <2>1. JobsKept
    BY <1>1, <1>4, RecoveredKept DEF Supervise, JobsKept, Kept
  <2>2. /\ buf' = buf
        /\ \A w \in Workers : Busy(w)' => Busy(w) /\ worker'[w] = worker[w]
    BY <1>4 DEF Supervise, TypeOK, Busy, Idle
  <2>3. ClaimsKept
    BY <2>2 DEF ClaimsKept, ClaimsOf
  <2> QED
    BY <2>1, <2>3
<1>5. ASSUME NEW p \in Paths, LeaseExpires(p) \/ BackoffElapses(p)
      PROVE  ClaimsKept /\ JobsKept
  <2>1. Kept(job[p], [job[p] EXCEPT !.lease = "expired"]) /\ Kept(job[p], [job[p] EXCEPT !.due = TRUE])
    BY <1>1 DEF Job, Kept
  <2>2. JobsKept
    BY <1>5, <2>1 DEF LeaseExpires, BackoffElapses, JobsKept, Kept, TypeOK
  <2> QED
    BY <1>5, <2>2, SameClaims DEF LeaseExpires, BackoffElapses, timeFrame
<1> QED
  BY <1>2, <1>3, <1>4, <1>5

\* The environment and every other service leave the threads' claims alone and
\* never make a row running.
LEMMA ServiceKeeps ==
  ASSUME TypeOK, Service \/ Environment
  PROVE  ClaimsKept /\ JobsKept
<1>1. \A p \in Paths : job[p] \in Job
  BY DEF TypeOK
<1>2. CASE Environment
  BY <1>2, SameClaims, SameJobs
     DEF Environment, FileWritten, FileRemoved, FileRestored, SidecarChanged, Change, fileFrame, rows
<1>3. ASSUME NEW p \in Paths, ScanDiscover(p) \/ ReaderStat(p) \/ RenderStat(p)
      PROVE  ClaimsKept /\ JobsKept
  BY <1>3, SameClaims, SameJobs
     DEF ScanDiscover, ReaderStat, RenderStat, scanFrame, readerFrame, renderFrame, rows
<1>4. CASE ScanWrite \/ DispatchStat \/ ScanAbandoned
  BY <1>4, SameClaims, SameJobs DEF ScanWrite, DispatchStat, ScanAbandoned, scanFrame, rows
<1>5. CASE ReaderRead \/ RenderWrite \/ IntegrityLook
  BY <1>5, SameClaims, SameJobs
     DEF ReaderRead, RenderWrite, IntegrityLook, readerFrame, renderFrame, housekeepingFrame, rows
<1>6. CASE DispatchWrite
  <2>1. scan.path \in Paths /\ scan.ver \in Ver
    BY <1>6 DEF DispatchWrite, TypeOK, NoScan
  <2>2. Kept(job[scan.path], Dispatched(job[scan.path], scan.ver))
    BY <1>1, <2>1, DispatchedKept
  <2>3. \/ job' = MarkedCurrent(scan.path, scan.ver, im[scan.path])
        \/ job' = [job EXCEPT ![scan.path] = Dispatched(job[scan.path], scan.ver)]
    BY <1>6 DEF DispatchWrite
  <2>6. ClaimsKept
    BY <1>6, SameClaims DEF DispatchWrite, scanFrame
  <2>4. CASE job' = MarkedCurrent(scan.path, scan.ver, im[scan.path])
    BY <2>1, <2>4, <2>6, MarkedCurrentKept DEF TypeOK
  <2>5. CASE job' = [job EXCEPT ![scan.path] = Dispatched(job[scan.path], scan.ver)]
    BY <2>1, <2>2, <2>5, <2>6 DEF JobsKept, Kept, TypeOK
  <2> QED
    BY <2>3, <2>4, <2>5
<1>7. CASE ReaderWrite
  <2> DEFINE m == Upserted(reader.path, reader.meta)
  <2>1. reader.path \in Paths /\ reader.meta.ver \in Ver
    BY <1>7 DEF ReaderWrite, TypeOK, NoReader, Meta
  <2>2. job' = MarkedCurrent(reader.path, reader.meta.ver, m[reader.path]) \/ job' = job
    BY <1>7 DEF ReaderWrite
  <2> HIDE DEF m
  <2>4. ClaimsKept
    BY <1>7, SameClaims DEF ReaderWrite, readerFrame
  <2>3. CASE job' = MarkedCurrent(reader.path, reader.meta.ver, m[reader.path])
    BY <2>1, <2>3, <2>4, MarkedCurrentKept DEF TypeOK
  <2> QED
    BY <2>2, <2>3, <2>4, SameJobs
<1>8. CASE Integrity
  <2> DEFINE j1(p) == RecoveredIfAbandoned(job[p])
             lost(p) == asset[p].mstate = "done" /\ ~Matches(im[p], asset[p].ver)
             j2(p) == IF ~lost(p) \/ j1(p).state = "running" THEN j1(p)
                      ELSE IF j1(p).state = "none" THEN [NoJob EXCEPT !.state = "queued", !.ver = asset[p].ver]
                      ELSE [j1(p) EXCEPT !.state = "queued"]
             orphan(p) == asset[p].ver = 0 /\ j2(p).state \in {"queued", "running"}
             j3(p) == IF orphan(p) THEN [j2(p) EXCEPT !.state = "failed"] ELSE j2(p)
  <2>1. job' = [p \in Paths |-> j3(p)]
    BY <1>8 DEF Integrity
  <2>2. \A p \in Paths : Kept(job[p], j3(p))
    <3> SUFFICES ASSUME NEW p \in Paths
                 PROVE  Kept(job[p], j3(p))
      OBVIOUS
    <3>1. j1(p) \in Job /\ Kept(job[p], j1(p))
      BY <1>1, RecoveredType, RecoveredKept
    <3>2. [NoJob EXCEPT !.state = "queued", !.ver = asset[p].ver].state = "queued"
      BY DEF NoJob
    <3>3. [j1(p) EXCEPT !.state = "queued"].state = "queued"
      BY <3>1 DEF Job
    <3> HIDE DEF j1, lost
    <3>4. j2(p).state = "queued" \/ j2(p) = j1(p)
      BY <3>2, <3>3
    <3>5. Kept(job[p], j2(p))
      BY <3>1, <3>4 DEF Kept
    <3>6. [j2(p) EXCEPT !.state = "failed"].state # "running"
      <4>1. DOMAIN j2(p) = DOMAIN NoJob
        BY <3>1 DEF Job, NoJob
      <4> QED
        BY <4>1 DEF NoJob
    <3> HIDE DEF j2
    <3> QED
      BY <3>5, <3>6 DEF Kept
  <2> HIDE DEF j3
  <2>3. JobsKept
    BY <2>1, <2>2 DEF JobsKept
  <2> QED
    BY <1>8, <2>3, SameClaims DEF Integrity, housekeepingFrame
<1>9. CASE IntegrityFail
  <2>1. \A p \in Paths : [job[p] EXCEPT !.state = "failed"].state = "failed"
    BY <1>1 DEF Job
  <2>2. JobsKept
    BY <1>9, <2>1 DEF IntegrityFail, JobsKept, Kept
  <2> QED
    BY <1>9, <2>2, SameClaims DEF IntegrityFail, housekeepingFrame
<1>10. ASSUME NEW p \in Paths, CleanupStale(p) \/ ForgetOffline(p)
       PROVE  ClaimsKept /\ JobsKept
  <2>1. JobsKept
    BY <1>10 DEF CleanupStale, ForgetOffline, JobsKept, Kept, NoJob, TypeOK
  <2> QED
    BY <1>10, <2>1, SameClaims DEF CleanupStale, ForgetOffline, housekeepingFrame
<1> QED
  BY <1>2, <1>3, <1>4, <1>5, <1>6, <1>7, <1>8, <1>9, <1>10, UpkeepKeeps DEF Service, Outcomes

LEMMA RestartKeeps ==
  ASSUME TypeOK, Crash \/ Startup
  PROVE  ClaimsKept /\ JobsKept
<1>1. \A p \in Paths : job[p] \in Job
  BY DEF TypeOK
<1>2. CASE Crash
  <2>1. \A w \in Workers : ~Busy(w)' /\ buf'[w] = <<>>
    BY <1>2 DEF Crash, Busy, Idle
  <2>2. ClaimsKept
    BY <2>1 DEF ClaimsKept, ClaimsOf
  <2> QED
    BY <1>2, <2>2, SameJobs DEF Crash, rows
<1>3. CASE ResetRunning
  <2>1. JobsKept
    BY <1>1, <1>3, RecoveredKept DEF ResetRunning, JobsKept, Kept
  <2> QED
    BY <1>3, <2>1, SameClaims DEF ResetRunning, recoveryFrame
<1>4. CASE PlanRepairs
  BY <1>4, SameClaims, SameJobs DEF PlanRepairs, recoveryFrame
<1>5. CASE ApplyRepairs
  <2>1. \A p \in Paths : \A s \in JobStates : [job[p] EXCEPT !.state = s].state = s
    BY <1>1 DEF Job
  <2>2. JobsKept
    BY <1>5, <2>1 DEF ApplyRepairs, JobsKept, Kept, JobStates
  <2> QED
    BY <1>5, <2>2, SameClaims DEF ApplyRepairs, recoveryFrame
<1> QED
  BY <1>2, <1>3, <1>4, <1>5 DEF Startup

\* A step that adds no claim and makes no row running keeps ownership as it was.
LEMMA KeptOwnership ==
  ASSUME OwnershipInv, ClaimsKept, JobsKept
  PROVE  DistinctTokens' /\ OwnerViewIsCurrent'
<1>1. DistinctTokens'
  BY DEF OwnershipInv, DistinctTokens, ClaimsKept
<1>2. OwnerViewIsCurrent'
  <2> SUFFICES ASSUME NEW w \in Workers, NEW c \in ClaimsOf(w)', Owned(c)'
               PROVE  job'[c.path].ver = c.ver /\ job'[c.path].attempts = c.attempts
    BY DEF OwnerViewIsCurrent
  <2>1. c \in ClaimsOf(w)
    BY DEF ClaimsKept
  <2>2. c.path \in Paths
    BY <2>1, ClaimsTyped DEF OwnershipInv, Claim
  <2>3. Owned(c) /\ job'[c.path].ver = job[c.path].ver /\ job'[c.path].attempts = job[c.path].attempts
    BY <2>2 DEF JobsKept, Kept, Owned, OwnsRow
  <2> QED
    BY <2>1, <2>3 DEF OwnershipInv, OwnerViewIsCurrent
<1> QED
  BY <1>1, <1>2

\* A claim takes tokens nobody holds, so it neither shares one with another
\* worker nor makes another worker the owner of a row it had lost.
LEMMA ClaimOwnership ==
  ASSUME OwnershipInv, NEW v \in Workers, NEW o, ClaimJobs(v, o)
  PROVE  DistinctTokens' /\ OwnerViewIsCurrent'
<1>1. PICK n \in 1..ClaimBatch : \E ps \in [1..n -> Due], ts \in [1..n -> Fresh] : StartClaims(v, o, ps, ts, n)
  BY DEF ClaimJobs
<1>2. PICK ps \in [1..n -> Due], ts \in [1..n -> Fresh] : StartClaims(v, o, ps, ts, n)
  BY <1>1
<1> DEFINE claims == [i \in 1..n |-> [path |-> ps[i], ver |-> job[ps[i]].ver,
                                      attempts |-> job[ps[i]].attempts + 1, token |-> ts[i]]]
           Claimed(p) == \E i \in 1..n : ps[i] = p
           TokenOf(p) == ts[CHOOSE i \in 1..n : ps[i] = p]
           New == {claims[i] : i \in 1..n}
<1>3. n \in Nat /\ n > 0 /\ claims \in Seq(New) /\ claims # <<>> /\ Len(claims) = n
  BY MetadataAssumption
<1>4. \A i \in 1..n : ps[i] \in Paths /\ ts[i] \in Tokens /\ ts[i] \notin HeldTokens
  BY DEF Due, Fresh, UsedTokens
<1>5. \A p \in Paths : Claimed(p) => TokenOf(p) \in Tokens \ HeldTokens
  BY <1>4
<1>6. job' = [p \in Paths |-> IF Claimed(p) THEN Started(job[p], TokenOf(p)) ELSE job[p]]
  BY <1>2 DEF StartClaims
<1>7. \A c \in New : /\ c.token \in Tokens \ HeldTokens
                     /\ c.path \in Paths /\ Claimed(c.path)
                     /\ c.ver = job[c.path].ver /\ c.attempts = job[c.path].attempts + 1
  BY <1>4
<1>8. \A w \in Workers : w # v => ClaimsOf(w)' = ClaimsOf(w)
  BY <1>2 DEF StartClaims, ClaimsOf, Busy, OwnershipInv, TypeOK
<1>9. ClaimsOf(v)' \subseteq ClaimsOf(v) \cup New
  <2>1. CASE o = "ok"
    <3>1. /\ worker' = [worker EXCEPT ![v] = [pc |-> "check", claim |-> claims[1], meta |-> NoMeta]]
          /\ buf' = [buf EXCEPT ![v] = Tail(claims)]
      BY <1>2, <2>1 DEF StartClaims
    <3>2. claims[1] \in New
      BY <1>3
    <3> HIDE DEF claims, New
    <3>3. worker'[v].claim = claims[1] /\ buf'[v] = Tail(claims)
      BY <3>1 DEF OwnershipInv, TypeOK
    <3>4. Tail(claims) \in Seq(New)
      BY <1>3
    <3>5. \A i \in 1..Len(Tail(claims)) : Tail(claims)[i] \in New
      BY <3>4
    <3> QED
      BY <3>2, <3>3, <3>5 DEF ClaimsOf
  <2>2. CASE o # "ok"
    BY <1>2, <2>2 DEF StartClaims, ClaimsOf, Busy
  <2> QED
    BY <2>1, <2>2
<1>10. \A w \in Workers : \A c \in ClaimsOf(w) : c.token \in HeldTokens /\ c.path \in Paths
  BY ClaimsTyped DEF HeldTokens, OwnershipInv, Claim
<1> HIDE DEF claims, Claimed, TokenOf, New
<1>11. DistinctTokens'
  BY <1>7, <1>8, <1>9, <1>10 DEF DistinctTokens, OwnershipInv
<1>12. OwnerViewIsCurrent'
  <2> SUFFICES ASSUME NEW w \in Workers, NEW c \in ClaimsOf(w)', Owned(c)'
               PROVE  job'[c.path].ver = c.ver /\ job'[c.path].attempts = c.attempts
    BY DEF OwnerViewIsCurrent
  <2>1. CASE c \in New
    BY <1>6, <1>7, <2>1 DEF Started
  <2>2. CASE c \notin New
    <3>1. c \in ClaimsOf(w)
      BY <1>8, <1>9, <2>2
    <3>2. ~Claimed(c.path)
      BY <1>5, <1>6, <1>10, <3>1 DEF Owned, OwnsRow, Started
    <3>3. job'[c.path] = job[c.path] /\ Owned(c)
      BY <1>6, <1>10, <3>1, <3>2 DEF Owned, OwnsRow
    <3> QED
      BY <3>1, <3>3 DEF OwnershipInv, OwnerViewIsCurrent
  <2> QED
    BY <2>1, <2>2
<1> QED
  BY <1>11, <1>12

LEMMA InitOwnership ==
  ASSUME Init
  PROVE  OwnershipInv
<1>1. \A w \in Workers : ClaimsOf(w) = {}
  BY DEF Init, ClaimsOf, Busy, Idle
<1> QED
  BY <1>1, InitType DEF OwnershipInv, DistinctTokens, OwnerViewIsCurrent

LEMMA NextOwnership ==
  ASSUME OwnershipInv, [Next]_vars
  PROVE  OwnershipInv'
<1>1. TypeOK /\ TypeOK'
  BY NextType DEF OwnershipInv
<1>2. ASSUME NEW w \in Workers, NEW o, ClaimJobs(w, o)
      PROVE  OwnershipInv'
  BY <1>1, <1>2, ClaimOwnership DEF OwnershipInv
<1>3. ASSUME ClaimsKept, JobsKept
      PROVE  OwnershipInv'
  BY <1>1, <1>3, KeptOwnership DEF OwnershipInv
<1>4. CASE UNCHANGED vars
  BY <1>3, <1>4, SameClaims, SameJobs DEF vars
<1>5. ASSUME NEW w \in Workers, WorkerStep(w)
      PROVE  OwnershipInv'
  BY <1>1, <1>2, <1>3, <1>5, NextBufferedKeeps, RunJobKeeps, FinishKeeps DEF WorkerStep
<1>6. ASSUME NEW p \in Paths, LeaseExpires(p) \/ BackoffElapses(p)
      PROVE  OwnershipInv'
  BY <1>1, <1>3, <1>6, UpkeepKeeps
<1>7. CASE SupervisorStep
  BY <1>1, <1>3, <1>7, UpkeepKeeps DEF SupervisorStep, Outcomes
<1>8. CASE Service \/ Environment
  BY <1>1, <1>3, <1>8, ServiceKeeps
<1>9. CASE Crash \/ Startup
  BY <1>1, <1>3, <1>9, RestartKeeps
<1> QED
  BY <1>4, <1>5, <1>6, <1>7, <1>8, <1>9 DEF Next

\* Two worker threads never own the same row, for any number of each.
THEOREM OneOwnerPerRow == Spec => []SoleOwner
<1>1. OwnershipInv => SoleOwner
  <2> SUFFICES ASSUME OwnershipInv, NEW v \in Workers, NEW w \in Workers, v # w,
                      NEW c \in ClaimsOf(v), NEW d \in ClaimsOf(w), Owned(c), Owned(d)
               PROVE  c.path # d.path
    BY DEF SoleOwner
  <2>1. c.token # d.token
    BY DEF OwnershipInv, DistinctTokens
  <2> QED
    BY <2>1 DEF Owned, OwnsRow
<1> QED
  BY <1>1, InitOwnership, NextOwnership, PTL DEF Spec

\* The owner of a row works for the version and the attempt the row has.
THEOREM OwnersAreCurrent == Spec => []OwnerViewIsCurrent
<1>1. OwnershipInv => OwnerViewIsCurrent
  BY DEF OwnershipInv
<1> QED
  BY <1>1, InitOwnership, NextOwnership, PTL DEF Spec

-----------------------------------------------------------------------------
(* A worker that lost its row.                                             *)

\* What a worker's step does to the rows is guarded by its claim.
LEMMA LostClaimStep ==
  ASSUME TypeOK, NEW w \in Workers, Busy(w), ~Owned(worker[w].claim), WorkerStep(w)
  PROVE  UNCHANGED rows
<1> DEFINE c == worker[w].claim
<1>1. /\ ~\E o : ClaimJobs(w, o)
      /\ ~NextBuffered(w)
  BY DEF ClaimJobs, NextBuffered, Busy
<1>2. CASE CheckCurrent(w) \/ ExtractStat(w) \/ ExtractRead(w) \/ Recheck(w)
  BY <1>2 DEF CheckCurrent, ExtractStat, ExtractRead, Recheck
<1>3. ~OwnsRow(job[c.path], c.token) /\ ~Fenced(job[c.path], c)
  BY DEF Owned, Fenced
<1>4. ASSUME NEW o, MarkStale(w, o) \/ RecordFailure(w, o)
      PROVE  UNCHANGED rows
  BY <1>3, <1>4 DEF MarkStale, RecordFailure, SettleRow, rows
<1>5. ASSUME NEW o, PersistAndComplete(w, o)
      PROVE  UNCHANGED rows
  BY <1>3, <1>5 DEF PersistAndComplete
<1> QED
  BY <1>1, <1>2, <1>4, <1>5 DEF WorkerStep

\* Another thread's step leaves this one where it is.
LEMMA OthersStepAlone ==
  ASSUME TypeOK, NEW v \in Workers, NEW w \in Workers, v # w, WorkerStep(v)
  PROVE  worker'[w] = worker[w]
<1>1. ASSUME NEW o, ClaimJobs(v, o)
      PROVE  worker'[w] = worker[w]
  BY <1>1 DEF ClaimJobs, StartClaims, TypeOK
<1>2. CASE NextBuffered(v)
  BY <1>2 DEF NextBuffered, TypeOK
<1>3. \A s, m : ToState(v, s) \/ ToIdle(v) \/ GoesOn(v, s, m) => worker'[w] = worker[w]
  BY DEF ToState, ToIdle, GoesOn, TypeOK
<1>4. CASE CheckCurrent(v) \/ ExtractStat(v) \/ ExtractRead(v) \/ Recheck(v)
  BY <1>3, <1>4 DEF CheckCurrent, ExtractStat, ExtractRead, Recheck
<1>5. ASSUME NEW o, MarkStale(v, o) \/ PersistAndComplete(v, o) \/ RecordFailure(v, o)
      PROVE  worker'[w] = worker[w]
  BY <1>3, <1>5 DEF MarkStale, PersistAndComplete, RecordFailure, AfterOp
<1> QED
  BY <1>1, <1>2, <1>4, <1>5 DEF WorkerStep

\* A thread whose claim another took finishes without touching any row.
THEOREM StaleWorkersAreHarmless == Spec => StaleWorkerWritesNothing
<1> DEFINE Harmless ==
      \A w \in Workers :
        Busy(w) /\ ~Owned(worker[w].claim) /\ worker'[w] # worker[w] /\ worker'[w].pc # "dead" /\ phase' = "up"
        => UNCHANGED rows
<1>1. TypeOK /\ [Next]_vars => [Harmless]_vars
  <2> SUFFICES ASSUME TypeOK, Next, NEW w \in Workers, Busy(w), ~Owned(worker[w].claim),
                      worker'[w] # worker[w], worker'[w].pc # "dead", phase' = "up"
               PROVE  UNCHANGED rows
    BY DEF vars
  <2>1. ASSUME NEW v \in Workers, WorkerStep(v)
        PROVE  UNCHANGED rows
    BY <2>1, LostClaimStep, OthersStepAlone
  <2>2. worker' # worker
    OBVIOUS
  <2>3. ~\E p \in Paths : LeaseExpires(p) \/ BackoffElapses(p)
    BY <2>2 DEF LeaseExpires, BackoffElapses, timeFrame
  <2>4. ~SupervisorStep
    BY DEF SupervisorStep, Supervise, TypeOK, Busy
  <2>5. ~Environment
    BY <2>2 DEF Environment, FileWritten, FileRemoved, FileRestored, SidecarChanged, Change, fileFrame
  <2>6. ~Crash /\ ~Startup
    BY <2>2 DEF Crash, Startup, ResetRunning, PlanRepairs, ApplyRepairs, recoveryFrame
  <2>7. ~Service
    <3>1. ~\E v \in Workers : \E o \in {"ok", "rejected"} : WorkerExit(v, o)
      <4>1. \A v \in Workers, o \in {"ok", "rejected"} :
               WorkerExit(v, o) => worker'[v].pc = "dead" /\ \A u \in Workers : u # v => worker'[u] = worker[u]
        BY DEF WorkerExit, TypeOK, Idle
      <4> QED
        BY <4>1
    <3>2. ~\E v \in Workers : Renew(v)
      BY <2>2 DEF Renew
    <3>3. ~\E p \in Paths : ScanDiscover(p) \/ ReaderStat(p) \/ RenderStat(p)
      BY <2>2 DEF ScanDiscover, ReaderStat, RenderStat, scanFrame, readerFrame, renderFrame
    <3>4. ~(ScanWrite \/ DispatchStat \/ DispatchWrite \/ ScanAbandoned)
      BY <2>2 DEF ScanWrite, DispatchStat, DispatchWrite, ScanAbandoned, scanFrame
    <3>5. ~(ReaderRead \/ ReaderWrite \/ RenderWrite)
      BY <2>2 DEF ReaderRead, ReaderWrite, RenderWrite, readerFrame, renderFrame
    <3>6. ~(Integrity \/ IntegrityLook \/ IntegrityFail)
      BY <2>2 DEF Integrity, IntegrityLook, IntegrityFail, housekeepingFrame
    <3>7. ~\E p \in Paths : CleanupStale(p) \/ ForgetOffline(p)
      BY <2>2 DEF CleanupStale, ForgetOffline, housekeepingFrame
    <3> QED
      BY <3>1, <3>2, <3>3, <3>4, <3>5, <3>6, <3>7 DEF Service
  <2> QED
    BY <2>1, <2>3, <2>4, <2>5, <2>6, <2>7 DEF Next
<1> QED
  BY <1>1, TypeCorrect, PTL DEF Spec, StaleWorkerWritesNothing

-----------------------------------------------------------------------------
(* A live lease.  Whoever takes a running row back to the queue either     *)
(* finds its lease lapsed or holds the claim and drops it.                 *)

\* The claims of one thread differ, and a running row always has its token:
\* what makes "drops its claim" and "abandoned" mean what they say.
ClaimsApart ==
  \A w \in Workers : \A i \in 1..Len(buf[w]) :
    /\ \A k \in 1..Len(buf[w]) : i # k => buf[w][i].token # buf[w][k].token
    /\ Busy(w) => buf[w][i].token # worker[w].claim.token

RunningHasToken == \A p \in Paths : job[p].state = "running" => job[p].token # None

LeaseInv == OwnershipInv /\ ClaimsApart /\ RunningHasToken

\* A thread keeps its claim and its buffer, or loses both claim and buffer.
HandsKept ==
  \A w \in Workers :
    \/ buf'[w] = buf[w] /\ (Busy(w)' => Busy(w) /\ worker'[w].claim = worker[w].claim)
    \/ buf'[w] = <<>> /\ ~Busy(w)'

LEMMA HandsKeptApart ==
  ASSUME ClaimsApart, HandsKept
  PROVE  ClaimsApart'
<1> SUFFICES ASSUME NEW w \in Workers, NEW i \in 1..Len(buf'[w])
             PROVE  /\ \A k \in 1..Len(buf'[w]) : i # k => buf'[w][i].token # buf'[w][k].token
                    /\ Busy(w)' => buf'[w][i].token # worker'[w].claim.token
  BY DEF ClaimsApart
<1>1. CASE buf'[w] = <<>>
  BY <1>1
<1>2. CASE buf'[w] = buf[w] /\ (Busy(w)' => Busy(w) /\ worker'[w].claim = worker[w].claim)
  BY <1>2 DEF ClaimsApart
<1> QED
  BY <1>1, <1>2 DEF HandsKept

LEMMA SameHands ==
  ASSUME worker' = worker, buf' = buf
  PROVE  HandsKept
BY DEF HandsKept, Busy

LEMMA ThreadHands ==
  ASSUME TypeOK, NEW w \in Workers, buf' = buf,
         \/ ToIdle(w)
         \/ Busy(w) /\ \E s : ToState(w, s) \/ \E m : GoesOn(w, s, m)
  PROVE  HandsKept
<1>1. \A v \in Workers : v # w => worker'[v] = worker[v]
  BY DEF ToIdle, ToState, GoesOn, TypeOK
<1>2. CASE ToIdle(w)
  <2>1. ~Busy(w)'
    BY <1>2 DEF ToIdle, TypeOK, Idle, Busy
  <2> QED
    BY <1>1, <2>1 DEF HandsKept, Busy
<1>3. CASE Busy(w) /\ \E s : ToState(w, s) \/ \E m : GoesOn(w, s, m)
  <2>1. worker'[w].claim = worker[w].claim
    BY <1>3, WorkerType DEF ToState, GoesOn, TypeOK
  <2> QED
    BY <1>1, <1>3, <2>1 DEF HandsKept, Busy
<1> QED
  BY <1>2, <1>3

LEMMA RunJobHands ==
  ASSUME TypeOK, NEW w \in Workers,
         \/ CheckCurrent(w) \/ ExtractStat(w) \/ ExtractRead(w) \/ Recheck(w)
         \/ \E o : MarkStale(w, o) \/ PersistAndComplete(w, o) \/ RecordFailure(w, o)
  PROVE  HandsKept
<1>1. Busy(w) /\ buf' = buf
  BY DEF Busy, CheckCurrent, ExtractStat, ExtractRead, Recheck, MarkStale, PersistAndComplete, RecordFailure
<1>2. ToIdle(w) \/ \E s : ToState(w, s) \/ \E m : GoesOn(w, s, m)
  <2>1. CASE CheckCurrent(w)
    BY <2>1 DEF CheckCurrent
  <2>2. CASE ExtractStat(w)
    BY <2>2 DEF ExtractStat
  <2>3. CASE ExtractRead(w)
    BY <2>3 DEF ExtractRead
  <2>4. CASE Recheck(w)
    BY <2>4 DEF Recheck
  <2>5. CASE \E o : MarkStale(w, o) \/ PersistAndComplete(w, o) \/ RecordFailure(w, o)
    BY <2>5 DEF MarkStale, PersistAndComplete, RecordFailure, AfterOp
  <2> QED
    BY <2>1, <2>2, <2>3, <2>4, <2>5
<1> QED
  BY <1>1, <1>2, ThreadHands

\* The claim that was buffered first becomes the thread's claim.
LEMMA NextBufferedApart ==
  ASSUME TypeOK, ClaimsApart, NEW w \in Workers, NextBuffered(w)
  PROVE  ClaimsApart'
<1>1. buf[w] \in Seq(Claim) /\ buf[w] # <<>>
  BY DEF TypeOK, NextBuffered
<1>2. /\ worker'[w].claim = Head(buf[w])
      /\ buf'[w] = Tail(buf[w])
      /\ \A v \in Workers : v # w => worker'[v] = worker[v] /\ buf'[v] = buf[v]
  BY DEF TypeOK, NextBuffered
<1>3. /\ Head(buf[w]) = buf[w][1] /\ 1 \in 1..Len(buf[w])
      /\ \A i \in 1..Len(Tail(buf[w])) : i \in Nat /\ i + 1 \in 1..Len(buf[w]) /\ i + 1 # 1
                                         /\ Tail(buf[w])[i] = buf[w][i + 1]
  BY <1>1
<1>4. \A i, k \in 1..Len(Tail(buf[w])) : i # k => Tail(buf[w])[i].token # Tail(buf[w])[k].token
  BY <1>3 DEF ClaimsApart
<1>5. \A i \in 1..Len(Tail(buf[w])) : Tail(buf[w])[i].token # Head(buf[w]).token
  BY <1>3 DEF ClaimsApart
<1>6. \A v \in Workers : v # w => (Busy(v)' <=> Busy(v))
  BY <1>2 DEF Busy
<1>7. \A v \in Workers : v # w => \A i \in 1..Len(buf'[v]) :
        /\ \A k \in 1..Len(buf'[v]) : i # k => buf'[v][i].token # buf'[v][k].token
        /\ Busy(v)' => buf'[v][i].token # worker'[v].claim.token
  BY <1>2, <1>6 DEF ClaimsApart
<1>8. \A i \in 1..Len(buf'[w]) :
        /\ \A k \in 1..Len(buf'[w]) : i # k => buf'[w][i].token # buf'[w][k].token
        /\ Busy(w)' => buf'[w][i].token # worker'[w].claim.token
  BY <1>2, <1>4, <1>5
<1> QED
  BY <1>7, <1>8 DEF ClaimsApart

\* One claim op gives every row of its batch a token of its own.
LEMMA ClaimApart ==
  ASSUME TypeOK, ClaimsApart, RunningHasToken, NEW w \in Workers, NEW o, ClaimJobs(w, o)
  PROVE  ClaimsApart' /\ RunningHasToken'
<1>1. PICK n \in 1..ClaimBatch : \E ps \in [1..n -> Due], ts \in [1..n -> Fresh] :
        /\ \A i, k \in 1..n : i # k => ps[i] # ps[k] /\ ts[i] # ts[k]
        /\ StartClaims(w, o, ps, ts, n)
  BY DEF ClaimJobs
<1>2. PICK ps \in [1..n -> Due], ts \in [1..n -> Fresh] :
        /\ \A i, k \in 1..n : i # k => ps[i] # ps[k] /\ ts[i] # ts[k]
        /\ StartClaims(w, o, ps, ts, n)
  BY <1>1
<1> DEFINE claims == [i \in 1..n |-> [path |-> ps[i], ver |-> job[ps[i]].ver,
                                      attempts |-> job[ps[i]].attempts + 1, token |-> ts[i]]]
           Claimed(p) == \E i \in 1..n : ps[i] = p
           TokenOf(p) == ts[CHOOSE i \in 1..n : ps[i] = p]
           New == {claims[i] : i \in 1..n}
<1>3. n \in Nat /\ n > 0 /\ claims \in Seq(New) /\ claims # <<>> /\ Len(claims) = n
  <2>1. n \in Nat /\ n > 0
    BY MetadataAssumption
  <2>2. claims \in [1..n -> New]
    OBVIOUS
  <2> HIDE DEF claims, New
  <2> QED
    BY <2>1, <2>2
<1>4. \A i, k \in 1..n : i # k => claims[i].token # claims[k].token
  BY <1>2
<1>5. \A p \in Paths : Claimed(p) => TokenOf(p) \in Tokens
  BY DEF Fresh
<1>6. job' = [p \in Paths |-> IF Claimed(p) THEN Started(job[p], TokenOf(p)) ELSE job[p]]
  BY <1>2 DEF StartClaims
<1>7. o = "ok" => /\ worker' = [worker EXCEPT ![w] = [pc |-> "check", claim |-> claims[1], meta |-> NoMeta]]
                  /\ buf' = [buf EXCEPT ![w] = Tail(claims)]
  BY <1>2 DEF StartClaims
<1>8. o # "ok" => worker' = worker /\ buf' = buf
  BY <1>2 DEF StartClaims
<1> HIDE DEF claims, Claimed, TokenOf, New
<1>9. RunningHasToken'
  <2> SUFFICES ASSUME NEW p \in Paths, job'[p].state = "running"
               PROVE  job'[p].token # None
    BY DEF RunningHasToken
  <2>1. CASE Claimed(p)
    <3>1. job'[p].token = TokenOf(p)
      BY <1>6, <2>1 DEF Started
    <3> QED
      BY <1>5, <2>1, <3>1, MetadataAssumption
  <2>2. CASE ~Claimed(p)
    BY <1>6, <2>2 DEF RunningHasToken
  <2> QED
    BY <2>1, <2>2
<1>10. CASE o = "ok"
  <2>1. /\ worker'[w].claim = claims[1] /\ buf'[w] = Tail(claims)
        /\ \A v \in Workers : v # w => worker'[v] = worker[v] /\ buf'[v] = buf[v] /\ (Busy(v)' <=> Busy(v))
    BY <1>7, <1>10 DEF TypeOK, Busy
  <2>2. \A i \in 1..Len(Tail(claims)) : i \in Nat /\ i + 1 \in 1..n /\ i + 1 # 1 /\ Tail(claims)[i] = claims[i + 1]
    BY <1>3
  <2>3. \A i, k \in 1..Len(Tail(claims)) : i # k => Tail(claims)[i].token # Tail(claims)[k].token
    BY <1>4, <2>2
  <2>4. \A i \in 1..Len(Tail(claims)) : Tail(claims)[i].token # claims[1].token
    BY <1>3, <1>4, <2>2
  <2>5. \A v \in Workers : v # w => \A i \in 1..Len(buf'[v]) :
          /\ \A k \in 1..Len(buf'[v]) : i # k => buf'[v][i].token # buf'[v][k].token
          /\ Busy(v)' => buf'[v][i].token # worker'[v].claim.token
    BY <2>1 DEF ClaimsApart
  <2>6. \A i \in 1..Len(buf'[w]) :
          /\ \A k \in 1..Len(buf'[w]) : i # k => buf'[w][i].token # buf'[w][k].token
          /\ Busy(w)' => buf'[w][i].token # worker'[w].claim.token
    BY <2>1, <2>3, <2>4
  <2>7. ClaimsApart'
    BY <2>5, <2>6 DEF ClaimsApart
  <2> QED
    BY <1>9, <2>7
<1>11. CASE o # "ok"
  BY <1>8, <1>9, <1>11, SameHands, HandsKeptApart
<1> QED
  BY <1>10, <1>11

LEMMA UpkeepHands ==
  ASSUME TypeOK
  PROVE  /\ \A w \in Workers : Renew(w) => HandsKept
         /\ \A w \in Workers : \A o : WorkerExit(w, o) => HandsKept
         /\ \A o : Supervise(o) => HandsKept
         /\ Crash => HandsKept
<1>1. \A w \in Workers : Renew(w) => HandsKept
  BY SameHands DEF Renew
<1>2. ASSUME NEW w \in Workers, NEW o, WorkerExit(w, o)
      PROVE  HandsKept
  <2>1. /\ ~Busy(w)' /\ buf'[w] = <<>>
        /\ \A v \in Workers : v # w => worker'[v] = worker[v] /\ buf'[v] = buf[v]
    BY <1>2 DEF WorkerExit, TypeOK, Busy, Idle
  <2> QED
    BY <2>1 DEF HandsKept, Busy
<1>3. ASSUME NEW o, Supervise(o)
      PROVE  HandsKept
  <2>1. /\ buf' = buf
        /\ \A w \in Workers : Busy(w)' => Busy(w) /\ worker'[w] = worker[w]
    BY <1>3 DEF Supervise, TypeOK, Busy, Idle
  <2> QED
    BY <2>1 DEF HandsKept
<1>4. Crash => HandsKept
  BY DEF Crash, HandsKept, Busy, Idle
<1> QED
  BY <1>1, <1>2, <1>3, <1>4

LEMMA OthersHands ==
  ASSUME TypeOK
  PROVE  /\ \A p \in Paths : LeaseExpires(p) \/ BackoffElapses(p) => HandsKept
         /\ Service => HandsKept
         /\ Environment \/ Startup => HandsKept
<1>1. \A p \in Paths : LeaseExpires(p) \/ BackoffElapses(p) => HandsKept
  BY SameHands DEF LeaseExpires, BackoffElapses, timeFrame
<1>2. \A p \in Paths : ScanDiscover(p) \/ ReaderStat(p) \/ RenderStat(p) \/ CleanupStale(p) \/ ForgetOffline(p)
        => HandsKept
  BY SameHands DEF ScanDiscover, ReaderStat, RenderStat, CleanupStale, ForgetOffline,
                   scanFrame, readerFrame, renderFrame, housekeepingFrame
<1>3. ScanWrite \/ DispatchStat \/ DispatchWrite \/ ScanAbandoned => HandsKept
  BY SameHands DEF ScanWrite, DispatchStat, DispatchWrite, ScanAbandoned, scanFrame
<1>4. ReaderRead \/ ReaderWrite \/ RenderWrite => HandsKept
  BY SameHands DEF ReaderRead, ReaderWrite, RenderWrite, readerFrame, renderFrame
<1>5. Integrity \/ IntegrityLook \/ IntegrityFail => HandsKept
  BY SameHands DEF Integrity, IntegrityLook, IntegrityFail, housekeepingFrame
<1>6. Service => HandsKept
  BY <1>2, <1>3, <1>4, <1>5, UpkeepHands DEF Service
<1>7. Environment => HandsKept
  BY SameHands DEF Environment, FileWritten, FileRemoved, FileRestored, SidecarChanged, Change, fileFrame
<1>8. Startup => HandsKept
  BY SameHands DEF Startup, ResetRunning, PlanRepairs, ApplyRepairs, recoveryFrame
<1> QED
  BY <1>1, <1>6, <1>7, <1>8

LEMMA KeptTokens ==
  ASSUME RunningHasToken, JobsKept
  PROVE  RunningHasToken'
BY DEF RunningHasToken, JobsKept, Kept

LEMMA InitLease ==
  ASSUME Init
  PROVE  LeaseInv
<1>1. ClaimsApart /\ RunningHasToken
  BY DEF Init, ClaimsApart, RunningHasToken, NoJob
<1> QED
  BY <1>1, InitOwnership DEF LeaseInv

LEMMA NextLease ==
  ASSUME LeaseInv, [Next]_vars
  PROVE  LeaseInv'
<1>1. TypeOK /\ OwnershipInv'
  BY NextOwnership DEF LeaseInv, OwnershipInv
<1>2. ASSUME HandsKept, JobsKept
      PROVE  LeaseInv'
  BY <1>1, <1>2, HandsKeptApart, KeptTokens DEF LeaseInv
<1>3. CASE UNCHANGED vars
  BY <1>2, <1>3, SameHands, SameJobs DEF vars
<1>4. ASSUME NEW w \in Workers, WorkerStep(w)
      PROVE  LeaseInv'
  <2>1. ASSUME NEW o, ClaimJobs(w, o)
        PROVE  LeaseInv'
    BY <1>1, <2>1, ClaimApart DEF LeaseInv
  <2>2. CASE NextBuffered(w)
    BY <1>1, <2>2, NextBufferedApart, NextBufferedKeeps, KeptTokens DEF LeaseInv
  <2>3. CASE CheckCurrent(w) \/ ExtractStat(w) \/ ExtractRead(w) \/ Recheck(w)
    BY <1>1, <1>2, <2>3, RunJobHands, RunJobKeeps
  <2>4. ASSUME NEW o, MarkStale(w, o) \/ PersistAndComplete(w, o) \/ RecordFailure(w, o)
        PROVE  LeaseInv'
    BY <1>1, <1>2, <2>4, RunJobHands, FinishKeeps
  <2> QED
    BY <1>4, <2>1, <2>2, <2>3, <2>4 DEF WorkerStep
<1>5. ASSUME NEW p \in Paths, LeaseExpires(p) \/ BackoffElapses(p)
      PROVE  LeaseInv'
  BY <1>1, <1>2, <1>5, OthersHands, UpkeepKeeps
<1>6. CASE SupervisorStep
  BY <1>1, <1>2, <1>6, UpkeepHands, UpkeepKeeps DEF SupervisorStep, Outcomes
<1>7. CASE Service \/ Environment
  BY <1>1, <1>2, <1>7, OthersHands, ServiceKeeps
<1>8. CASE Crash \/ Startup
  BY <1>1, <1>2, <1>8, UpkeepHands, OthersHands, RestartKeeps
<1> QED
  BY <1>3, <1>4, <1>5, <1>6, <1>7, <1>8 DEF Next

\* Row k, after j, does not put a job with a live lease back in the queue.
Spared(j, k) ==
  j.state = "running" /\ j.lease = "live" /\ j.token # None => ~(k.state = "queued" /\ k.ver = j.ver)

\* Row k, after j, is not a completion.
NotCompleted(j, k) == k.state = "done" => j.state = "done"

JobsSpared == \A p \in Paths : Spared(job[p], job'[p])
NoCompletion == \A p \in Paths : NotCompleted(job[p], job'[p])

LEMMA RecoveredSpares ==
  ASSUME NEW j \in Job
  PROVE  Spared(j, RecoveredIfAbandoned(j)) /\ NotCompleted(j, RecoveredIfAbandoned(j))
BY DEF RecoveredIfAbandoned, Abandoned, Recovered, Release, Spared, NotCompleted, Job

LEMMA DispatchedSpares ==
  ASSUME NEW j \in Job, NEW v \in Ver
  PROVE  Spared(j, Dispatched(j, v)) /\ NotCompleted(j, Dispatched(j, v))
<1> DEFINE same == j.state # "none" /\ j.ver = v
           k == IF same THEN RecoveredIfAbandoned(j) ELSE j
           refused == same /\ (k.state \in {"queued", "running"} \/ (k.state = "failed" /\ k.attempts >= MaxAttempts))
           r == Release(k, "queued")
           q == [r EXCEPT !.ver = v, !.attempts = IF same THEN @ ELSE 0]
<1>1. k \in Job /\ Spared(j, k) /\ NotCompleted(j, k)
  BY RecoveredType, RecoveredSpares DEF Spared, NotCompleted
<1>2. r \in Job
  BY <1>1, ReleaseType DEF JobStates
<1>3. Dispatched(j, v) = IF refused THEN k ELSE q
  BY DEF Dispatched
<1> HIDE DEF r
<1>4. q.state = "queued" /\ q.ver = v
  <2>1. r.state = "queued"
    BY <1>1 DEF r, Release, Job
  <2> QED
    BY <1>2, <2>1 DEF Job
<1> HIDE DEF q
<1>5. CASE refused
  BY <1>1, <1>3, <1>5
<1>6. CASE ~refused
  <2>1. ASSUME j.state = "running", j.lease = "live", j.token # None
        PROVE  j.ver # v
    BY <1>6, <2>1 DEF RecoveredIfAbandoned, Abandoned
  <2> QED
    BY <1>3, <1>4, <1>6, <2>1 DEF Spared, NotCompleted
<1> QED
  BY <1>5, <1>6

LEMMA MarkedCurrentSpares ==
  ASSUME job \in [Paths -> Job], NEW p \in Paths, NEW v \in Ver, NEW m, job' = MarkedCurrent(p, v, m)
  PROVE  /\ JobsSpared
         /\ \A q \in Paths : q # p => job'[q] = job[q]
         /\ job'[p].state = Outcome(m, p, v) /\ job'[p].ver = v
<1> DEFINE j == [job[p] EXCEPT !.ver = v]
           s == Outcome(m, p, v)
<1>1. j \in Job /\ j.ver = v
  BY DEF Job
<1>2. s \in {"done", "skipped", "stale"}
  BY OutcomeType
<1>3. job' = [job EXCEPT ![p] = Completed(j, s)]
  BY DEF MarkedCurrent
<1> HIDE DEF j, s
<1>4. Completed(j, s).state = s /\ Completed(j, s).ver = v
  BY <1>1, <1>2 DEF Completed, Release, Job
<1>5. Spared(job[p], Completed(j, s))
  BY <1>2, <1>4 DEF Spared
<1>6. /\ \A q \in Paths : q # p => job'[q] = job[q]
      /\ job'[p] = Completed(j, s)
  BY <1>3
<1>7. JobsSpared
  BY <1>5, <1>6 DEF JobsSpared, Spared
<1> QED
  BY <1>4, <1>6, <1>7 DEF s

LEMMA IntegritySpares ==
  ASSUME TypeOK, Integrity \/ IntegrityFail
  PROVE  JobsSpared /\ NoCompletion
<1>1. \A p \in Paths : job[p] \in Job
  BY DEF TypeOK
<1>2. CASE Integrity
  <2> DEFINE j1(p) == RecoveredIfAbandoned(job[p])
             lost(p) == asset[p].mstate = "done" /\ ~Matches(im[p], asset[p].ver)
             j2(p) == IF ~lost(p) \/ j1(p).state = "running" THEN j1(p)
                      ELSE IF j1(p).state = "none" THEN [NoJob EXCEPT !.state = "queued", !.ver = asset[p].ver]
                      ELSE [j1(p) EXCEPT !.state = "queued"]
             orphan(p) == asset[p].ver = 0 /\ j2(p).state \in {"queued", "running"}
             j3(p) == IF orphan(p) THEN [j2(p) EXCEPT !.state = "failed"] ELSE j2(p)
  <2>1. job' = [p \in Paths |-> j3(p)]
    BY <1>2 DEF Integrity
  <2>2. \A p \in Paths : Spared(job[p], j3(p)) /\ NotCompleted(job[p], j3(p))
    <3> SUFFICES ASSUME NEW p \in Paths
                 PROVE  Spared(job[p], j3(p)) /\ NotCompleted(job[p], j3(p))
      OBVIOUS
    <3>1. /\ j1(p) \in Job /\ Spared(job[p], j1(p)) /\ NotCompleted(job[p], j1(p))
          /\ job[p].state = "running" /\ job[p].lease = "live" /\ job[p].token # None => j1(p).state = "running"
      BY <1>1, RecoveredType, RecoveredSpares DEF RecoveredIfAbandoned, Abandoned
    <3>2. [NoJob EXCEPT !.state = "queued", !.ver = asset[p].ver].state = "queued"
      BY DEF NoJob
    <3>3. [j1(p) EXCEPT !.state = "queued"].state = "queued"
      BY <3>1 DEF Job
    <3> HIDE DEF j1, lost
    <3>4. (j2(p).state = "queued" /\ j1(p).state # "running") \/ j2(p) = j1(p)
      BY <3>2, <3>3
    <3>5. Spared(job[p], j2(p)) /\ NotCompleted(job[p], j2(p))
      BY <3>1, <3>4 DEF Spared, NotCompleted
    <3>6. [j2(p) EXCEPT !.state = "failed"].state = "failed"
      <4>1. DOMAIN j2(p) = DOMAIN NoJob
        BY <3>1 DEF Job, NoJob
      <4> QED
        BY <4>1 DEF NoJob
    <3> HIDE DEF j2
    <3> QED
      BY <3>5, <3>6 DEF Spared, NotCompleted
  <2> HIDE DEF j3
  <2> QED
    BY <2>1, <2>2 DEF JobsSpared, NoCompletion
<1>3. CASE IntegrityFail
  <2>1. \A p \in Paths : [job[p] EXCEPT !.state = "failed"].state = "failed"
    BY <1>1 DEF Job
  <2> QED
    BY <1>3, <2>1 DEF IntegrityFail, JobsSpared, NoCompletion, Spared, NotCompleted
<1> QED
  BY <1>2, <1>3

LEMMA SameSpares ==
  ASSUME job' = job
  PROVE  JobsSpared /\ NoCompletion
BY DEF JobsSpared, NoCompletion, Spared, NotCompleted

\* Clocks, heartbeats and the supervisor neither complete a job nor take one
\* whose lease is live.
LEMMA UpkeepSpares ==
  ASSUME TypeOK
  PROVE  /\ \A w \in Workers : Renew(w) => JobsSpared /\ NoCompletion
         /\ \A o : Supervise(o) => JobsSpared /\ NoCompletion
         /\ \A p \in Paths : LeaseExpires(p) \/ BackoffElapses(p) => JobsSpared /\ NoCompletion
<1>1. \A p \in Paths : job[p] \in Job
  BY DEF TypeOK
<1>2. ASSUME NEW w \in Workers, Renew(w)
      PROVE  JobsSpared /\ NoCompletion
  <2>1. \A p \in Paths : [job[p] EXCEPT !.lease = "live"].state = job[p].state
    BY <1>1 DEF Job
  <2>2. \A p \in Paths : job'[p].state = job[p].state
    BY <1>2, <2>1 DEF Renew
  <2> QED
    BY <2>2 DEF JobsSpared, NoCompletion, Spared, NotCompleted
<1>3. ASSUME NEW o, Supervise(o)
      PROVE  JobsSpared /\ NoCompletion
  <2>1. CASE Applied(o)
    BY <1>1, <1>3, <2>1, RecoveredSpares DEF Supervise, JobsSpared, NoCompletion
  <2> QED
    BY <1>3, <2>1, SameSpares DEF Supervise
<1>4. ASSUME NEW p \in Paths, LeaseExpires(p) \/ BackoffElapses(p)
      PROVE  JobsSpared /\ NoCompletion
  <2>1. [job[p] EXCEPT !.lease = "expired"].state = job[p].state /\ [job[p] EXCEPT !.due = TRUE].state = job[p].state
    BY <1>1 DEF Job
  <2>2. \A q \in Paths : job'[q].state = job[q].state
    BY <1>4, <2>1 DEF LeaseExpires, BackoffElapses, TypeOK
  <2> QED
    BY <2>2 DEF JobsSpared, NoCompletion, Spared, NotCompleted
<1> QED
  BY <1>2, <1>3, <1>4

\* Services that complete nothing.
LEMMA BystandersSpare ==
  ASSUME TypeOK,
         \/ Environment \/ Crash
         \/ \E p \in Paths : ScanDiscover(p) \/ ReaderStat(p) \/ RenderStat(p) \/ CleanupStale(p) \/ ForgetOffline(p)
         \/ ScanWrite \/ DispatchStat \/ ScanAbandoned \/ ReaderRead \/ RenderWrite
         \/ Integrity \/ IntegrityLook \/ IntegrityFail
  PROVE  JobsSpared /\ NoCompletion
<1>1. CASE Environment \/ Crash
  BY <1>1, SameSpares
     DEF Environment, FileWritten, FileRemoved, FileRestored, SidecarChanged, Change, fileFrame, rows, Crash
<1>2. CASE \E p \in Paths : ScanDiscover(p) \/ ReaderStat(p) \/ RenderStat(p)
  BY <1>2, SameSpares DEF ScanDiscover, ReaderStat, RenderStat, rows
<1>3. CASE \E p \in Paths : CleanupStale(p) \/ ForgetOffline(p)
  <2>1. PICK p \in Paths : CleanupStale(p) \/ ForgetOffline(p)
    BY <1>3
  <2>2. \A q \in Paths : job'[q] = job[q] \/ job'[q].state = "none"
    BY <2>1 DEF CleanupStale, ForgetOffline, NoJob, TypeOK
  <2> QED
    BY <2>2 DEF JobsSpared, NoCompletion, Spared, NotCompleted
<1>4. CASE ScanWrite \/ DispatchStat \/ ScanAbandoned \/ ReaderRead \/ RenderWrite
  BY <1>4, SameSpares DEF ScanWrite, DispatchStat, ScanAbandoned, ReaderRead, RenderWrite, rows
<1>5. CASE IntegrityLook
  BY <1>5, SameSpares DEF IntegrityLook, rows
<1> QED
  BY <1>1, <1>2, <1>3, <1>4, <1>5, IntegritySpares

\* A thread that lets a claim go: its own after a failure, the unstarted ones
\* when it ends.
LEMMA FailureLetsGo ==
  ASSUME LeaseInv, NEW w \in Workers, NEW o, RecordFailure(w, o), NEW p \in Paths, ~Spared(job[p], job'[p])
  PROVE  LetsGo(w, p)
<1> DEFINE c == worker[w].claim
<1>1. Busy(w)
  BY DEF RecordFailure, Busy
<1>2. p = c.path /\ Fenced(job[c.path], c)
  <2>1. ASSUME job'[p] = job[p]
        PROVE  FALSE
    BY <2>1 DEF Spared
  <2> QED
    BY <2>1 DEF RecordFailure, SettleRow, LeaseInv, OwnershipInv, TypeOK
<1>3. c \in ClaimsOf(w) /\ Owned(c)
  BY <1>1, <1>2 DEF ClaimsOf, Owned, Fenced
<1>4. ~Busy(w)' /\ buf' = buf
  BY DEF RecordFailure, ToIdle, LeaseInv, OwnershipInv, TypeOK, Idle, Busy
<1>5. c \notin ClaimsOf(w)'
  <2>1. \A i \in 1..Len(buf[w]) : buf[w][i].token # c.token
    BY <1>1 DEF LeaseInv, ClaimsApart
  <2> QED
    BY <1>4, <2>1 DEF ClaimsOf
<1> QED
  BY <1>2, <1>3, <1>5 DEF LetsGo

LEMMA ExitLetsGo ==
  ASSUME LeaseInv, NEW w \in Workers, NEW o, WorkerExit(w, o), NEW p \in Paths, ~Spared(job[p], job'[p])
  PROVE  LetsGo(w, p)
<1>1. PICK i \in 1..Len(buf[w]) : buf[w][i].path = p /\ OwnsRow(job[p], buf[w][i].token)
  <2>1. ASSUME job'[p] = job[p]
        PROVE  FALSE
    BY <2>1 DEF Spared
  <2> QED
    BY <2>1 DEF WorkerExit
<1>2. ClaimsOf(w)' = {}
  BY DEF WorkerExit, LeaseInv, OwnershipInv, TypeOK, Idle, Busy, ClaimsOf
<1>3. buf[w][i] \in ClaimsOf(w)
  BY DEF ClaimsOf
<1> QED
  BY <1>1, <1>2, <1>3 DEF LetsGo, Owned

\* Every other step of a thread spares the live leases.
LEMMA ThreadSpares ==
  ASSUME LeaseInv, NEW w \in Workers,
         \/ \E o : ClaimJobs(w, o) \/ MarkStale(w, o) \/ PersistAndComplete(w, o)
         \/ NextBuffered(w) \/ CheckCurrent(w) \/ ExtractStat(w) \/ ExtractRead(w) \/ Recheck(w)
  PROVE  JobsSpared
<1>1. TypeOK /\ \A p \in Paths : job[p] \in Job
  BY DEF LeaseInv, OwnershipInv, TypeOK
<1>2. ASSUME NEW o, ClaimJobs(w, o)
      PROVE  JobsSpared
  <2>1. PICK n \in 1..ClaimBatch : \E ps \in [1..n -> Due], ts \in [1..n -> Fresh] : StartClaims(w, o, ps, ts, n)
    BY <1>2 DEF ClaimJobs
  <2>2. PICK ps \in [1..n -> Due], ts \in [1..n -> Fresh] : StartClaims(w, o, ps, ts, n)
    BY <2>1
  <2>3. \A p \in Paths : job'[p] = job[p] \/ job'[p].state = "running"
    BY <2>2 DEF StartClaims, Started
  <2> QED
    BY <2>3 DEF JobsSpared, Spared
<1>3. ASSUME NEW o, MarkStale(w, o) \/ PersistAndComplete(w, o)
      PROVE  JobsSpared
  <2> DEFINE p == worker[w].claim.path
             s == Outcome(Upserted(p, worker[w].meta)[p], p, worker[w].claim.ver)
  <2>1. Busy(w)
    BY <1>3 DEF MarkStale, PersistAndComplete, Busy
  <2>2. job[p] \in Job
    BY <1>1, <2>1, WorkerType DEF TypeOK, Claim
  <2>3. s \in {"done", "skipped", "stale"}
    BY OutcomeType
  <2>4. \/ SettleRow(w, o, Release(job[p], "stale"))
        \/ SettleRow(w, o, Completed(job[p], s))
        \/ job' = job
    BY <1>3 DEF MarkStale, PersistAndComplete, rows
  <2> HIDE DEF s
  <2>5. Release(job[p], "stale").state = "stale" /\ Completed(job[p], s).state = s
    BY <2>2, <2>3 DEF Completed, Release, Job
  <2>6. ASSUME NEW k, SettleRow(w, o, k), k.state # "queued"
        PROVE  JobsSpared
    BY <1>1, <2>6 DEF SettleRow, JobsSpared, Spared, TypeOK
  <2> QED
    BY <2>3, <2>4, <2>5, <2>6, SameSpares
<1>4. CASE NextBuffered(w) \/ CheckCurrent(w) \/ ExtractStat(w) \/ ExtractRead(w) \/ Recheck(w)
  BY <1>4, SameSpares DEF NextBuffered, CheckCurrent, ExtractStat, ExtractRead, Recheck, rows
<1> QED
  BY <1>2, <1>3, <1>4

\* What dispatch and a metadata request make of a row.
LEMMA ServedSpares ==
  ASSUME TypeOK, DispatchWrite \/ ReaderWrite
  PROVE  JobsSpared
<1>1. CASE DispatchWrite
  <2>1. scan.path \in Paths /\ scan.ver \in Ver
    BY <1>1 DEF DispatchWrite, TypeOK, NoScan
  <2>2. job[scan.path] \in Job
    BY <2>1 DEF TypeOK
  <2>3. \/ job' = MarkedCurrent(scan.path, scan.ver, im[scan.path])
        \/ job' = [job EXCEPT ![scan.path] = Dispatched(job[scan.path], scan.ver)]
    BY <1>1 DEF DispatchWrite
  <2>4. CASE job' = MarkedCurrent(scan.path, scan.ver, im[scan.path])
    BY <2>1, <2>4, MarkedCurrentSpares DEF TypeOK
  <2>5. CASE job' = [job EXCEPT ![scan.path] = Dispatched(job[scan.path], scan.ver)]
    <3>1. Spared(job[scan.path], Dispatched(job[scan.path], scan.ver))
      BY <2>1, <2>2, DispatchedSpares
    <3> QED
      BY <2>1, <2>5, <3>1 DEF JobsSpared, Spared, TypeOK
  <2> QED
    BY <2>3, <2>4, <2>5
<1>2. CASE ReaderWrite
  <2> DEFINE m == Upserted(reader.path, reader.meta)
  <2>1. reader.path \in Paths /\ reader.meta.ver \in Ver
    BY <1>2 DEF ReaderWrite, TypeOK, NoReader, Meta
  <2>2. job' = MarkedCurrent(reader.path, reader.meta.ver, m[reader.path]) \/ job' = job
    BY <1>2 DEF ReaderWrite
  <2> HIDE DEF m
  <2> QED
    BY <2>1, <2>2, MarkedCurrentSpares, SameSpares DEF TypeOK
<1> QED
  BY <1>1, <1>2

LEMMA LeaseStep ==
  ASSUME LeaseInv, Next, phase = "up", NEW p \in Paths
  PROVE  Spared(job[p], job'[p]) \/ \E w \in Workers : LetsGo(w, p)
<1>1. TypeOK /\ (JobsSpared => Spared(job[p], job'[p]))
  BY DEF LeaseInv, OwnershipInv, JobsSpared
<1>2. ASSUME NEW w \in Workers, WorkerStep(w)
      PROVE  Spared(job[p], job'[p]) \/ LetsGo(w, p)
  <2>1. ASSUME NEW o, RecordFailure(w, o)
        PROVE  Spared(job[p], job'[p]) \/ LetsGo(w, p)
    BY <2>1, FailureLetsGo
  <2>2. CASE \/ \E o : ClaimJobs(w, o) \/ MarkStale(w, o) \/ PersistAndComplete(w, o)
             \/ NextBuffered(w) \/ CheckCurrent(w) \/ ExtractStat(w) \/ ExtractRead(w) \/ Recheck(w)
    BY <1>1, <2>2, ThreadSpares
  <2> QED
    BY <1>2, <2>1, <2>2 DEF WorkerStep
<1>3. CASE (\E q \in Paths : LeaseExpires(q) \/ BackoffElapses(q)) \/ SupervisorStep
  BY <1>1, <1>3, UpkeepSpares DEF SupervisorStep
<1>4. CASE Service
  <2>1. ASSUME NEW w \in Workers, NEW o, WorkerExit(w, o)
        PROVE  Spared(job[p], job'[p]) \/ LetsGo(w, p)
    BY <2>1, ExitLetsGo
  <2>2. CASE \E w \in Workers : Renew(w)
    BY <1>1, <2>2, UpkeepSpares
  <2>3. CASE DispatchWrite \/ ReaderWrite
    BY <1>1, <2>3, ServedSpares
  <2> QED
    BY <1>1, <1>4, <2>1, <2>2, <2>3, BystandersSpare DEF Service
<1>5. CASE Environment \/ Crash
  BY <1>1, <1>5, BystandersSpare
<1>6. ~Startup
  BY DEF Startup, ResetRunning, PlanRepairs, ApplyRepairs
<1> QED
  BY <1>2, <1>3, <1>4, <1>5, <1>6 DEF Next

\* A live lease is safe: supervisor, dispatch, integrity pass and every other
\* actor leave the row to its holder, who alone can send it back to the queue.
THEOREM LiveLeasesAreSafe == Spec => LiveLeaseProtected
<1> DEFINE Safe ==
      \A p \in Paths :
        /\ phase = "up" /\ job[p].state = "running" /\ job[p].lease = "live"
        /\ job'[p].state = "queued" /\ job'[p].ver = job[p].ver
        => \E w \in Workers : LetsGo(w, p)
<1>1. LeaseInv /\ [Next]_vars => [Safe]_vars
  <2> SUFFICES ASSUME LeaseInv, Next, NEW p \in Paths,
                      phase = "up", job[p].state = "running", job[p].lease = "live",
                      job'[p].state = "queued", job'[p].ver = job[p].ver
               PROVE  \E w \in Workers : LetsGo(w, p)
    BY DEF vars
  <2>1. ~Spared(job[p], job'[p])
    BY DEF Spared, LeaseInv, RunningHasToken
  <2> QED
    BY <2>1, LeaseStep
<1> QED
  BY <1>1, InitLease, NextLease, PTL DEF Spec, LiveLeaseProtected

-----------------------------------------------------------------------------
(* Completion.  A job becomes done only in an op that has just compared    *)
(* the stored metadata and the asset with the job's version.               *)

\* What stands behind the job of p after a step that completed it.
Materialized(p) ==
  /\ IsCurrent(im[p], p, job[p].ver)'
  /\ asset'[p].ver = job'[p].ver /\ asset'[p].mstate = "done"

CompletionsBacked ==
  \A p \in Paths : job[p].state # "done" /\ job'[p].state = "done" => Materialized(p)

LEMMA NoCompletionBacked ==
  ASSUME NoCompletion
  PROVE  CompletionsBacked
BY DEF NoCompletion, NotCompleted, CompletionsBacked

\* The outcome "done" says that metadata and asset are those of version v.
LEMMA DoneOutcome ==
  ASSUME TypeOK, NEW p \in Paths, NEW v, NEW m \in [Paths -> Metadata], Outcome(m[p], p, v) = "done",
         disk' = disk, im' = m, job'[p].ver = v, asset' = AssetDone(p, "done")
  PROVE  Materialized(p)
<1>1. IsCurrent(m[p], p, v) /\ asset[p].ver = v
  BY DEF Outcome
<1>2. asset'[p].ver = v /\ asset'[p].mstate = "done"
  BY <1>1 DEF AssetDone, TypeOK, Asset
<1>3. IsCurrent(im[p], p, job[p].ver)'
  BY <1>1 DEF IsCurrent, Matches
<1> QED
  BY <1>2, <1>3 DEF Materialized

LEMMA PersistBacked ==
  ASSUME TypeOK, NEW w \in Workers, NEW o, PersistAndComplete(w, o)
  PROVE  CompletionsBacked
<1> DEFINE c == worker[w].claim
           p == c.path
           m == Upserted(p, worker[w].meta)
           s == Outcome(m[p], p, c.ver)
<1>1. Busy(w)
  BY DEF PersistAndComplete, Busy
<1>2. c \in Claim /\ p \in Paths /\ worker[w].meta \in Meta
  BY <1>1, WorkerType DEF TypeOK, Claim
<1>3. job[p] \in Job /\ m \in [Paths -> Metadata]
  BY <1>2, UpsertedType DEF TypeOK
<1>4. s \in {"done", "skipped", "stale"}
  BY OutcomeType
<1>5. Completed(job[p], s).state = s /\ Completed(job[p], s).ver = job[p].ver
  BY <1>3, <1>4 DEF Completed, Release, Job
<1>6. disk' = disk
  BY DEF PersistAndComplete, workerFrame
<1> SUFFICES ASSUME NEW q \in Paths, job[q].state # "done", job'[q].state = "done"
             PROVE  Materialized(q)
  BY DEF CompletionsBacked
<1>7. /\ im' = m /\ job' = [job EXCEPT ![p] = Completed(job[p], s)]
      /\ asset' = AssetDone(p, s) /\ Fenced(job[p], c)
  BY DEF PersistAndComplete, SettleRow, rows
<1> HIDE DEF s
<1>8. q = p /\ s = "done" /\ job'[p].ver = c.ver
  <2>1. q = p
    BY <1>7
  <2>2. job'[p] = Completed(job[p], s)
    BY <1>2, <1>7 DEF TypeOK
  <2> QED
    BY <1>5, <1>7, <2>1, <2>2 DEF Fenced
<1> HIDE DEF m, c
<1> QED
  BY <1>2, <1>3, <1>6, <1>7, <1>8, DoneOutcome DEF s

LEMMA ServedBacked ==
  ASSUME TypeOK, DispatchWrite \/ ReaderWrite
  PROVE  CompletionsBacked
<1>1. ASSUME NEW p \in Paths, NEW v \in Ver, NEW m \in [Paths -> Metadata], job' = MarkedCurrent(p, v, m[p]),
             disk' = disk, im' = m, asset' = AssetDone(p, Outcome(m[p], p, v))
      PROVE  CompletionsBacked
  <2> SUFFICES ASSUME NEW q \in Paths, job[q].state # "done", job'[q].state = "done"
               PROVE  Materialized(q)
    BY DEF CompletionsBacked
  <2>1. job \in [Paths -> Job]
    BY DEF TypeOK
  <2>2. q = p /\ Outcome(m[p], p, v) = "done" /\ job'[p].ver = v
    BY <1>1, <2>1, MarkedCurrentSpares
  <2>3. asset' = AssetDone(p, "done")
    BY <1>1, <2>2
  <2> QED
    BY <1>1, <2>2, <2>3, DoneOutcome
<1>2. CASE DispatchWrite
  <2>1. scan.path \in Paths /\ scan.ver \in Ver
    BY <1>2 DEF DispatchWrite, TypeOK, NoScan
  <2>2. im \in [Paths -> Metadata] /\ im' = im /\ disk' = disk
    BY <1>2 DEF DispatchWrite, TypeOK, scanFrame
  <2>3. CASE IsCurrent(im[scan.path], scan.path, scan.ver)
    <3>1. /\ job' = MarkedCurrent(scan.path, scan.ver, im[scan.path])
          /\ asset' = AssetDone(scan.path, Outcome(im[scan.path], scan.path, scan.ver))
      BY <1>2, <2>3 DEF DispatchWrite
    <3> QED
      BY <1>1, <2>1, <2>2, <3>1
  <2>4. CASE ~IsCurrent(im[scan.path], scan.path, scan.ver)
    <3>1. job' = [job EXCEPT ![scan.path] = Dispatched(job[scan.path], scan.ver)]
      BY <1>2, <2>4 DEF DispatchWrite
    <3>2. NotCompleted(job[scan.path], Dispatched(job[scan.path], scan.ver))
      BY <2>1, DispatchedSpares DEF TypeOK
    <3>3. NoCompletion
      BY <2>1, <3>1, <3>2 DEF NoCompletion, NotCompleted, TypeOK
    <3> QED
      BY <3>3, NoCompletionBacked
  <2> QED
    BY <2>3, <2>4
<1>3. CASE ReaderWrite
  <2> DEFINE p == reader.path
             m == Upserted(p, reader.meta)
  <2>1. p \in Paths /\ reader.meta \in Meta /\ reader.meta.ver \in Ver
    BY <1>3 DEF ReaderWrite, TypeOK, NoReader, Meta
  <2>2. m \in [Paths -> Metadata] /\ im' = m /\ disk' = disk
    BY <1>3, <2>1, UpsertedType DEF ReaderWrite, TypeOK, readerFrame
  <2>3. \/ /\ job' = MarkedCurrent(p, reader.meta.ver, m[p])
           /\ asset' = AssetDone(p, Outcome(m[p], p, reader.meta.ver))
        \/ job' = job
    BY <1>3 DEF ReaderWrite
  <2> HIDE DEF m, p
  <2>4. CASE job' = job
    BY <2>4, SameSpares, NoCompletionBacked
  <2> QED
    BY <1>1, <2>1, <2>2, <2>3, <2>4
<1> QED
  BY <1>2, <1>3

LEMMA ThreadBacked ==
  ASSUME TypeOK, NEW w \in Workers, WorkerStep(w)
  PROVE  CompletionsBacked
<1>1. \A p \in Paths : job[p] \in Job
  BY DEF TypeOK
<1>2. ASSUME NEW o, ClaimJobs(w, o)
      PROVE  NoCompletion
  <2>1. PICK n \in 1..ClaimBatch : \E ps \in [1..n -> Due], ts \in [1..n -> Fresh] : StartClaims(w, o, ps, ts, n)
    BY <1>2 DEF ClaimJobs
  <2>2. PICK ps \in [1..n -> Due], ts \in [1..n -> Fresh] : StartClaims(w, o, ps, ts, n)
    BY <2>1
  <2>3. \A p \in Paths : job'[p] = job[p] \/ job'[p].state = "running"
    BY <2>2 DEF StartClaims, Started
  <2> QED
    BY <2>3 DEF NoCompletion, NotCompleted
<1>3. ASSUME NEW o, MarkStale(w, o) \/ RecordFailure(w, o)
      PROVE  NoCompletion
  <2> DEFINE p == worker[w].claim.path
             r == Release(job[p], "queued")
  <2>1. Busy(w)
    BY <1>3 DEF MarkStale, RecordFailure, Busy
  <2>2. job[p] \in Job
    BY <1>1, <2>1, WorkerType DEF TypeOK, Claim
  <2>3. \/ SettleRow(w, o, Release(job[p], "stale"))
        \/ SettleRow(w, o, [r EXCEPT !.due = FALSE])
        \/ SettleRow(w, o, Release(job[p], "failed"))
    BY <1>3 DEF MarkStale, RecordFailure
  <2>4. \A s \in JobStates : Release(job[p], s).state = s
    BY <2>2 DEF Release, Job
  <2>5. Release(job[p], "stale").state = "stale" /\ Release(job[p], "failed").state = "failed"
    BY <2>4 DEF JobStates
  <2>6. [r EXCEPT !.due = FALSE].state = "queued"
    <3>1. r \in Job /\ r.state = "queued"
      BY <2>2, <2>4, ReleaseType DEF JobStates
    <3> HIDE DEF r
    <3> QED
      BY <3>1 DEF Job
  <2>7. ASSUME NEW k, SettleRow(w, o, k), k.state # "done"
        PROVE  NoCompletion
    BY <2>7 DEF SettleRow, NoCompletion, NotCompleted, TypeOK
  <2> HIDE DEF r
  <2> QED
    BY <2>3, <2>5, <2>6, <2>7
<1>4. CASE NextBuffered(w) \/ CheckCurrent(w) \/ ExtractStat(w) \/ ExtractRead(w) \/ Recheck(w)
  BY <1>4, SameSpares, NoCompletionBacked
     DEF NextBuffered, CheckCurrent, ExtractStat, ExtractRead, Recheck, rows
<1> QED
  BY <1>2, <1>3, <1>4, PersistBacked, NoCompletionBacked DEF WorkerStep

LEMMA ExitCompletesNothing ==
  ASSUME TypeOK, NEW w \in Workers, NEW o, WorkerExit(w, o)
  PROVE  NoCompletion
<1>1. \A p \in Paths : GivenBack(job[p]).state = "queued"
  <2>1. \A p \in Paths : Release(job[p], "queued") \in Job
    BY ReleaseType DEF TypeOK, JobStates
  <2>2. \A p \in Paths : Release(job[p], "queued").state = "queued"
    BY DEF Release, Job, TypeOK
  <2> QED
    BY <2>1, <2>2 DEF GivenBack, Job
<1> QED
  BY <1>1 DEF WorkerExit, NoCompletion, NotCompleted

LEMMA BackedStep ==
  ASSUME TypeOK, Next, phase = "up"
  PROVE  CompletionsBacked
<1>1. CASE \E w \in Workers : WorkerStep(w)
  BY <1>1, ThreadBacked
<1>2. CASE (\E q \in Paths : LeaseExpires(q) \/ BackoffElapses(q)) \/ SupervisorStep
  BY <1>2, UpkeepSpares, NoCompletionBacked DEF SupervisorStep
<1>3. CASE Service
  BY <1>3, ExitCompletesNothing, UpkeepSpares, ServedBacked, BystandersSpare, NoCompletionBacked DEF Service
<1>4. CASE Environment \/ Crash
  BY <1>4, BystandersSpare, NoCompletionBacked
<1>5. ~Startup
  BY DEF Startup, ResetRunning, PlanRepairs, ApplyRepairs
<1> QED
  BY <1>1, <1>2, <1>3, <1>4, <1>5 DEF Next

\* While the process is up a job becomes done only with its version's metadata
\* stored and its asset stamped in the same op, whoever completes it.
THEOREM CompletionsAreBacked == Spec => CompletionMaterializes
<1> DEFINE Backed ==
      \A p \in Paths :
        phase = "up" /\ job[p].state # "done" /\ job'[p].state = "done"
        => /\ IsCurrent(im[p], p, job[p].ver)'
           /\ asset'[p].ver = job'[p].ver /\ asset'[p].mstate = "done"
<1>1. TypeOK /\ [Next]_vars => [Backed]_vars
  BY BackedStep DEF vars, CompletionsBacked, Materialized
<1> QED
  BY <1>1, TypeCorrect, PTL DEF Spec, CompletionMaterializes

-----------------------------------------------------------------------------
(* Freshness: stored metadata is never older than the identity it is stored *)
(* under.  A file's version only grows, and everybody takes the identity     *)
(* before the content.                                                       *)

\* Content lies between the identity it is stored under and the file on disk.
RowFresh(m, v) == m.ns <= m.content /\ m.content <= v

\* What was read of a file now at version v; the read has been made in "recheck"
\* and "write".
HasRead == {"recheck", "write"}
MetaFresh(m, pc, v) ==
  /\ m.ver <= v /\ m.content <= v
  /\ pc \in HasRead => m.ver <= m.content

RowsFresh == \A p \in Paths : RowFresh(im[p], disk[p].ver)
WorkersFresh ==
  \A w \in Workers : Busy(w) => MetaFresh(worker[w].meta, worker[w].pc, disk[worker[w].claim.path].ver)
ReaderFresh == reader # NoReader => MetaFresh(reader.meta, reader.pc, disk[reader.path].ver)

FreshInv == TypeOK /\ RowsFresh /\ WorkersFresh /\ ReaderFresh

-----------------------------------------------------------------------------
(* What a step may change: the file grows, and each row, worker and        *)
(* request is as before or fresh.                                          *)

DiskGrows == \A p \in Paths : disk[p].ver <= disk'[p].ver

RowKept(p) ==
  \/ im'[p].ns = im[p].ns /\ im'[p].content = im[p].content
  \/ RowFresh(im'[p], disk[p].ver)

SameWork(w) ==
  /\ Busy(w)
  /\ worker'[w].claim = worker[w].claim /\ worker'[w].meta = worker[w].meta
  /\ worker'[w].pc \in HasRead => worker[w].pc \in HasRead
WorkerKept(w) ==
  Busy(w)' => \/ SameWork(w)
              \/ MetaFresh(worker'[w].meta, worker'[w].pc, disk[worker'[w].claim.path].ver)

ReaderKept ==
  \/ reader' \in {reader, NoReader}
  \/ MetaFresh(reader'.meta, reader'.pc, disk[reader'.path].ver)

StepKeeps == /\ \A p \in Paths : RowKept(p)
             /\ \A w \in Workers : WorkerKept(w)
             /\ ReaderKept

\* A busy worker and an active request have a file and metadata of their types.
LEMMA ReadTypes ==
  ASSUME TypeOK
  PROVE  /\ \A p \in Paths : disk[p].ver \in Nat /\ im[p].ns \in Nat /\ im[p].content \in Nat
         /\ \A w \in Workers : Busy(w) => /\ worker[w].claim.path \in Paths
                                          /\ worker[w].meta \in Meta
         /\ reader # NoReader => reader.path \in Paths /\ reader.meta \in Meta
         /\ \A m \in Meta : m.ver \in Nat /\ m.content \in Nat
<1>1. Ver \subseteq Nat
  BY MetadataAssumption DEF Ver
<1>2. \A w \in Workers : Busy(w) => worker[w].claim \in Claim /\ worker[w].meta \in Meta
  BY WorkerType DEF TypeOK
<1> QED
  BY <1>1, <1>2 DEF TypeOK, Metadata, Meta, Claim

\* Such a step keeps everything fresh.
LEMMA KeptIsFresh ==
  ASSUME FreshInv, TypeOK', DiskGrows, StepKeeps
  PROVE  FreshInv'
<1>1. \A p \in Paths : disk[p].ver \in Nat /\ disk'[p].ver \in Nat /\ disk[p].ver <= disk'[p].ver
  BY ReadTypes, MetadataAssumption DEF FreshInv, DiskGrows, TypeOK, Ver
<1>2. RowsFresh'
  <2> SUFFICES ASSUME NEW p \in Paths PROVE RowFresh(im'[p], disk'[p].ver)
    BY DEF RowsFresh
  <2>1. im'[p].ns \in Nat /\ im'[p].content \in Nat
    BY MetadataAssumption DEF TypeOK, Metadata, Ver
  <2>2. RowFresh(im'[p], disk[p].ver)
    BY DEF StepKeeps, RowKept, FreshInv, RowsFresh, RowFresh
  <2> QED
    BY <1>1, <2>1, <2>2 DEF RowFresh
<1>3. WorkersFresh'
  <2> SUFFICES ASSUME NEW w \in Workers, Busy(w)'
               PROVE  MetaFresh(worker'[w].meta, worker'[w].pc, disk'[worker'[w].claim.path].ver)
    BY DEF WorkersFresh
  <2>1. worker'[w].claim \in Claim /\ worker'[w].meta \in Meta
    BY DEF TypeOK, Worker, Busy
  <2>2. worker'[w].claim.path \in Paths
    BY <2>1 DEF Claim
  <2>3. MetaFresh(worker'[w].meta, worker'[w].pc, disk[worker'[w].claim.path].ver)
    BY DEF StepKeeps, WorkerKept, SameWork, FreshInv, WorkersFresh, MetaFresh
  <2>4. worker'[w].meta.ver \in Nat /\ worker'[w].meta.content \in Nat
    BY <2>1, MetadataAssumption DEF Meta, Ver
  <2> QED
    BY <1>1, <2>2, <2>3, <2>4 DEF MetaFresh
<1>4. ReaderFresh'
  <2> SUFFICES ASSUME reader' # NoReader
               PROVE  MetaFresh(reader'.meta, reader'.pc, disk'[reader'.path].ver)
    BY DEF ReaderFresh
  <2>1. reader'.path \in Paths /\ reader'.meta \in Meta
    BY DEF TypeOK
  <2>2. MetaFresh(reader'.meta, reader'.pc, disk[reader'.path].ver)
    BY DEF StepKeeps, ReaderKept, FreshInv, ReaderFresh, MetaFresh
  <2>3. reader'.meta.ver \in Nat /\ reader'.meta.content \in Nat
    BY <2>1, MetadataAssumption DEF Meta, Ver
  <2> QED
    BY <1>1, <2>1, <2>2, <2>3 DEF MetaFresh
<1> QED
  BY <1>2, <1>3, <1>4 DEF FreshInv

-----------------------------------------------------------------------------
(* The actions.                                                            *)

\* Only the environment writes files, and only forward.
LEMMA FilesGrow ==
  ASSUME TypeOK, Environment
  PROVE  DiskGrows /\ UNCHANGED <<im, worker, reader>>
<1>1. PICK p \in Paths : FileWritten(p) \/ FileRemoved(p) \/ FileRestored(p) \/ SidecarChanged(p)
  BY DEF Environment
<1>2. disk[p] \in [ver : Ver, here : BOOLEAN, side : Side] /\ \A q \in Paths : disk[q].ver \in Nat
  BY MetadataAssumption DEF TypeOK, Ver
<1>3. ASSUME NEW d, Change(p, d), disk[p].ver <= d.ver
      PROVE  DiskGrows /\ UNCHANGED <<im, worker, reader>>
  BY <1>2, <1>3 DEF Change, fileFrame, rows, DiskGrows, TypeOK
<1>4. CASE FileWritten(p)
  <2>1. disk[p].ver <= [disk[p] EXCEPT !.ver = @ + 1, !.here = TRUE].ver
    BY <1>2
  <2> QED
    BY <1>3, <1>4, <2>1 DEF FileWritten
<1>5. \A b : disk[p].ver <= [disk[p] EXCEPT !.here = b].ver /\ disk[p].ver <= [disk[p] EXCEPT !.side = b].ver
  BY <1>2
<1>6. CASE FileRemoved(p) \/ FileRestored(p)
  BY <1>3, <1>5, <1>6 DEF FileRemoved, FileRestored
<1>7. CASE SidecarChanged(p)
  <2>1. PICK s \in Side : Change(p, [disk[p] EXCEPT !.side = s])
    BY <1>7 DEF SidecarChanged
  <2> QED
    BY <1>3, <1>5, <2>1
<1> QED
  BY <1>1, <1>4, <1>6, <1>7

\* No row is fresh for any version.
LEMMA NoRowIsFresh ==
  ASSUME TypeOK, NEW p \in Paths
  PROVE  RowFresh(NoMetadata, disk[p].ver)
<1>1. NoMetadata.ns = 0 /\ NoMetadata.content = 0
  BY DEF NoMetadata
<1>2. disk[p].ver \in Nat
  BY ReadTypes
<1> QED
  BY <1>1, <1>2 DEF RowFresh

\* Nothing was read by a worker that starts a job.
LEMMA NothingRead ==
  ASSUME TypeOK, NEW p \in Paths
  PROVE  MetaFresh(NoMeta, "check", disk[p].ver)
BY ReadTypes DEF MetaFresh, NoMeta, HasRead

\* Other workers, and a worker that only changes its state outside the read ones.
LEMMA MovesOn ==
  ASSUME TypeOK, NEW w \in Workers, NEW s
  PROVE  /\ Busy(w) /\ (s \in HasRead => worker[w].pc \in HasRead) /\ ToState(w, s)
            => \A v \in Workers : WorkerKept(v)
         /\ ToIdle(w) => \A v \in Workers : WorkerKept(v)
<1>1. ASSUME NEW v \in Workers, worker'[v] = worker[v]
      PROVE  WorkerKept(v)
  BY <1>1 DEF WorkerKept, SameWork, Busy
<1>2. ASSUME Busy(w), s \in HasRead => worker[w].pc \in HasRead, ToState(w, s)
      PROVE  WorkerKept(w)
  <2>1. worker'[w] = [worker[w] EXCEPT !.pc = s]
    BY <1>2 DEF ToState, TypeOK
  <2>2. worker[w] = [pc |-> worker[w].pc, claim |-> worker[w].claim, meta |-> worker[w].meta]
    BY <1>2, WorkerType DEF TypeOK
  <2>3. worker'[w].pc = s /\ worker'[w].claim = worker[w].claim /\ worker'[w].meta = worker[w].meta
    BY <2>1, <2>2
  <2> QED
    BY <1>2, <2>3 DEF WorkerKept, SameWork
<1>3. ASSUME ToIdle(w)
      PROVE  WorkerKept(w)
  BY <1>3 DEF ToIdle, WorkerKept, Busy, Idle, TypeOK
<1>4. ASSUME NEW v \in Workers \ {w}, ToIdle(w) \/ ToState(w, s)
      PROVE  worker'[v] = worker[v]
  BY <1>4 DEF ToIdle, ToState, TypeOK
<1> QED
  BY <1>1, <1>2, <1>3, <1>4

\* A worker that has read something fresh.
LEMMA GoesOnFresh ==
  ASSUME TypeOK, NEW w \in Workers, NEW s, NEW m, GoesOn(w, s, m),
         MetaFresh(m, s, disk[worker[w].claim.path].ver)
  PROVE  \A v \in Workers : WorkerKept(v)
<1>1. worker'[w] = [pc |-> s, claim |-> worker[w].claim, meta |-> m]
  BY DEF GoesOn, TypeOK
<1>2. \A v \in Workers \ {w} : worker'[v] = worker[v]
  BY DEF GoesOn, TypeOK
<1> QED
  BY <1>1, <1>2 DEF WorkerKept, SameWork, Busy

\* A worker takes a job, with nothing read.
LEMMA TakesJob ==
  ASSUME TypeOK, NEW w \in Workers, NEW c, c.path \in Paths,
         worker' = [worker EXCEPT ![w] = [pc |-> "check", claim |-> c, meta |-> NoMeta]]
  PROVE  \A v \in Workers : WorkerKept(v)
<1>1. worker'[w] = [pc |-> "check", claim |-> c, meta |-> NoMeta]
  BY DEF TypeOK
<1>2. \A v \in Workers \ {w} : worker'[v] = worker[v]
  BY DEF TypeOK
<1>3. MetaFresh(NoMeta, "check", disk[c.path].ver)
  BY NothingRead
<1> QED
  BY <1>1, <1>2, <1>3 DEF WorkerKept, SameWork, Busy

\* Claiming a batch, or taking the next job of one.
LEMMA ClaimFresh ==
  ASSUME TypeOK, NEW w \in Workers, (\E o \in {"ok", "lost"} : ClaimJobs(w, o)) \/ NextBuffered(w)
  PROVE  StepKeeps /\ disk' = disk
<1>1. im' = im /\ reader' = reader /\ disk' = disk
  BY DEF ClaimJobs, NextBuffered, workerFrame, rows
<1>2. \A v \in Workers : WorkerKept(v)
  <2>1. ASSUME NEW o, ClaimJobs(w, o)
        PROVE  \A v \in Workers : WorkerKept(v)
    <3>1. PICK n \in 1..ClaimBatch :
            \E ps \in [1..n -> Due], ts \in [1..n -> Fresh] : StartClaims(w, o, ps, ts, n)
      BY <2>1 DEF ClaimJobs
    <3>2. PICK ps \in [1..n -> Due], ts \in [1..n -> Fresh] : StartClaims(w, o, ps, ts, n)
      BY <3>1
    <3> DEFINE claims == [i \in 1..n |-> [path |-> ps[i], ver |-> job[ps[i]].ver,
                                          attempts |-> job[ps[i]].attempts + 1, token |-> ts[i]]]
    <3>3. 1 \in 1..n
      BY MetadataAssumption
    <3>4. claims[1].path = ps[1] /\ ps[1] \in Paths
      BY <3>3 DEF Due
    <3>5. CASE o = "ok"
      <4>1. worker' = [worker EXCEPT ![w] = [pc |-> "check", claim |-> claims[1], meta |-> NoMeta]]
        BY <3>2, <3>5 DEF StartClaims
      <4> QED
        BY <3>4, <4>1, TakesJob
    <3>6. CASE o # "ok"
      BY <3>2, <3>6 DEF StartClaims, WorkerKept, SameWork, Busy
    <3> QED
      BY <3>5, <3>6
  <2>2. CASE NextBuffered(w)
    <3>1. buf[w] \in Seq(Claim) /\ buf[w] # <<>>
      BY <2>2 DEF NextBuffered, TypeOK
    <3>2. Head(buf[w]) \in Claim
      BY <3>1
    <3>3. Head(buf[w]).path \in Paths
      BY <3>2 DEF Claim
    <3> QED
      BY <2>2, <3>3, TakesJob DEF NextBuffered
  <2> QED
    BY <2>1, <2>2
<1> QED
  BY <1>1, <1>2 DEF StepKeeps, RowKept, ReaderKept

\* The steps of a job before its last write: stat before read.
LEMMA RunJobFresh ==
  ASSUME FreshInv, NEW w \in Workers, CheckCurrent(w) \/ ExtractStat(w) \/ ExtractRead(w) \/ Recheck(w)
  PROVE  StepKeeps /\ disk' = disk
<1> DEFINE p == worker[w].claim.path
           m == worker[w].meta
<1>1. im' = im /\ reader' = reader /\ disk' = disk
  BY DEF CheckCurrent, ExtractStat, ExtractRead, Recheck, workerFrame, rows
<1>2. Busy(w)
  BY DEF CheckCurrent, ExtractStat, ExtractRead, Recheck, Busy
<1>3. p \in Paths /\ disk[p].ver \in Nat /\ MetaFresh(m, worker[w].pc, disk[p].ver)
  BY <1>2, ReadTypes DEF FreshInv, WorkersFresh
<1>4. \A v \in Workers : WorkerKept(v)
  <2>1. CASE CheckCurrent(w)
    BY <1>2, <2>1, MovesOn DEF CheckCurrent, FreshInv, HasRead
  <2>2. CASE ExtractStat(w)
    <3>1. MetaFresh([ver |-> disk[p].ver, side |-> 0, content |-> 0], "read", disk[p].ver)
      BY <1>3 DEF MetaFresh, HasRead
    <3> QED
      BY <1>2, <2>2, <3>1, GoesOnFresh, MovesOn DEF ExtractStat, FreshInv, HasRead
  <2>3. CASE ExtractRead(w)
    <3>1. MetaFresh([ver |-> m.ver, side |-> disk[p].side, content |-> disk[p].ver], "recheck", disk[p].ver)
      BY <1>3 DEF MetaFresh
    <3>2. "fail" \notin HasRead /\ "retry" \notin HasRead
      BY DEF HasRead
    <3> QED
      BY <1>2, <2>3, <3>1, <3>2, GoesOnFresh, MovesOn DEF ExtractRead, FreshInv
  <2>4. CASE Recheck(w)
    <3>1. ToState(w, "stale") \/ ToState(w, "write") \/ ToIdle(w)
      BY <2>4 DEF Recheck
    <3>2. worker[w].pc \in HasRead
      BY <2>4 DEF Recheck, HasRead
    <3> QED
      BY <1>2, <3>1, <3>2, MovesOn DEF FreshInv
  <2> QED
    BY <2>1, <2>2, <2>3, <2>4
<1> QED
  BY <1>1, <1>4 DEF StepKeeps, RowKept, ReaderKept

\* Metadata that is stored was read after its identity was taken.
LEMMA UpsertFresh ==
  ASSUME TypeOK, NEW q \in Paths, NEW m, MetaFresh(m, "write", disk[q].ver), im' = Upserted(q, m)
  PROVE  \A p \in Paths : RowKept(p)
BY DEF Upserted, MetaFresh, HasRead, RowKept, RowFresh, TypeOK

\* The last write of a job.
LEMMA FinishFresh ==
  ASSUME FreshInv, NEW w \in Workers, NEW o,
         MarkStale(w, o) \/ PersistAndComplete(w, o) \/ RecordFailure(w, o)
  PROVE  StepKeeps /\ disk' = disk
<1> DEFINE p == worker[w].claim.path
<1>1. reader' = reader /\ disk' = disk
  BY DEF MarkStale, PersistAndComplete, RecordFailure, workerFrame
<1>2. Busy(w)
  BY DEF MarkStale, PersistAndComplete, RecordFailure, Busy
<1>3. \A v \in Workers : WorkerKept(v)
  BY <1>2, MovesOn DEF MarkStale, PersistAndComplete, RecordFailure, AfterOp, FreshInv, HasRead
<1>4. \A q \in Paths : RowKept(q)
  <2>1. CASE im' = im
    BY <2>1 DEF RowKept
  <2>2. CASE PersistAndComplete(w, o) /\ im' = Upserted(p, worker[w].meta)
    <3>1. p \in Paths /\ MetaFresh(worker[w].meta, "write", disk[p].ver)
      BY <1>2, <2>2, ReadTypes DEF FreshInv, WorkersFresh, PersistAndComplete
    <3> QED
      BY <2>2, <3>1, UpsertFresh DEF FreshInv
  <2>3. im' = im \/ (PersistAndComplete(w, o) /\ im' = Upserted(p, worker[w].meta))
    BY DEF MarkStale, PersistAndComplete, RecordFailure, rows
  <2> QED
    BY <2>1, <2>2, <2>3
<1> QED
  BY <1>1, <1>3, <1>4 DEF StepKeeps, ReaderKept

\* A metadata request reads and stores in the same order.
LEMMA ReaderFreshSteps ==
  ASSUME FreshInv, (\E p \in Paths : ReaderStat(p)) \/ ReaderRead \/ ReaderWrite
  PROVE  StepKeeps /\ disk' = disk
<1>1. worker' = worker /\ disk' = disk
  BY DEF ReaderStat, ReaderRead, ReaderWrite, readerFrame
<1>2. \A w \in Workers : WorkerKept(w)
  BY <1>1 DEF WorkerKept, SameWork, Busy
<1>3. ASSUME NEW p \in Paths, ReaderStat(p)
      PROVE  StepKeeps
  <2>1. reader'.path = p /\ reader'.pc = "read" /\ reader'.meta = [ver |-> disk[p].ver, side |-> 0, content |-> 0]
    BY <1>3 DEF ReaderStat, NoMeta
  <2>2. MetaFresh(reader'.meta, reader'.pc, disk[reader'.path].ver)
    BY <2>1, ReadTypes DEF MetaFresh, HasRead, FreshInv
  <2> QED
    BY <1>2, <1>3, <2>2 DEF StepKeeps, RowKept, ReaderKept, ReaderStat, rows
<1>4. CASE ReaderRead
  <2> DEFINE q == reader.path
  <2>0. \A p \in Paths : RowKept(p)
    BY <1>4 DEF ReaderRead, rows, RowKept
  <2>1. q \in Paths /\ disk[q].ver \in Nat /\ MetaFresh(reader.meta, reader.pc, disk[q].ver)
    BY <1>4, ReadTypes DEF FreshInv, ReaderFresh, ReaderRead, NoReader
  <2>2. CASE reader' = [pc |-> "write", path |-> q,
                        meta |-> [ver |-> reader.meta.ver, side |-> disk[q].side, content |-> disk[q].ver]]
    <3>1. MetaFresh(reader'.meta, reader'.pc, disk[reader'.path].ver)
      BY <2>1, <2>2 DEF MetaFresh
    <3> QED
      BY <1>1, <1>2, <2>0, <3>1 DEF StepKeeps, ReaderKept
  <2>3. CASE reader' = NoReader
    BY <1>1, <1>2, <2>0, <2>3 DEF StepKeeps, ReaderKept
  <2> QED
    BY <1>4, <2>2, <2>3 DEF ReaderRead
<1>5. CASE ReaderWrite
  <2>1. reader.path \in Paths /\ MetaFresh(reader.meta, "write", disk[reader.path].ver)
    BY <1>5, ReadTypes DEF FreshInv, ReaderFresh, ReaderWrite, NoReader
  <2>2. \A p \in Paths : RowKept(p)
    BY <1>5, <2>1, UpsertFresh DEF FreshInv, ReaderWrite
  <2>3. ReaderKept
    BY <1>5 DEF ReaderKept, ReaderWrite
  <2> QED
    BY <1>1, <1>2, <2>2, <2>3 DEF StepKeeps
<1> QED
  BY <1>1, <1>3, <1>4, <1>5

\* Nobody else touches what was read: a render writes the seconds identity alone,
\* and cleanup deletes rows.
LEMMA OthersFresh ==
  ASSUME FreshInv,
         \/ Supervise("ok") \/ Supervise("rejected")
         \/ \E w \in Workers : Renew(w) \/ WorkerExit(w, "ok") \/ WorkerExit(w, "rejected")
         \/ \E p \in Paths : \/ LeaseExpires(p) \/ BackoffElapses(p)
                             \/ ScanDiscover(p) \/ RenderStat(p) \/ CleanupStale(p) \/ ForgetOffline(p)
         \/ ScanWrite \/ DispatchStat \/ DispatchWrite \/ ScanAbandoned \/ RenderWrite
         \/ Integrity \/ IntegrityLook \/ IntegrityFail
         \/ Crash \/ Startup
  PROVE  StepKeeps /\ disk' = disk
<1>1. \A p \in Paths : RowFresh(NoMetadata, disk[p].ver)
  BY NoRowIsFresh DEF FreshInv
<1>2. \A w \in Workers : worker'[w] = worker[w] \/ ~Busy(w)'
  <2>1. CASE worker' = worker
    BY <2>1
  <2>2. Idle.pc = "idle" /\ [Idle EXCEPT !.pc = "dead"].pc = "dead"
    BY DEF Idle
  <2>3. ASSUME NEW v \in Workers, WorkerExit(v, "ok") \/ WorkerExit(v, "rejected"), NEW w \in Workers
        PROVE  worker'[w] = worker[w] \/ ~Busy(w)'
    <3>1. worker' = [worker EXCEPT ![v] = [Idle EXCEPT !.pc = "dead"]]
      BY <2>3 DEF WorkerExit
    <3> QED
      BY <2>2, <3>1 DEF FreshInv, TypeOK, Busy
  <2>4. CASE Supervise("ok") \/ Supervise("rejected") \/ Crash
    BY <2>2, <2>4 DEF Supervise, Crash, Busy
  <2>5. \/ worker' = worker
        \/ \E v \in Workers : WorkerExit(v, "ok") \/ WorkerExit(v, "rejected")
        \/ Supervise("ok") \/ Supervise("rejected") \/ Crash
    BY DEF Renew, LeaseExpires, BackoffElapses,
           ScanDiscover, RenderStat, CleanupStale, ForgetOffline, ScanWrite, DispatchStat, DispatchWrite,
           ScanAbandoned, RenderWrite, Integrity, IntegrityLook, IntegrityFail, Startup,
           ResetRunning, PlanRepairs, ApplyRepairs,
           timeFrame, scanFrame, renderFrame, housekeepingFrame, recoveryFrame
  <2> QED
    BY <2>1, <2>3, <2>4, <2>5
<1>3. \A w \in Workers : WorkerKept(w)
  BY <1>2 DEF WorkerKept, SameWork, Busy
<1>4. reader' \in {reader, NoReader} /\ disk' = disk
  BY DEF Supervise, Renew, WorkerExit, LeaseExpires, BackoffElapses,
         ScanDiscover, RenderStat, CleanupStale, ForgetOffline, ScanWrite, DispatchStat, DispatchWrite,
         ScanAbandoned, RenderWrite, Integrity, IntegrityLook, IntegrityFail, Crash, Startup,
         ResetRunning, PlanRepairs, ApplyRepairs,
         workerFrame, timeFrame, scanFrame, renderFrame, housekeepingFrame, recoveryFrame
<1>5. \A p \in Paths : RowKept(p)
  <2>1. CASE im' = im
    BY <2>1 DEF RowKept
  <2>2. CASE RenderWrite
    BY <2>2 DEF RenderWrite, RowKept, FreshInv, TypeOK, Metadata
  <2>3. CASE \E q \in Paths : im' = [im EXCEPT ![q] = NoMetadata]
    BY <1>1, <2>3 DEF RowKept, FreshInv, TypeOK
  <2>4. im' = im \/ RenderWrite \/ \E q \in Paths : im' = [im EXCEPT ![q] = NoMetadata]
    BY DEF Supervise, Renew, WorkerExit, LeaseExpires, BackoffElapses, rows,
         ScanDiscover, RenderStat, CleanupStale, ForgetOffline, ScanWrite, DispatchStat, DispatchWrite,
         ScanAbandoned, Integrity, IntegrityLook, IntegrityFail, Crash, Startup,
         ResetRunning, PlanRepairs, ApplyRepairs,
         workerFrame, timeFrame, scanFrame, renderFrame, housekeepingFrame, recoveryFrame
  <2> QED
    BY <2>1, <2>2, <2>3, <2>4
<1> QED
  BY <1>3, <1>4, <1>5 DEF StepKeeps, ReaderKept

-----------------------------------------------------------------------------
LEMMA InitFresh == Init => FreshInv
<1> SUFFICES ASSUME Init PROVE FreshInv
  OBVIOUS
<1>1. TypeOK
  BY InitType
<1>2. RowsFresh
  BY <1>1, NoRowIsFresh DEF Init, RowsFresh
<1>3. WorkersFresh /\ ReaderFresh
  BY DEF Init, WorkersFresh, ReaderFresh, Busy, Idle
<1> QED
  BY <1>1, <1>2, <1>3 DEF FreshInv

LEMMA NextFresh ==
  ASSUME FreshInv, [Next]_vars
  PROVE  FreshInv'
<1>1. TypeOK /\ TypeOK'
  BY NextType DEF FreshInv
<1>2. ASSUME StepKeeps, disk' = disk
      PROVE  FreshInv'
  BY <1>1, <1>2, KeptIsFresh, ReadTypes DEF DiskGrows
<1>3. CASE UNCHANGED vars
  BY <1>2, <1>3 DEF vars, rows, StepKeeps, RowKept, WorkerKept, SameWork, Busy, ReaderKept
<1>4. ASSUME NEW w \in Workers, WorkerStep(w)
      PROVE  FreshInv'
  BY <1>1, <1>2, <1>4, ClaimFresh, RunJobFresh, FinishFresh DEF WorkerStep
<1>5. CASE Service
  BY <1>2, <1>5, ReaderFreshSteps, OthersFresh DEF Service
<1>6. CASE Environment
  BY <1>1, <1>6, FilesGrow, KeptIsFresh DEF StepKeeps, RowKept, WorkerKept, SameWork, Busy, ReaderKept
<1>7. CASE SupervisorStep \/ Crash \/ Startup \/ \E p \in Paths : LeaseExpires(p) \/ BackoffElapses(p)
  BY <1>2, <1>7, OthersFresh DEF SupervisorStep
<1> QED
  BY <1>3, <1>4, <1>5, <1>6, <1>7 DEF Next

\* extract_metadata takes the stat before it reads: metadata stored under the
\* identity of the file now on disk was read from that content.
THEOREM MetadataIsFresh == Spec => []CurrentMetadataIsFresh
<1>1. FreshInv => CurrentMetadataIsFresh
  <2> SUFFICES ASSUME FreshInv, NEW p \in Paths, im[p].ns = disk[p].ver
               PROVE  im[p].content = disk[p].ver
    BY DEF CurrentMetadataIsFresh
  <2>1. RowFresh(im[p], disk[p].ver)
    BY DEF FreshInv, RowsFresh
  <2> QED
    BY <2>1, ReadTypes DEF RowFresh, FreshInv
<1> QED
  BY <1>1, InitFresh, NextFresh, PTL DEF Spec
=============================================================================
