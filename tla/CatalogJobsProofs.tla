-------------------------- MODULE CatalogJobsProofs --------------------------
(***************************************************************************)
(* Type correctness of CatalogJobs for every number of libraries, folders, *)
(* workers and jobs, and what the claim of a job gives: every job at work  *)
(* has one thread, which the supervisor leaves alone; staging rows belong  *)
(* to a rebuild that runs or failed; a library has one running job, made   *)
(* for its present configuration.                                          *)
(***************************************************************************)
EXTENDS CatalogJobs, SequenceTheorems, FiniteSetTheorems, WellFoundedInduction, TLAPS

JobStates == Active \cup Terminal \cup {"gone"}
JobRow ==
  [lib : Libraries, type : {"scan", "rebuild"},
   trigger : {"manual", "watcher", "scheduled", "startup"},
   scope : Folders \cup {All}, prio : {10, 50, 100},
   state : JobStates, rev : Nat, live : BOOLEAN, tracked : BOOLEAN]
LibStates == {"discovering", "indexing", "ready", "degraded", "error", "offline"}
LibRow == [state : LibStates, rev : Nat]
AssetRow == [ver : Nat \cup {None}, off : BOOLEAN]
StageRow == [job : Nat, folder : Folders, ver : Nat]

\* The steps in which a thread works on a job under its claim.
Working == {"look", "mark", "start", "walk", "write", "progress", "activate", "finish",
            "clean", "fail"}
ThreadStates == Working \cup {"idle", "leave", "close"}
Thread == [pc : ThreadStates, job : Nat,
           on : SUBSET Folders, off : SUBSET Folders, todo : SUBSET Folders,
           seen : [folder : Folders \cup {None}, ver : Nat, there : BOOLEAN],
           ready : BOOLEAN, tell : BOOLEAN]
\* What a thread is about to take from its lists is there.
ThreadOK(t) ==
  /\ t.pc = "start" => t.on # {}
  /\ t.pc = "walk" => t.todo # {}
  /\ t.pc = "write" => t.seen.folder \in Folders

Todos == (SUBSET Libraries) \cup {{All}, {None}}
Parent == [state : {"none"} \cup Active \cup Terminal, todo : Todos]
Types ==
  /\ disk \in [Folders -> [ver : Nat, there : BOOLEAN]]
  /\ cat \in [Folders -> AssetRow]
  /\ lib \in [Libraries -> LibRow]
  /\ job \in Seq(JobRow)
  /\ stage \subseteq StageRow
  /\ worker \in [Workers -> Thread]
  /\ parent \in Parent
  /\ buffer \subseteq Folders /\ lost \subseteq Folders
  /\ used \in [Events -> Nat]

\* A job at work has one thread, and it is at work while the thread is.
Busy(w) == worker[w].pc # "idle"
Owners ==
  \A w \in Workers :
    /\ ThreadOK(worker[w])
    /\ Busy(w) => worker[w].job \in Jobs /\ Mine(w).state # "queued"
    /\ worker[w].pc \in Working => Mine(w).state = "running"
    /\ \A v \in Workers : Busy(v) /\ Busy(w) /\ worker[v].job = worker[w].job => v = w

\* What the supervisor has found abandoned has no thread, and gets none.
SweepApart == \A j \in sweep.found : j \in Jobs /\ j \notin Registered

\* Staging rows belong to a running rebuild that is past its first walk and has not
\* activated them, or to one that failed and could not delete them.
Clear == {"look", "mark", "start", "finish"}
Kept == {"running", "failed"}
StageOwned ==
  /\ \A s \in stage : s.job \in Jobs /\ job[s.job].state \in Kept /\ job[s.job].type = "rebuild"
  /\ \A w \in Workers, s \in stage : worker[w].pc \in Clear => s.job # worker[w].job

\* The scope of a job is a folder of its library.
ScopeOK(r) == r.scope = All \/ LibOf[r.scope] = r.lib
ScopesOwned == \A j \in Jobs : ScopeOK(job[j])

CatalogInv ==
  Types /\ Owners /\ SweepApart /\ StageOwned /\ ScopesOwned /\ JobsMatchConfiguration

-----------------------------------------------------------------------------
(* What a step may do, but for a claim: a job is joined or goes on, or is  *)
(* over; a thread goes on with its job, or lets it go.                     *)

RowStep(o, n) ==
  /\ n.lib = o.lib /\ n.type = o.type /\ n.scope = o.scope /\ n.rev = o.rev
  /\ n.state # o.state => n.state \notin Active
NewRow(r) == r.state = "queued" /\ r.rev = lib'[r.lib].rev /\ ScopeOK(r)
TableStep ==
  /\ \A j \in Jobs : j \in Jobs' /\ RowStep(job[j], job'[j])
  /\ \A j \in Jobs' \ Jobs : NewRow(job'[j])
LibStep == \A l \in Libraries : lib'[l].rev = lib[l].rev \/ NoActiveWork(l)
ThreadStep(w) ==
  /\ ThreadOK(worker'[w])
  /\ \/ worker'[w].pc = "idle"
     \/ /\ Busy(w) /\ worker'[w].job = worker[w].job
        /\ worker'[w].pc \in Working => /\ worker[w].pc \in Working
                                        /\ job'[worker[w].job].state = "running"
        /\ worker[w].pc = "close" => worker'[w].pc = "close"
SweepStep ==
  \/ sweep'.found \subseteq sweep.found
  \/ sweep'.found \subseteq Abandoned /\ UNCHANGED <<job, worker>>
StageStep ==
  \A s \in stage' :
    /\ s \in stage \/ \E w \in Workers : worker[w].pc = "write" /\ Rebuilds(w) /\ s.job = worker[w].job
    /\ job'[s.job].state \in Kept
    /\ \A w \in Workers : worker'[w].pc \in Clear =>
         worker[w].pc \in Clear \/ s.job # worker'[w].job
Steps == TableStep /\ LibStep /\ (\A w \in Workers : ThreadStep(w)) /\ SweepStep /\ StageStep

\* The table is a sequence of rows: what its domain is, and what is one again.
LEMMA Table ==
  ASSUME job \in Seq(JobRow)
  PROVE  /\ Jobs = 1..Len(job) /\ Len(job) \in Nat
         /\ \A j \in Jobs : job[j] \in JobRow
         /\ \A t \in [Jobs -> JobRow] : t \in Seq(JobRow) /\ DOMAIN t = Jobs /\ Len(t) = Len(job)
<1>1. Jobs = 1..Len(job) /\ Len(job) \in Nat /\ \A j \in Jobs : job[j] \in JobRow
  BY LenProperties, ElementOfSeq DEF Jobs
<1>2. ASSUME NEW t \in [Jobs -> JobRow]
      PROVE  t \in Seq(JobRow) /\ DOMAIN t = Jobs /\ Len(t) = Len(job)
  <2>1. t \in Seq(JobRow)
    BY <1>1, SeqDef
  <2> QED
    BY <1>1, <2>1, LenProperties
<1> QED
  BY <1>1, <1>2

\* Jobs stay of the present configuration, and libraries with one running job.
LEMMA ConfigurationKept ==
  ASSUME Types, Types', JobsMatchConfiguration, TableStep, LibStep
  PROVE  JobsMatchConfiguration'
<1>1. \A j \in Jobs : job[j].lib \in Libraries
  BY Table DEF Types, JobRow
<1>2. ASSUME NEW j \in Jobs', job'[j].state \in Active
      PROVE  job'[j].rev = lib'[job'[j].lib].rev
  <2>1. CASE j \in Jobs
    <3>1. /\ job'[j].lib = job[j].lib /\ job'[j].rev = job[j].rev
          /\ job[j].state \in Active
      BY <1>2, <2>1 DEF TableStep, RowStep
    <3>2. job[j].rev = lib[job[j].lib].rev /\ j \in ActiveOf(job[j].lib)
      BY <2>1, <3>1 DEF JobsMatchConfiguration, ActiveOf
    <3> QED
      BY <1>1, <2>1, <3>1, <3>2 DEF LibStep, NoActiveWork
  <2>2. CASE j \notin Jobs
    BY <1>2, <2>2 DEF TableStep, NewRow
  <2> QED
    BY <2>1, <2>2
<1>3. ASSUME NEW j \in Jobs', job'[j].state = "running"
      PROVE  j \in Jobs /\ job[j].state = "running" /\ job[j].lib = job'[j].lib
  BY <1>3 DEF TableStep, RowStep, NewRow, Active
<1>4. ASSUME NEW i \in Jobs', NEW j \in Jobs', job'[i].state = "running",
             job'[j].state = "running", job'[i].lib = job'[j].lib
      PROVE  i = j
  <2>1. /\ i \in Jobs /\ job[i].state = "running" /\ job[i].lib = job'[i].lib
        /\ j \in Jobs /\ job[j].state = "running" /\ job[j].lib = job'[j].lib
    BY <1>3, <1>4
  <2> QED
    BY <1>4, <2>1 DEF JobsMatchConfiguration
<1> QED
  BY <1>2, <1>4 DEF JobsMatchConfiguration

\* Such a step keeps the invariant.
LEMMA StepsKeep ==
  ASSUME CatalogInv, Types', Steps
  PROVE  CatalogInv'
<1> USE DEF CatalogInv, Steps
<1>1. JobsMatchConfiguration'
  BY ConfigurationKept
<1>2. ScopesOwned'
  BY DEF ScopesOwned, ScopeOK, TableStep, RowStep, NewRow
<1>3. ASSUME NEW w \in Workers, Busy(w)'
      PROVE  /\ Busy(w) /\ worker'[w].job = worker[w].job /\ worker[w].job \in Jobs
             /\ worker[w].job \in Jobs' /\ job'[worker[w].job].state # "queued"
             /\ worker[w].pc = "close" => worker'[w].pc = "close"
  <2>1. Busy(w) /\ worker'[w].job = worker[w].job /\ (worker[w].pc = "close" => worker'[w].pc = "close")
    BY <1>3 DEF ThreadStep, Busy
  <2>2. worker[w].job \in Jobs /\ Mine(w).state # "queued"
    BY <2>1 DEF Owners
  <2> QED
    BY <2>1, <2>2 DEF TableStep, RowStep, Mine, Active
<1>4. Owners'
  <2> SUFFICES ASSUME NEW w \in Workers
               PROVE  /\ ThreadOK(worker'[w])
                      /\ Busy(w)' => worker'[w].job \in Jobs' /\ job'[worker'[w].job].state # "queued"
                      /\ worker'[w].pc \in Working => job'[worker'[w].job].state = "running"
                      /\ \A v \in Workers : Busy(v)' /\ Busy(w)' /\ worker'[v].job = worker'[w].job => v = w
    BY DEF Owners, Mine
  <2>1. worker'[w].pc \in Working => job'[worker'[w].job].state = "running"
    BY DEF ThreadStep, Working
  <2>2. ASSUME NEW v \in Workers, Busy(v)', Busy(w)', worker'[v].job = worker'[w].job
        PROVE  v = w
    BY <1>3, <2>2 DEF Owners
  <2> QED
    BY <1>3, <2>1, <2>2 DEF ThreadStep
<1>5. SweepApart'
  <2>1. Registered' \subseteq Registered
    <3> SUFFICES ASSUME NEW w \in Workers, worker'[w].pc \notin {"idle", "close"}
                 PROVE  worker'[w].job \in Registered
      BY DEF Registered
    <3> QED
      BY <1>3 DEF Registered, Busy
  <2>2. CASE sweep'.found \subseteq sweep.found
    BY <2>1, <2>2 DEF SweepApart, TableStep
  <2>3. CASE sweep'.found \subseteq Abandoned /\ UNCHANGED <<job, worker>>
    BY <2>1, <2>3 DEF SweepApart, Abandoned, Jobs
  <2> QED
    BY <2>2, <2>3 DEF SweepStep
<1>6. StageOwned'
  <2> SUFFICES ASSUME NEW s \in stage'
               PROVE  /\ s.job \in Jobs' /\ job'[s.job].state \in Kept /\ job'[s.job].type = "rebuild"
                      /\ \A w \in Workers : worker'[w].pc \in Clear => s.job # worker'[w].job
    BY DEF StageOwned
  <2>1. CASE s \in stage
    <3>1. s.job \in Jobs /\ job[s.job].type = "rebuild"
      BY <2>1 DEF StageOwned
    <3>2. s.job \in Jobs' /\ job'[s.job].type = "rebuild" /\ job'[s.job].state \in Kept
      BY <3>1 DEF TableStep, RowStep, StageStep
    <3>3. ASSUME NEW w \in Workers, worker'[w].pc \in Clear
          PROVE  s.job # worker'[w].job
      <4>1. Busy(w)'
        BY <3>3 DEF Busy, Clear
      <4> QED
        BY <1>3, <2>1, <3>3, <4>1 DEF StageStep, StageOwned
    <3> QED
      BY <3>2, <3>3
  <2>2. CASE s \notin stage
    <3>1. PICK v \in Workers : worker[v].pc = "write" /\ Rebuilds(v) /\ s.job = worker[v].job
      BY <2>2 DEF StageStep
    <3>2. s.job \in Jobs /\ job[s.job].type = "rebuild" /\ Busy(v)
      BY <3>1 DEF Owners, Rebuilds, Mine, Busy
    <3>3. s.job \in Jobs' /\ job'[s.job].type = "rebuild" /\ job'[s.job].state \in Kept
      BY <3>2 DEF TableStep, RowStep, StageStep
    <3>4. ASSUME NEW w \in Workers, worker'[w].pc \in Clear
          PROVE  s.job # worker'[w].job
      <4>1. Busy(w)'
        BY <3>4 DEF Busy, Clear
      <4>2. worker[w].pc # "write" \/ s.job # worker'[w].job
        BY <3>4 DEF StageStep, Clear
      <4> QED
        BY <1>3, <3>1, <3>2, <4>1, <4>2 DEF Owners
    <3> QED
      BY <3>3, <3>4
  <2> QED
    BY <2>1, <2>2
<1> QED
  BY <1>1, <1>2, <1>4, <1>5, <1>6

-----------------------------------------------------------------------------
(* Updates of the job table and of one thread.                             *)

\* One row replaced.
LEMMA RowReplaced ==
  ASSUME job \in Seq(JobRow), NEW j, NEW r, j \in Jobs => r \in JobRow
  PROVE  /\ [job EXCEPT ![j] = r] \in Seq(JobRow)
         /\ DOMAIN [job EXCEPT ![j] = r] = Jobs
         /\ \A k \in Jobs : [job EXCEPT ![j] = r][k] = IF k = j THEN r ELSE job[k]
<1>1. [job EXCEPT ![j] = r] \in [Jobs -> JobRow]
  BY Table DEF Jobs
<1> QED
  BY <1>1, Table DEF Jobs

\* A job's state and claim change, and nothing else of it.
LEMMA StateType ==
  ASSUME NEW r \in JobRow, NEW s \in JobStates, NEW b \in BOOLEAN
  PROVE  /\ [r EXCEPT !.live = b] \in JobRow /\ [r EXCEPT !.state = s] \in JobRow
         /\ [r EXCEPT !.state = s, !.live = b] \in JobRow
BY DEF JobRow

\* The heartbeat and every fenced write extend the claim: no other column changes.
LEMMA LiveTable ==
  ASSUME job \in Seq(JobRow), NEW j, NEW b \in BOOLEAN, job' = [job EXCEPT ![j].live = b]
  PROVE  /\ job' \in Seq(JobRow) /\ TableStep /\ Jobs' = Jobs
         /\ \A k \in Jobs : job'[k].state = job[k].state
<1> DEFINE r == [job[j] EXCEPT !.live = b]
<1>1. j \in Jobs => r \in JobRow
  BY Table, StateType DEF JobStates
<1>2. job' = [job EXCEPT ![j] = r]
  OBVIOUS
<1>3. \A k \in Jobs : job[k] \in JobRow
  BY Table
<1>4. j \in Jobs => RowStep(job[j], r) /\ r.state = job[j].state
  BY <1>3 DEF RowStep, JobRow
<1>5. \A k \in Jobs : RowStep(job[k], job[k])
  BY DEF RowStep
<1> HIDE DEF r
<1>6. /\ job' \in Seq(JobRow) /\ Jobs' = Jobs
      /\ \A k \in Jobs : job'[k] = IF k = j THEN r ELSE job[k]
  BY <1>1, <1>2, RowReplaced DEF Jobs
<1> QED
  BY <1>4, <1>5, <1>6 DEF TableStep

\* A transition that ends one job.
LEMMA EndedTable ==
  ASSUME job \in Seq(JobRow), NEW j \in Jobs, NEW s \in {"succeeded", "failed"},
         job' = [job EXCEPT ![j] = [@ EXCEPT !.state = s, !.live = FALSE]]
  PROVE  /\ job' \in Seq(JobRow) /\ TableStep /\ job'[j].state = s
         /\ \A k \in Jobs \ {j} : job'[k].state = job[k].state
<1> DEFINE r == [job[j] EXCEPT !.state = s, !.live = FALSE]
<1>1. job[j] \in JobRow /\ r \in JobRow
  BY Table, StateType DEF JobStates, Terminal
<1>0. r.state = s
  BY <1>1 DEF JobRow
<1>2. job' = [job EXCEPT ![j] = r]
  OBVIOUS
<1>3. RowStep(job[j], r)
  BY <1>1 DEF RowStep, JobRow, Active
<1>4. \A k \in Jobs : RowStep(job[k], job[k])
  BY DEF RowStep
<1> HIDE DEF r
<1>5. /\ job' \in Seq(JobRow) /\ Jobs' = Jobs
      /\ \A k \in Jobs : job'[k] = IF k = j THEN r ELSE job[k]
  BY <1>1, <1>2, RowReplaced DEF Jobs
<1> QED
  BY <1>0, <1>3, <1>4, <1>5 DEF TableStep

\* The table as it was.
LEMMA SameTable ==
  ASSUME job' = job
  PROVE  TableStep /\ Jobs' = Jobs
BY DEF TableStep, RowStep, Jobs

\* A step of one thread with a job, which may move this job only, and whose staging
\* rows stay while the job runs.
LEMMA OneThread ==
  ASSUME CatalogInv, Types', NEW w \in Workers, Busy(w), NEW t, worker' = [worker EXCEPT ![w] = t],
         ThreadOK(t),
         \/ t.pc = "idle"
         \/ /\ t.job = worker[w].job
            /\ t.pc \in Working => /\ worker[w].pc \in Working
                                   /\ job'[worker[w].job].state = "running"
            /\ worker[w].pc = "close" => t.pc = "close",
         TableStep, \A j \in Jobs : j = worker[w].job \/ job'[j].state = job[j].state,
         LibStep, sweep' = sweep,
         \A s \in stage' :
           \/ s \in stage /\ s.job # worker[w].job
           \/ /\ s \in stage \/ (worker[w].pc = "write" /\ Rebuilds(w))
              /\ s.job = worker[w].job /\ job'[s.job].state \in Kept
              /\ t.pc \in Clear => worker[w].pc \in Clear
  PROVE  CatalogInv'
<1> USE DEF CatalogInv
<1>1. worker'[w] = t /\ \A v \in Workers \ {w} : worker'[v] = worker[v]
  BY DEF Types
<1>2. worker[w].job \in Jobs
  BY DEF Owners
<1>3. ASSUME NEW v \in Workers PROVE ThreadStep(v)
  <2>1. CASE v = w
    BY <1>1, <2>1 DEF ThreadStep
  <2>2. CASE v # w
    <3>1. worker'[v] = worker[v] /\ ThreadOK(worker'[v])
      BY <1>1, <2>2 DEF Owners
    <3>2. Busy(v) => worker[v].job \in Jobs /\ worker[v].job # worker[w].job
      BY <2>2 DEF Owners
    <3>3. worker[v].pc \in Working => job'[worker[v].job].state = "running"
      BY <3>2 DEF Owners, Mine, Busy, Working
    <3> QED
      BY <3>1, <3>2, <3>3 DEF ThreadStep, Busy
  <2> QED
    BY <2>1, <2>2
<1>4. StageStep
  <2> SUFFICES ASSUME NEW s \in stage'
               PROVE  /\ s \in stage \/ \E v \in Workers : worker[v].pc = "write" /\ Rebuilds(v) /\ s.job = worker[v].job
                      /\ job'[s.job].state \in Kept
                      /\ \A v \in Workers : worker'[v].pc \in Clear =>
                            worker[v].pc \in Clear \/ s.job # worker'[v].job
    BY DEF StageStep
  <2>1. CASE s \in stage /\ s.job # worker[w].job
    <3>1. s.job \in Jobs /\ job[s.job].state \in Kept
      BY <2>1 DEF StageOwned
    <3>2. job'[s.job].state \in Kept
      BY <2>1, <3>1
    <3>3. t.pc \in Clear => t.job = worker[w].job
      BY DEF Clear
    <3> QED
      BY <1>1, <2>1, <3>2, <3>3
  <2>2. CASE ~(s \in stage /\ s.job # worker[w].job)
    BY <1>1, <2>2
  <2> QED
    BY <2>1, <2>2
<1> QED
  BY <1>3, <1>4, StepsKeep DEF Steps, SweepStep

-----------------------------------------------------------------------------
(* The worker threads.                                                     *)

\* What a thread at work has at hand.
LEMMA ThreadFacts ==
  ASSUME CatalogInv, NEW w \in Workers
  PROVE  /\ worker[w] \in Thread
         /\ Busy(w) => /\ worker[w].job \in Jobs /\ Mine(w) \in JobRow
                       /\ Scope(worker[w].job) \subseteq Folders
         /\ worker[w].pc \in Working => Busy(w) /\ Mine(w).state = "running"
         /\ worker[w].pc \in Clear => \A s \in stage : s.job # worker[w].job
<1>1. worker[w] \in Thread
  BY DEF CatalogInv, Types
<1>2. Busy(w) => worker[w].job \in Jobs /\ Mine(w) \in JobRow
  BY Table DEF CatalogInv, Owners, Types, Mine
<1>3. Busy(w) => Scope(worker[w].job) \subseteq Folders
  BY <1>2 DEF Scope, Mine, JobRow, FoldersOf, Homes
<1>4. worker[w].pc \in Working => Busy(w) /\ Mine(w).state = "running"
  BY DEF CatalogInv, Owners, Working, Busy
<1> QED
  BY <1>1, <1>2, <1>3, <1>4 DEF CatalogInv, StageOwned

\* An event that happens is counted, so the counts change.
LEMMA SpendType ==
  ASSUME used \in [Events -> Nat], NEW e \in Events, Spend(e)
  PROVE  used' \in [Events -> Nat] /\ used' # used
<1>1. used[e] \in Nat /\ used'[e] = used[e] + 1
  BY DEF Spend
<1> QED
  BY <1>1 DEF Spend

\* Steps of a thread that change neither the tables nor the catalog.
LEMMA PrivateStep ==
  ASSUME CatalogInv, NEW w \in Workers, worker[w].pc \in Working \cup {"leave"},
         NEW t \in Thread, worker' = [worker EXCEPT ![w] = t], ThreadOK(t),
         t.job = worker[w].job, t.pc \in Working => worker[w].pc \in Working,
         t.pc \in Clear => worker[w].pc \in Clear \/ ~Rebuilds(w), t.pc # "idle",
         worker[w].pc \in Working \/ t.pc = "close",
         UNCHANGED <<disk, buffer, rows, sweep>>, lost' \subseteq Folders, used' \in [Events -> Nat]
  PROVE  CatalogInv'
<1>1. Busy(w) /\ (worker[w].pc \in Working => Mine(w).state = "running")
  BY ThreadFacts DEF Busy, Working
<1>2. Types'
  BY DEF CatalogInv, Types, rows
<1>3. job' = job /\ stage' = stage /\ lib' = lib
  BY DEF rows
<1>4. \A s \in stage : s.job = worker[w].job =>
        worker[w].pc \notin Clear /\ job[s.job].state \in Kept /\ Rebuilds(w)
  BY ThreadFacts DEF CatalogInv, StageOwned, Rebuilds, Mine
<1> QED
  BY <1>1, <1>2, <1>3, <1>4, OneThread, SameTable DEF LibStep, Mine, Working

\* Looking at the job's folders fills the thread's lists (_scan_paths_for_job).
LEMMA LookKeeps ==
  ASSUME CatalogInv, NEW w \in Workers, Look(w)
  PROVE  CatalogInv'
<1> DEFINE on == {f \in Scope(worker[w].job) : disk[f].there}
           off == Scope(worker[w].job) \ on
           todo == IF Rebuilds(w) THEN {} ELSE off
           t == [worker[w] EXCEPT !.on = on, !.off = off, !.todo = todo, !.pc = "mark"]
<1>1. worker[w] \in Thread /\ on \subseteq Folders /\ off \subseteq Folders
  BY ThreadFacts DEF Look, At, Busy
<1>2. t \in Thread /\ t.pc = "mark" /\ t.job = worker[w].job
  BY <1>1 DEF Thread, ThreadStates, Working
<1>3. worker' = [worker EXCEPT ![w] = t]
  BY DEF Look
<1> HIDE DEF t
<1> QED
  BY <1>2, <1>3, PrivateStep DEF Look, At, ThreadOK, Working, Clear, outside, world, config, watch, CatalogInv, Types

\* Reading whether the library was ready changes the thread alone.
LEMMA WasReadyKeeps ==
  ASSUME CatalogInv, NEW w \in Workers, WasReady(w)
  PROVE  CatalogInv'
<1> DEFINE ready == lib[Mine(w).lib].state = "ready"
           t == [worker[w] EXCEPT !.ready = ready, !.pc = "start"]
<1>1. worker[w] \in Thread /\ worker[w].on # {} /\ ready \in BOOLEAN
  BY ThreadFacts DEF WasReady
<1>2. t \in Thread /\ t.pc = "start" /\ t.job = worker[w].job /\ t.on # {}
  BY <1>1 DEF Thread, ThreadStates, Working
<1>3. worker' = [worker EXCEPT ![w] = t]
  BY DEF WasReady
<1> HIDE DEF t
<1> QED
  BY <1>2, <1>3, PrivateStep DEF WasReady, At, ThreadOK, Working, Clear, outside, world, config, watch, CatalogInv, Types

\* Reading one folder from disk changes the thread alone (index_directory_tree).
LEMMA WalkKeeps ==
  ASSUME CatalogInv, NEW w \in Workers, Walk(w)
  PROVE  CatalogInv'
<1> DEFINE f == NextOf(worker[w].todo)
           t(seen) == [worker[w] EXCEPT !.seen = seen, !.todo = worker[w].todo \ {f}, !.pc = "write"]
<1>1. worker[w] \in Thread /\ worker[w].todo # {}
  BY ThreadFacts DEF Walk, At, CatalogInv, Owners, ThreadOK
<1>2. f \in worker[w].todo /\ f \in Folders
  BY <1>1 DEF NextOf, Thread
<1>3. PICK readable \in BOOLEAN :
        /\ used' = used \/ Spend("trouble")
        /\ lost' \in {lost \ {f}, lost \cup {f}}
        /\ worker' = [worker EXCEPT ![w] = t(Found(f, readable))]
  BY DEF Walk
<1>4. /\ Found(f, readable) \in [folder : Folders \cup {None}, ver : Nat, there : BOOLEAN]
      /\ Found(f, readable).folder \in Folders
  BY <1>2 DEF Found, CatalogInv, Types
<1>5. t(Found(f, readable)) \in Thread
  BY <1>1, <1>4 DEF Thread, ThreadStates, Working
<1>6. used' \in [Events -> Nat] /\ lost' \subseteq Folders
  BY <1>2, <1>3, SpendType DEF CatalogInv, Types, Events
<1>7. /\ t(Found(f, readable)).pc = "write" /\ t(Found(f, readable)).job = worker[w].job
      /\ t(Found(f, readable)).seen.folder \in Folders
  BY <1>1, <1>4 DEF Thread
<1> HIDE DEF t
<1> QED
  BY <1>3, <1>5, <1>6, <1>7, PrivateStep DEF Walk, At, ThreadOK, Working, Clear, outside, world, config, watch

\* A thread that gave up is idle, or has a job left to close.
LEMMA GiveUpType ==
  ASSUME CatalogInv, NEW w \in Workers, NEW pc \in ThreadStates, NEW tell \in BOOLEAN
  PROVE  /\ [Idle EXCEPT !.pc = pc, !.job = worker[w].job, !.tell = tell] \in Thread
         /\ [Idle EXCEPT !.tell = tell] \in Thread
BY ThreadFacts DEF Idle, Nothing, Thread, ThreadStates

\* An exception sends the thread to its handler and changes no table.
LEMMA RaiseKeeps ==
  ASSUME CatalogInv, NEW w \in Workers, Raise(w)
  PROVE  CatalogInv'
<1> DEFINE pc == IF worker[w].pc = "fail" THEN "leave"
                 ELSE IF Rebuilds(w) THEN "clean" ELSE "fail"
           t == [Idle EXCEPT !.pc = pc, !.job = worker[w].job, !.tell = FALSE]
<1>1. t \in Thread /\ t.pc = pc /\ t.job = worker[w].job
  BY GiveUpType DEF ThreadStates, Working, Idle
<1>2. worker' = [worker EXCEPT ![w] = t] /\ worker[w].pc \in Working
  BY DEF Raise, GiveUp, Working
<1>3. used' \in [Events -> Nat]
  BY SpendType DEF Raise, CatalogInv, Types, Events
<1> HIDE DEF t
<1> QED
  BY <1>1, <1>2, <1>3, PrivateStep DEF Raise, ThreadOK, Working, Clear, outside, world, config, watch, CatalogInv, Types

\* The heartbeat stops: no table changes (catalog_job_claim_heartbeat).
LEMMA LeaveKeeps ==
  ASSUME CatalogInv, NEW w \in Workers, Leave(w)
  PROVE  CatalogInv'
<1> DEFINE t == [worker[w] EXCEPT !.pc = "close"]
<1>1. t \in Thread /\ t.pc = "close" /\ t.job = worker[w].job
  BY ThreadFacts DEF Thread, ThreadStates, Working
<1>2. worker' = [worker EXCEPT ![w] = t]
  BY DEF Leave, Goto
<1> HIDE DEF t
<1> QED
  BY <1>1, <1>2, PrivateStep DEF Leave, At, ThreadOK, Working, Clear, outside, world, config, watch, CatalogInv, Types

\* The parents are refreshed from the table as it is.
LEMMA RefreshedType ==
  ASSUME Types, NEW table
  PROVE  Refreshed(table) \in Parent
<1>1. ParentState(table) \in Active \cup Terminal
  BY DEF ParentState, Active, Terminal
<1> QED
  BY <1>1 DEF Refreshed, Types, Parent

\* A write under the claim, which it extends: the thread goes on with its job.
LEMMA FencedStep ==
  ASSUME CatalogInv, NEW w \in Workers, NEW pc \in Working, Fenced(w, pc),
         NEW t \in Thread, worker' = [worker EXCEPT ![w] = t], ThreadOK(t),
         t.job = worker[w].job, t.pc \in Working, job' = Extended(w),
         cat' \in [Folders -> AssetRow], lib' \in [Libraries -> LibRow], LibStep,
         UNCHANGED <<disk, buffer, parent, sweep, lost, used>>,
         stage' \subseteq StageRow,
         \A s \in stage' : s \in stage \/ (pc = "write" /\ Rebuilds(w) /\ s.job = worker[w].job),
         t.pc \in Clear => pc \in Clear \/ \A s \in stage' : s.job # worker[w].job
  PROVE  CatalogInv'
<1>1. worker[w].pc = pc /\ Busy(w) /\ Mine(w).state = "running" /\ worker[w].job \in Jobs
  BY ThreadFacts DEF Fenced, At
<1>2. job' \in Seq(JobRow) /\ TableStep /\ \A k \in Jobs : job'[k].state = job[k].state
  BY LiveTable DEF Extended, CatalogInv, Types
<1>3. Types'
  BY <1>2 DEF CatalogInv, Types
<1>4. \A s \in stage' :
        \/ s \in stage /\ s.job # worker[w].job
        \/ /\ s \in stage \/ (worker[w].pc = "write" /\ Rebuilds(w))
           /\ s.job = worker[w].job /\ job'[s.job].state \in Kept
           /\ t.pc \in Clear => worker[w].pc \in Clear
  BY <1>1, <1>2 DEF Mine, Kept
<1>5. job'[worker[w].job].state = "running"
  BY <1>1, <1>2 DEF Mine
<1> QED
  BY <1>1, <1>2, <1>3, <1>4, <1>5, OneThread DEF Working

\* A library's state is not part of its configuration.
LEMMA LibraryBecomesKeeps ==
  ASSUME CatalogInv, NEW w \in Workers, NEW s \in LibStates, LibraryBecomes(w, s)
  PROVE  lib' \in [Libraries -> LibRow] /\ LibStep
<1>1. \A l \in Libraries : [lib[l] EXCEPT !.state = s] \in LibRow /\ [lib[l] EXCEPT !.state = s].rev = lib[l].rev
  BY DEF CatalogInv, Types, LibRow
<1> DEFINE l == Mine(w).lib
           r == [lib[l] EXCEPT !.state = s]
<1>2. lib' = [lib EXCEPT ![l] = r] /\ (l \in Libraries => r \in LibRow /\ r.rev = lib[l].rev)
  BY <1>1 DEF LibraryBecomes
<1> HIDE DEF r
<1> QED
  BY <1>2 DEF CatalogInv, Types, LibStep

\* The asset of a folder that is not there is marked offline under the claim.
LEMMA MarkOfflineKeeps ==
  ASSUME CatalogInv, NEW w \in Workers, MarkOffline(w)
  PROVE  CatalogInv'
<1> DEFINE f == NextOf(worker[w].todo)
           t == [worker[w] EXCEPT !.todo = worker[w].todo \ {f}]
<1>1. worker[w] \in Thread /\ worker[w].pc = "mark"
  BY ThreadFacts DEF MarkOffline, Fenced, At
<1>2. t \in Thread /\ t.pc = "mark" /\ t.job = worker[w].job
  BY <1>1 DEF Thread
<1>3. worker' = [worker EXCEPT ![w] = t]
  BY DEF MarkOffline
<1>4. \A g \in Folders : [cat[g] EXCEPT !.off = TRUE] \in AssetRow
  BY DEF CatalogInv, Types, AssetRow
<1>5. cat' \in [Folders -> AssetRow]
  BY <1>4 DEF MarkOffline, CatalogInv, Types
<1>20. ThreadOK(t) /\ t.pc \in Working
  BY <1>2 DEF ThreadOK, Working
<1> HIDE DEF t
<1>21. /\ Fenced(w, "mark") /\ job' = Extended(w) /\ "mark" \in Working
       /\ UNCHANGED <<disk, buffer, parent, sweep, lost, used>>
  BY DEF MarkOffline, outside, world, config, watch, Working
<1>22. lib' \in [Libraries -> LibRow] /\ LibStep
  BY DEF MarkOffline, CatalogInv, Types, LibStep
<1>23. stage' \subseteq StageRow /\ stage' = stage
  BY DEF MarkOffline, CatalogInv, Types
<1> QED
  BY <1>2, <1>3, <1>5, <1>22, <1>23, <1>20, <1>21, FencedStep DEF Clear

\* The job reports its start and the library becomes indexing or degraded.
LEMMA StartKeeps ==
  ASSUME CatalogInv, NEW w \in Workers, Start(w)
  PROVE  CatalogInv'
<1> DEFINE tell == Mine(w).tracked
           s == IF worker[w].off = {} THEN "indexing" ELSE "degraded"
           t == [worker[w] EXCEPT !.todo = worker[w].on, !.pc = "walk", !.tell = tell]
<1>1. /\ worker[w] \in Thread /\ worker[w].pc = "start" /\ worker[w].on # {}
      /\ Mine(w) \in JobRow
  BY ThreadFacts DEF Start, Fenced, At, CatalogInv, Owners, ThreadOK, Working
<1>2. tell \in BOOLEAN /\ s \in LibStates
  BY <1>1 DEF JobRow, LibStates
<1>3. t \in Thread /\ t.pc = "walk" /\ t.job = worker[w].job /\ t.todo # {}
  BY <1>1, <1>2 DEF Thread, ThreadStates, Working
<1>4. worker' = [worker EXCEPT ![w] = t] /\ LibraryBecomes(w, s)
  BY DEF Start
<1>5. lib' \in [Libraries -> LibRow] /\ LibStep
  BY <1>2, <1>4, LibraryBecomesKeeps
<1>20. ThreadOK(t) /\ t.pc \in Working
  BY <1>3 DEF ThreadOK, Working
<1> HIDE DEF t
<1>21. /\ Fenced(w, "start") /\ job' = Extended(w) /\ "start" \in Working
       /\ UNCHANGED <<disk, buffer, parent, sweep, lost, used>>
  BY DEF Start, outside, world, config, watch, Working
<1>23. stage' \subseteq StageRow /\ stage' = stage
  BY DEF Start, CatalogInv, Types
<1>24. cat' \in [Folders -> AssetRow]
  BY DEF Start, CatalogInv, Types
<1> QED
  BY <1>3, <1>4, <1>5, <1>23, <1>24, <1>20, <1>21, FencedStep DEF Clear

\* A folder's rows go to the catalog, or to staging in a rebuild, under the claim.
LEMMA WriteKeeps ==
  ASSUME CatalogInv, NEW w \in Workers, Write(w)
  PROVE  CatalogInv'
<1> DEFINE seen == worker[w].seen
           pc == IF Rebuilds(w) /\ worker[w].todo # {} THEN "walk" ELSE "progress"
           t == [worker[w] EXCEPT !.seen = Nothing, !.pc = pc]
           row == IF seen.there THEN [ver |-> seen.ver, off |-> FALSE]
                  ELSE [cat[seen.folder] EXCEPT !.off = TRUE]
<1>1. worker[w] \in Thread /\ worker[w].pc = "write" /\ worker[w].job \in Jobs
  BY ThreadFacts DEF Write, Fenced, At, Busy
<1>2. seen.folder \in Folders /\ seen.ver \in Nat /\ worker[w].job \in Nat
  BY <1>1 DEF CatalogInv, Owners, ThreadOK, Thread
<1>3. Nothing \in [folder : Folders \cup {None}, ver : Nat, there : BOOLEAN]
  BY DEF Nothing
<1>4. /\ t \in Thread /\ t.pc = pc /\ t.job = worker[w].job
      /\ pc = "walk" => t.todo # {}
  BY <1>1, <1>3 DEF Thread, ThreadStates, Working
<1>5. worker' = [worker EXCEPT ![w] = t]
  BY DEF Write
<1>6. row \in AssetRow
  BY <1>2 DEF CatalogInv, Types, AssetRow
<1>7. cat' = cat \/ cat' = [cat EXCEPT ![seen.folder] = row]
  BY DEF Write
<1>8. cat' \in [Folders -> AssetRow]
  BY <1>6, <1>7 DEF CatalogInv, Types
<1>9. [job |-> worker[w].job, folder |-> seen.folder, ver |-> seen.ver] \in StageRow
  BY <1>2 DEF StageRow
<1>10. stage' \subseteq StageRow
  BY <1>9 DEF Write, Staged, CatalogInv, Types
<1>11. \A s \in stage' : s \in stage \/ (Rebuilds(w) /\ s.job = worker[w].job)
  <2>1. CASE Rebuilds(w)
    <3>1. stage' \subseteq stage \cup {[job |-> worker[w].job, folder |-> seen.folder, ver |-> seen.ver]}
      BY <2>1 DEF Write, Staged
    <3> QED
      BY <2>1, <3>1
  <2>2. CASE ~Rebuilds(w)
    BY <2>2 DEF Write
  <2> QED
    BY <2>1, <2>2
<1>20. ThreadOK(t) /\ t.pc \in Working
  BY <1>4 DEF ThreadOK, Working
<1> HIDE DEF t
<1>21. /\ Fenced(w, "write") /\ job' = Extended(w) /\ "write" \in Working
       /\ UNCHANGED <<disk, buffer, parent, sweep, lost, used>>
  BY DEF Write, outside, world, config, watch, Working
<1>22. lib' \in [Libraries -> LibRow] /\ LibStep
  BY DEF Write, CatalogInv, Types, LibStep
<1> QED
  BY <1>4, <1>5, <1>8, <1>10, <1>11, <1>22, <1>20, <1>21, FencedStep DEF Clear

\* The report of progress extends the claim and chooses what comes next.
LEMMA ProgressKeeps ==
  ASSUME CatalogInv, NEW w \in Workers, Progress(w)
  PROVE  CatalogInv'
<1> DEFINE tell == Mine(w).tracked
           pc == IF worker[w].todo # {} THEN "walk" ELSE IF Rebuilds(w) THEN "activate" ELSE "finish"
           t == [worker[w] EXCEPT !.tell = tell, !.pc = pc]
<1>1. /\ worker[w] \in Thread /\ worker[w].pc = "progress" /\ worker[w].job \in Jobs
      /\ Mine(w) \in JobRow
  BY ThreadFacts DEF Progress, Fenced, At, Working
<1>2. tell \in BOOLEAN /\ pc \in {"walk", "activate", "finish"} /\ (pc = "walk" => worker[w].todo # {})
  BY <1>1 DEF JobRow
<1>3. pc = "finish" => ~Rebuilds(w)
  OBVIOUS
<1>4. worker' = [worker EXCEPT ![w] = t]
  BY DEF Progress
<1> HIDE DEF pc, tell
<1>5. /\ t \in Thread /\ t.pc = pc /\ t.job = worker[w].job
      /\ pc = "walk" => t.todo # {}
  BY <1>1, <1>2 DEF Thread, ThreadStates, Working
<1>6. pc = "finish" => \A s \in stage : s.job # worker[w].job
  BY <1>3 DEF CatalogInv, StageOwned, Rebuilds, Mine
<1>20. ThreadOK(t) /\ t.pc \in Working
  BY <1>2, <1>5 DEF ThreadOK, Working
<1> HIDE DEF t
<1>21. /\ Fenced(w, "progress") /\ job' = Extended(w) /\ "progress" \in Working
       /\ UNCHANGED <<disk, buffer, parent, sweep, lost, used>>
  BY DEF Progress, outside, world, config, watch, Working
<1>22. lib' \in [Libraries -> LibRow] /\ LibStep
  BY DEF Progress, CatalogInv, Types, LibStep
<1>23. stage' \subseteq StageRow /\ stage' = stage
  BY DEF Progress, CatalogInv, Types
<1>24. cat' \in [Folders -> AssetRow]
  BY DEF Progress, CatalogInv, Types
<1> QED
  BY <1>2, <1>4, <1>5, <1>6, <1>22, <1>23, <1>24, <1>20, <1>21, FencedStep DEF Clear

\* A rebuild's staging rows replace the catalog under the claim.
LEMMA ActivateKeeps ==
  ASSUME CatalogInv, NEW w \in Workers, Activate(w)
  PROVE  CatalogInv'
<1> DEFINE t == [worker[w] EXCEPT !.pc = "finish"]
           j == worker[w].job
           Of(f) == {s \in StagedBy(j) : s.folder = f}
           new(f) == [ver |-> (CHOOSE s \in Of(f) : TRUE).ver, off |-> FALSE]
<1>1. t \in Thread /\ t.pc = "finish" /\ t.job = worker[w].job
  BY ThreadFacts DEF Thread, ThreadStates, Working
<1>2. worker' = [worker EXCEPT ![w] = t]
  BY DEF Activate, Goto
<1>3. ASSUME NEW f \in Folders, Of(f) # {}
      PROVE  new(f) \in AssetRow
  <2>1. PICK s \in Of(f) : s = CHOOSE r \in Of(f) : TRUE
    BY <1>3
  <2>2. s.ver \in Nat
    BY <2>1 DEF StagedBy, CatalogInv, Types, StageRow
  <2> QED
    BY <2>1, <2>2 DEF AssetRow
<1>4. \A f \in Folders : cat[f] \in AssetRow /\ [cat[f] EXCEPT !.off = TRUE] \in AssetRow
  BY DEF CatalogInv, Types, AssetRow
<1>5. cat' = [f \in Folders |->
          IF f \notin Scope(j) THEN cat[f]
          ELSE IF Of(f) = {} THEN [cat[f] EXCEPT !.off = TRUE] ELSE new(f)]
  BY DEF Activate
<1> HIDE DEF new, Of
<1>6. cat' \in [Folders -> AssetRow]
  BY <1>3, <1>4, <1>5
<1>7. stage' \subseteq stage /\ \A s \in stage' : s.job # j
  BY DEF Activate, Unstaged
<1>20. ThreadOK(t) /\ t.pc \in Working
  BY <1>1 DEF ThreadOK, Working
<1> HIDE DEF t
<1>21. /\ Fenced(w, "activate") /\ job' = Extended(w) /\ "activate" \in Working
       /\ UNCHANGED <<disk, buffer, parent, sweep, lost, used>>
  BY DEF Activate, outside, world, config, watch, Working
<1>22. lib' \in [Libraries -> LibRow] /\ LibStep
  BY DEF Activate, CatalogInv, Types, LibStep
<1>23. stage' \subseteq StageRow
  BY <1>7 DEF CatalogInv, Types
<1> QED
  BY <1>1, <1>2, <1>6, <1>7, <1>22, <1>23, <1>20, <1>21, FencedStep DEF Clear

\* A transition that ends the job of a thread that has no staging rows or fails.
LEMMA EndKeeps ==
  ASSUME CatalogInv, NEW w \in Workers, NEW pc \in Clear \cup {"fail"}, Fenced(w, pc),
         NEW s \in {"succeeded", "failed"}, s = "failed" \/ pc \in Clear, NEW ls \in LibStates,
         Ended(w, s), LibraryBecomes(w, ls),
         UNCHANGED <<disk, buffer, cat, stage, parent, sweep, lost, used>>
  PROVE  CatalogInv'
<1> DEFINE t == [Idle EXCEPT !.pc = "leave", !.job = worker[w].job, !.tell = Mine(w).tracked]
<1>1. /\ worker[w].pc = pc /\ Busy(w) /\ worker[w].job \in Jobs /\ Mine(w) \in JobRow
      /\ \A r \in stage : s = "failed" \/ r.job # worker[w].job
  BY ThreadFacts DEF Fenced, At, Clear, Working
<1>2. t \in Thread /\ t.pc = "leave" /\ t.job = worker[w].job
  BY <1>1, GiveUpType DEF JobRow, ThreadStates, Idle
<1>3. worker' = [worker EXCEPT ![w] = t]
  BY DEF Ended, GiveUp
<1> HIDE DEF t
<1>4. job' = [job EXCEPT ![worker[w].job] = [@ EXCEPT !.state = s, !.live = FALSE]]
  BY DEF Ended
<1>5. /\ job' \in Seq(JobRow) /\ TableStep /\ job'[worker[w].job].state = s
      /\ \A k \in Jobs \ {worker[w].job} : job'[k].state = job[k].state
  BY <1>1, <1>4, EndedTable DEF CatalogInv, Types
<1>6. lib' \in [Libraries -> LibRow] /\ LibStep
  BY LibraryBecomesKeeps
<1>7. Types'
  BY <1>2, <1>3, <1>5, <1>6 DEF CatalogInv, Types
<1>8. ThreadOK(t) /\ "leave" \notin Working \cup Clear /\ worker[w].pc # "close"
  BY <1>1, <1>2 DEF ThreadOK, Working, Clear
<1>9. \A r \in stage' : r \in stage /\ (r.job # worker[w].job \/ job'[r.job].state \in Kept)
  BY <1>1, <1>5 DEF Kept
<1> QED
  BY <1>1, <1>2, <1>3, <1>5, <1>6, <1>7, <1>8, <1>9, OneThread

\* The three fenced transitions that end a job.
LEMMA EndsKeep ==
  ASSUME CatalogInv, NEW w \in Workers, NothingThere(w) \/ Finish(w) \/ Fail(w)
  PROVE  CatalogInv'
<1>1. {"offline", "error"} \subseteq LibStates /\ {"mark", "finish"} \subseteq Clear
  BY DEF LibStates, Clear
<1>2. StateAfter(w) \in LibStates
  BY DEF StateAfter, LibStates
<1>3. CASE NothingThere(w)
  <2>1. /\ Fenced(w, "mark") /\ Ended(w, "failed") /\ LibraryBecomes(w, "offline")
        /\ UNCHANGED <<disk, buffer, cat, stage, parent, sweep, lost, used>>
    BY <1>3 DEF NothingThere, outside, world, config, watch
  <2> QED
    BY <1>1, <2>1, EndKeeps
<1>4. CASE Finish(w)
  <2>1. /\ Fenced(w, "finish") /\ Ended(w, "succeeded") /\ LibraryBecomes(w, StateAfter(w))
        /\ UNCHANGED <<disk, buffer, cat, stage, parent, sweep, lost, used>>
    BY <1>4 DEF Finish, outside, world, config, watch
  <2> QED
    BY <1>1, <1>2, <2>1, EndKeeps
<1>5. CASE Fail(w)
  <2>1. /\ Fenced(w, "fail") /\ Ended(w, "failed") /\ LibraryBecomes(w, "error")
        /\ UNCHANGED <<disk, buffer, cat, stage, parent, sweep, lost, used>>
    BY <1>5 DEF Fail, outside, world, config, watch
  <2> QED
    BY <1>1, <2>1, EndKeeps
<1> QED
  BY <1>3, <1>4, <1>5

\* A rebuild that fails or lost its claim deletes its staging rows, or cannot.
LEMMA CleanKeeps ==
  ASSUME CatalogInv, NEW w \in Workers, Clean(w) \/ ClaimLost(w)
  PROVE  CatalogInv'
<1> DEFINE t == IF Clean(w) THEN [worker[w] EXCEPT !.pc = "fail"]
                ELSE [Idle EXCEPT !.pc = "leave", !.job = worker[w].job, !.tell = FALSE]
<1>1. worker[w] \in Thread /\ worker[w].pc \in Working
  BY ThreadFacts DEF Clean, ClaimLost, Fenced, At, Working
<1>2. t \in Thread /\ t.job = worker[w].job /\ t.pc \in {"fail", "leave"} /\ (t.pc = "fail" => Clean(w))
  BY <1>1, GiveUpType DEF Thread, ThreadStates, Working, Idle
<1>3. worker' = [worker EXCEPT ![w] = t]
  BY DEF Clean, ClaimLost, Goto, GiveUp
<1>4. ThreadOK(t) /\ t.pc \notin Clear /\ (t.pc \in Working => worker[w].pc \in Working) /\ worker[w].pc # "close"
  BY <1>1, <1>2 DEF ThreadOK, Working, Clear
<1> HIDE DEF t
<1>5. stage' \subseteq stage
  BY DEF Clean, ClaimLost, Unstaged
<1>6. UNCHANGED <<disk, buffer, cat, lib, job, parent, sweep, lost>> /\ used' \in [Events -> Nat]
  BY SpendType DEF CatalogInv, Types, Events, Clean, ClaimLost, outside, world, config, watch
<1>7. Types'
  BY <1>2, <1>3, <1>5, <1>6 DEF CatalogInv, Types
<1>8. Busy(w) /\ (job'[worker[w].job].state = "running")
  BY <1>1, <1>6, ThreadFacts DEF Mine
<1>9. TableStep /\ LibStep
  BY <1>6, SameTable DEF LibStep
<1>10. \A s \in stage' : s \in stage /\ job'[s.job].state \in Kept
  BY <1>5, <1>6 DEF CatalogInv, StageOwned
<1> QED
  BY <1>2, <1>3, <1>4, <1>6, <1>7, <1>8, <1>9, <1>10, OneThread

\* Parents are refreshed; the thread or the supervisor then goes on.
LEMMA TellKeeps ==
  ASSUME CatalogInv,
         (\E w \in Workers : Tell(w)) \/ SweepTell
  PROVE  CatalogInv'
<1>1. UNCHANGED <<disk, buffer, cat, lib, job, stage, lost, used>> /\ parent' \in Parent
  BY RefreshedType DEF Tell, SweepTell, outside, world, config, watch, CatalogInv
<1>2. /\ worker' \in [Workers -> Thread]
      /\ \A v \in Workers : /\ worker'[v].pc = worker[v].pc /\ worker'[v].job = worker[v].job
                            /\ ThreadOK(worker'[v])
  <2>1. CASE SweepTell
    BY <2>1 DEF SweepTell, CatalogInv, Types, Owners
  <2>2. ASSUME NEW w \in Workers, Tell(w)
        PROVE  /\ worker' \in [Workers -> Thread]
               /\ \A v \in Workers : /\ worker'[v].pc = worker[v].pc /\ worker'[v].job = worker[v].job
                                     /\ ThreadOK(worker'[v])
    <3> DEFINE t == [worker[w] EXCEPT !.tell = FALSE]
    <3>1. worker' = [worker EXCEPT ![w] = t]
      BY <2>2 DEF Tell
    <3>2. t \in Thread /\ t.pc = worker[w].pc /\ t.job = worker[w].job /\ ThreadOK(t)
      BY ThreadFacts DEF Thread, CatalogInv, Owners, ThreadOK
    <3> HIDE DEF t
    <3> QED
      BY <3>1, <3>2 DEF CatalogInv, Types, Owners
  <2> QED
    BY <2>1, <2>2
<1>3. Types'
  BY <1>1, <1>2 DEF CatalogInv, Types
<1>4. \A v \in Workers : ThreadStep(v)
  BY <1>1, <1>2 DEF ThreadStep, Busy, CatalogInv, Owners, Mine
<1>5. StageStep
  BY <1>1, <1>2 DEF StageStep, CatalogInv, StageOwned
<1>6. SweepStep
  BY DEF SweepStep, Tell, SweepTell, NoSweep
<1> QED
  BY <1>1, <1>3, <1>4, <1>5, <1>6, StepsKeep, SameTable DEF Steps, LibStep

\* Claims lapse and are renewed.
LEMMA LeaseKeeps ==
  ASSUME CatalogInv,
         (\E w \in Workers : Renew(w)) \/ (\E j \in Jobs : Expire(j))
  PROVE  CatalogInv'
<1>1. PICK j : \E b \in BOOLEAN : job' = [job EXCEPT ![j].live = b]
  BY DEF Renew, Expire, Extended
<1>2. /\ UNCHANGED <<disk, buffer, cat, lib, stage, parent, worker, sweep, lost>>
      /\ used' \in [Events -> Nat]
  BY SpendType DEF Renew, Expire, outside, world, config, watch, CatalogInv, Types, Events
<1>3. job' \in Seq(JobRow) /\ TableStep /\ \A k \in Jobs : job'[k].state = job[k].state
  BY <1>1, LiveTable DEF CatalogInv, Types
<1>4. Types'
  BY <1>2, <1>3 DEF CatalogInv, Types
<1>5. \A v \in Workers : ThreadStep(v)
  BY <1>2, <1>3 DEF ThreadStep, Busy, CatalogInv, Owners, Mine, Working
<1>6. StageStep
  BY <1>2, <1>3 DEF StageStep, CatalogInv, StageOwned
<1> QED
  BY <1>2, <1>3, <1>4, <1>5, <1>6, StepsKeep DEF Steps, LibStep, SweepStep

\* The supervisor's list holds running jobs; reading changes no table.
LEMMA SweepReadKeeps ==
  ASSUME CatalogInv, SweepRead
  PROVE  CatalogInv'
<1>1. UNCHANGED <<disk, buffer, cat, lib, job, stage, parent, worker, lost, used>>
  BY DEF SweepRead, outside, world, config, watch, rows
<1>2. Types'
  BY <1>1 DEF CatalogInv, Types
<1>3. (\A v \in Workers : ThreadStep(v)) /\ StageStep
  BY <1>1 DEF ThreadStep, Busy, CatalogInv, Owners, Mine, StageStep, StageOwned
<1> QED
  BY <1>1, <1>2, <1>3, StepsKeep, SameTable DEF Steps, LibStep, SweepStep, SweepRead

-----------------------------------------------------------------------------
(* Jobs that were left running, claims, requests and maintenance.          *)

\* FailJobs on running jobs: they fail with their staging rows, and no other job or
\* configuration changes.
LEMMA FailedTable ==
  ASSUME CatalogInv, NEW js, js \subseteq Jobs, \A j \in js : job[j].state = "running", FailJobs(js)
  PROVE  /\ job' \in Seq(JobRow) /\ TableStep
         /\ \A j \in Jobs : job'[j] = job[j] \/ (j \in js /\ job'[j].state = "failed")
         /\ \A j \in Jobs \ js : job'[j] = job[j]
         /\ lib' \in [Libraries -> LibRow] /\ LibStep
         /\ stage' \subseteq stage /\ \A s \in stage' : s.job \notin js
         /\ lost' \subseteq Folders
<1>1. \A j \in Jobs : job[j] \in JobRow
  BY Table DEF CatalogInv, Types
<1> DEFINE failed(j) == [job[j] EXCEPT !.state = "failed", !.live = FALSE]
<1>2. \A j \in Jobs : /\ failed(j) \in JobRow /\ failed(j).state = "failed"
                     /\ RowStep(job[j], failed(j)) /\ RowStep(job[j], job[j])
  <2>1. \A j \in Jobs : failed(j) \in JobRow
    BY <1>1, StateType DEF JobStates, Terminal
  <2>2. \A j \in Jobs : failed(j).state = "failed" /\ RowStep(job[j], failed(j))
    BY <1>1 DEF JobRow, RowStep, Active
  <2> QED
    BY <2>1, <2>2 DEF RowStep
<1>3. job' = [j \in Jobs |-> IF j \in js THEN failed(j) ELSE job[j]]
  BY DEF FailJobs
<1> HIDE DEF failed
<1>4. job' \in Seq(JobRow) /\ Jobs' = Jobs
  BY <1>1, <1>2, <1>3, Table DEF CatalogInv, Types, Jobs
<1>5. TableStep
  BY <1>2, <1>3, <1>4 DEF TableStep
<1>6. lib' \in [Libraries -> LibRow] /\ LibStep
  <2>1. \A l \in Libraries : /\ lib[l] \in LibRow /\ [lib[l] EXCEPT !.state = "error"] \in LibRow
                             /\ [lib[l] EXCEPT !.state = "error"].rev = lib[l].rev
    BY DEF CatalogInv, Types, LibRow, LibStates
  <2> QED
    BY <2>1 DEF FailJobs, LibStep
<1>7. stage' \subseteq stage /\ (\A s \in stage' : s.job \notin js) /\ lost' \subseteq Folders
  BY DEF FailJobs, Unstaged, CatalogInv, Types
<1> QED
  BY <1>2, <1>3, <1>4, <1>5, <1>6, <1>7

\* A thread fails its job if that still runs, and is done with it.
LEMMA CloseKeeps ==
  ASSUME CatalogInv, NEW w \in Workers, Close(w)
  PROVE  CatalogInv'
<1> DEFINE left == {worker[w].job} \cap {j \in Jobs : job[j].state = "running"}
           tell == \E j \in left : job[j].tracked
<1>1. worker[w] \in Thread /\ worker[w].pc = "close" /\ Busy(w) /\ worker[w].job \in Jobs
  BY ThreadFacts DEF Close, At, Busy
<1>2. UNCHANGED <<disk, buffer, cat, parent, sweep>>
  BY DEF Close, outside, world, config, watch
<1>3. Idle \in Thread /\ Idle.pc = "idle" /\ [Idle EXCEPT !.tell = tell] \in Thread
      /\ [Idle EXCEPT !.tell = tell].pc = "idle"
  BY DEF Idle, Nothing, Thread, ThreadStates
<1>4. PICK t \in Thread : worker' = [worker EXCEPT ![w] = t] /\ t.pc = "idle" /\ ThreadOK(t)
  BY <1>3 DEF Close, ThreadOK
<1>5. CASE ~maint /\ FailJobs(left) /\ used' = used
  <2>1. /\ job' \in Seq(JobRow) /\ TableStep /\ (\A j \in Jobs \ left : job'[j] = job[j])
        /\ lib' \in [Libraries -> LibRow] /\ LibStep
        /\ stage' \subseteq stage /\ (\A s \in stage' : s.job \notin left)
        /\ lost' \subseteq Folders
    BY <1>5, FailedTable
  <2>2. Types'
    BY <1>2, <1>4, <1>5, <2>1 DEF CatalogInv, Types
  <2>3. \A s \in stage' : s \in stage /\ job'[s.job].state \in Kept
    BY <2>1 DEF CatalogInv, StageOwned
  <2>4. t.pc \notin Clear
    BY <1>4 DEF Clear
  <2> QED
    BY <1>1, <1>2, <1>4, <2>1, <2>2, <2>3, <2>4, OneThread
<1>6. CASE left # {} /\ Spend("trouble") /\ UNCHANGED <<job, lib, stage, lost>>
  <2>1. Types'
    BY <1>2, <1>4, <1>6, SpendType DEF CatalogInv, Types, Events
  <2>2. \A s \in stage' : /\ s \in stage
                          /\ s.job = worker[w].job => job'[s.job].state \in Kept
    BY <1>6 DEF CatalogInv, StageOwned
  <2>3. TableStep /\ LibStep
    BY <1>6, SameTable DEF LibStep
  <2>4. t.pc \notin Clear
    BY <1>4 DEF Clear
  <2> QED
    BY <1>1, <1>2, <1>4, <1>6, <2>1, <2>2, <2>3, <2>4, OneThread
<1> QED
  BY <1>5, <1>6 DEF Close

\* The supervisor fails what it found abandoned: no thread is affected.
LEMMA SweepWriteKeeps ==
  ASSUME CatalogInv, SweepWrite
  PROVE  CatalogInv'
<1> DEFINE left == {j \in sweep.found : job[j].state = "running"}
<1>1. left \subseteq Jobs /\ \A j \in left : job[j].state = "running" /\ j \notin Registered
  BY DEF CatalogInv, SweepApart
<1>2. FailJobs(left) /\ sweep'.found = {} /\ UNCHANGED <<disk, buffer, cat, parent, worker, used>>
  BY DEF SweepWrite, outside, world, config, watch
<1> HIDE DEF left
<1>3. /\ job' \in Seq(JobRow) /\ TableStep /\ (\A j \in Jobs \ left : job'[j] = job[j])
      /\ lib' \in [Libraries -> LibRow] /\ LibStep
      /\ stage' \subseteq stage /\ (\A s \in stage' : s.job \notin left)
      /\ lost' \subseteq Folders
  BY <1>1, <1>2, FailedTable
<1>4. Types'
  BY <1>2, <1>3 DEF CatalogInv, Types
<1>5. ASSUME NEW v \in Workers PROVE ThreadStep(v)
  <2>1. Busy(v) /\ worker[v].pc # "close" => worker[v].job \in Jobs \ left
    BY <1>1, ThreadFacts DEF Registered, Busy
  <2> QED
    BY <1>2, <1>3, <2>1 DEF ThreadStep, Busy, CatalogInv, Owners, Mine, Working
<1>6. StageStep
  <2>1. \A s \in stage' : s \in stage /\ s.job \in Jobs \ left /\ job[s.job].state \in Kept
    BY <1>3 DEF CatalogInv, StageOwned
  <2> QED
    BY <1>2, <1>3, <2>1 DEF StageStep
<1> QED
  BY <1>2, <1>3, <1>4, <1>5, <1>6, StepsKeep DEF Steps, SweepStep

\* A restart fails every running job; all threads are new.
LEMMA RestartKeeps ==
  ASSUME CatalogInv, Restart
  PROVE  CatalogInv'
<1> DEFINE js == {j \in Jobs : job[j].state = "running"}
<1>1. /\ job' \in Seq(JobRow) /\ TableStep /\ (\A j \in Jobs \ js : job'[j] = job[j])
      /\ lib' \in [Libraries -> LibRow] /\ LibStep
      /\ stage' \subseteq stage /\ (\A s \in stage' : s.job \notin js)
      /\ lost' \subseteq Folders
  BY FailedTable DEF Restart
<1>2. Idle \in Thread /\ Idle.pc = "idle" /\ ThreadOK(Idle)
  BY DEF Idle, Nothing, Thread, ThreadStates, ThreadOK
<1>3. worker' = [w \in Workers |-> Idle]
  BY DEF Restart
<1>4. parent' \in Parent
  BY RefreshedType DEF Restart, Parent, Todos, CatalogInv
<1>5. used' \in [Events -> Nat]
  BY SpendType DEF Restart, CatalogInv, Types, Events
<1>6. Types'
  BY <1>1, <1>2, <1>3, <1>4, <1>5 DEF Restart, CatalogInv, Types
<1>7. \A v \in Workers : ThreadStep(v)
  BY <1>2, <1>3 DEF ThreadStep
<1>8. \A s \in stage' : s \in stage /\ job'[s.job].state \in Kept
  BY <1>1 DEF CatalogInv, StageOwned
<1>9. StageStep /\ SweepStep
  BY <1>2, <1>3, <1>8 DEF StageStep, SweepStep, Restart, NoSweep, Clear
<1> QED
  BY <1>1, <1>6, <1>7, <1>9, StepsKeep DEF Steps

\* Queued jobs are cancelled.
LEMMA CancelTable ==
  ASSUME job \in Seq(JobRow), NEW c, \A j \in c \cap Jobs : job[j].state = "queued"
  PROVE  /\ Cancel(c) \in Seq(JobRow) /\ DOMAIN Cancel(c) = Jobs
         /\ \A j \in Jobs : /\ RowStep(job[j], Cancel(c)[j]) /\ Cancel(c)[j] \in JobRow
                            /\ j \in c => job[j].state = "queued" /\ Cancel(c)[j].state = "cancelled"
                            /\ j \notin c => Cancel(c)[j] = job[j]
<1> DEFINE gone(j) == [job[j] EXCEPT !.state = "cancelled"]
<1>1. \A j \in Jobs : job[j] \in JobRow
  BY Table
<1>2. \A j \in Jobs : gone(j) \in JobRow
  BY <1>1, StateType DEF JobStates, Terminal
<1>3. \A j \in Jobs : gone(j).state = "cancelled" /\ RowStep(job[j], gone(j)) /\ RowStep(job[j], job[j])
  BY <1>1 DEF JobRow, RowStep, Active
<1>4. Cancel(c) = [j \in Jobs |-> IF j \in c THEN gone(j) ELSE job[j]]
  BY DEF Cancel
<1> HIDE DEF gone
<1>5. Cancel(c) \in [Jobs -> JobRow]
  BY <1>1, <1>2, <1>4
<1> QED
  BY <1>1, <1>2, <1>3, <1>4, <1>5, Table DEF Jobs

\* A job made for a request.
NewScope(l, scope) == scope \in FoldersOf(l) \cup {All}
\* A queued job made for a request is a row of the table.
LEMMA NewJobType ==
  ASSUME Types, NEW l \in Libraries, NEW type \in {"scan", "rebuild"},
         NEW trigger \in {"manual", "watcher", "scheduled", "startup"},
         NEW scope, NewScope(l, scope), NEW prio \in {10, 50, 100}, NEW tracked \in BOOLEAN
  PROVE  LET r == NewJob(l, type, trigger, scope, prio, tracked)
         IN r \in JobRow /\ r.state = "queued" /\ r.lib = l /\ r.rev = lib[l].rev /\ ScopeOK(r)
<1>1. lib[l].rev \in Nat /\ scope \in Folders \cup {All}
  BY DEF Types, LibRow, NewScope, FoldersOf, Homes
<1> QED
  BY <1>1 DEF NewJob, JobRow, JobStates, Active, ScopeOK, NewScope, FoldersOf, Homes

\* A request joins a job, or supersedes queued ones with a new one.
LEMMA RequestTable ==
  ASSUME CatalogInv, NEW l \in Libraries,
         NEW trigger \in {"manual", "watcher", "scheduled", "startup"},
         NEW scope, NewScope(l, scope), NEW prio \in {10, 50, 100}, NEW tracked \in BOOLEAN,
         RequestScan(l, trigger, scope, prio, tracked),
         \A k \in Libraries : lib'[k].rev = lib[k].rev
  PROVE  /\ job' \in Seq(JobRow) /\ TableStep
         /\ \A j \in Jobs : job'[j].state = job[j].state \/ job[j].state = "queued"
<1>1. \A j \in Jobs : job[j] \in JobRow /\ RowStep(job[j], job[j])
  BY Table DEF CatalogInv, Types, RowStep
<1>2. CASE MayJoin(l, trigger, scope) /\ job' = [job EXCEPT ![Join(l, trigger, scope)] =
             Joined(job[Join(l, trigger, scope)], trigger, prio, tracked)]
  <2> DEFINE j == Join(l, trigger, scope)
             r == Joined(job[j], trigger, prio, tracked)
  <2>1. ASSUME j \in Jobs
        PROVE  r \in JobRow /\ r.state = job[j].state /\ RowStep(job[j], r)
    <3> DEFINE row == job[j]
               raise == row.state = "queued" /\ prio > row.prio
               p == IF raise THEN prio ELSE row.prio
               g == IF raise THEN trigger ELSE row.trigger
               b == row.tracked \/ tracked
    <3>1. row \in JobRow
      BY <1>1, <2>1
    <3>2. r = [row EXCEPT !.prio = p, !.trigger = g, !.tracked = b]
      BY DEF Joined
    <3>3. p \in {10, 50, 100} /\ g \in {"manual", "watcher", "scheduled", "startup"} /\ b \in BOOLEAN
      BY <3>1 DEF JobRow
    <3> HIDE DEF p, g, b, row, r
    <3>4. r \in JobRow /\ r.state = row.state /\ RowStep(row, r)
      BY <3>1, <3>2, <3>3 DEF JobRow, RowStep
    <3> QED
      BY <3>4 DEF row
  <2>2. job' = [job EXCEPT ![j] = r]
    BY <1>2
  <2> HIDE DEF r, j
  <2>3. /\ job' \in Seq(JobRow) /\ Jobs' = Jobs
        /\ \A k \in Jobs : job'[k] = IF k = j THEN r ELSE job[k]
    BY <2>1, <2>2, RowReplaced DEF Jobs, CatalogInv, Types
  <2> QED
    BY <1>1, <2>1, <2>3 DEF TableStep
<1>3. ASSUME NEW c, c \subseteq {j \in Jobs : job[j].state = "queued"},
             job' = Append(Cancel(c), NewJob(l, "scan", trigger, scope, prio, tracked))
      PROVE  /\ job' \in Seq(JobRow) /\ TableStep
             /\ \A j \in Jobs : job'[j].state = job[j].state \/ job[j].state = "queued"
  <2> DEFINE r == NewJob(l, "scan", trigger, scope, prio, tracked)
  <2>1. r \in JobRow /\ r.state = "queued" /\ r.lib = l /\ r.rev = lib[l].rev /\ ScopeOK(r)
    BY NewJobType DEF CatalogInv
  <2>2. /\ Cancel(c) \in Seq(JobRow) /\ DOMAIN Cancel(c) = Jobs
        /\ \A j \in Jobs : /\ RowStep(job[j], Cancel(c)[j]) /\ Cancel(c)[j] \in JobRow
                           /\ j \in c => job[j].state = "queued"
                           /\ j \notin c => Cancel(c)[j] = job[j]
    BY <1>3, CancelTable DEF CatalogInv, Types
  <2>3. Jobs = 1..Len(job) /\ Len(job) \in Nat /\ Len(Cancel(c)) = Len(job)
    <3>1. Jobs = 1..Len(job) /\ Len(job) \in Nat
      BY Table DEF CatalogInv, Types
    <3>2. DOMAIN Cancel(c) = 1..Len(Cancel(c)) /\ Len(Cancel(c)) \in Nat
      BY <2>2, LenProperties
    <3> QED
      BY <2>2, <3>1, <3>2
  <2> HIDE DEF r
  <2>4. job' = Append(Cancel(c), r)
    BY <1>3 DEF r
  <2>5. /\ job' \in Seq(JobRow) /\ Len(job') = Len(job) + 1
        /\ (\A j \in Jobs : job'[j] = Cancel(c)[j]) /\ job'[Len(job) + 1] = r
    BY <2>1, <2>2, <2>3, <2>4, AppendProperties
  <2>6. Jobs' = 1..(Len(job) + 1)
    BY <2>5, LenProperties DEF Jobs
  <2>7. Jobs \subseteq Jobs' /\ Jobs' \ Jobs = {Len(job) + 1}
    BY <2>3, <2>6
  <2>8. NewRow(r)
    BY <2>1 DEF NewRow
  <2> QED
    BY <2>2, <2>5, <2>7, <2>8 DEF TableStep
<1>4. CASE ~MayJoin(l, trigger, scope)
  <2> DEFINE c == IF ActiveRebuilds(l) # {} THEN {} ELSE Superseded(l, "scan", scope, prio)
  <2>1. job' = Append(Cancel(c), NewJob(l, "scan", trigger, scope, prio, tracked))
    BY <1>4 DEF RequestScan
  <2>2. c \subseteq {j \in Jobs : job[j].state = "queued"}
    BY DEF Superseded, ActiveOf
  <2> HIDE DEF c
  <2> QED
    BY <1>3, <2>1, <2>2
<1> QED
  BY <1>2, <1>4 DEF RequestScan

\* A step that leaves the threads, the staging rows and what the supervisor found,
\* and moves no running job.
LEMMA OutsideStep ==
  ASSUME CatalogInv, Types', TableStep, LibStep,
         \A j \in Jobs : job'[j].state = job[j].state \/ job[j].state = "queued",
         UNCHANGED <<stage, worker, sweep>>
  PROVE  CatalogInv'
<1>1. \A v \in Workers : ThreadStep(v)
  BY DEF ThreadStep, Busy, CatalogInv, Owners, Mine, Working
<1>2. StageStep
  BY DEF StageStep, CatalogInv, StageOwned, Kept
<1> QED
  BY <1>1, <1>2, StepsKeep DEF Steps, SweepStep

\* The library scan-all queues next, and those that are left then.
LEMMA NextTodo ==
  ASSUME NEW todo \in Todos, todo \cap Libraries # {}
  PROVE  /\ NextOf(todo) \in Libraries
         /\ (IF todo = {NextOf(todo)} THEN {All} ELSE todo \ {NextOf(todo)}) \in Todos
<1> DEFINE l == NextOf(todo)
<1>1. l \in todo
  BY DEF NextOf
<1> HIDE DEF l
<1>2. l \in Libraries
  BY <1>1 DEF Todos
<1>3. (todo \ {l}) \in Todos \/ todo = {l}
  BY <1>1 DEF Todos
<1>4. {All} \in Todos
  BY DEF Todos
<1> QED
  BY <1>2, <1>3, <1>4 DEF l

Request ==
  \/ \E f \in Folders : Drain(f)
  \/ \E l \in Libraries : Scheduled(l) \/ Startup(l)
  \/ ScanAllNext

\* Requests of the watcher, the timer, the startup and scan-all.
LEMMA RequestMoves ==
  ASSUME CatalogInv, Request
  PROVE  /\ job' \in Seq(JobRow) /\ TableStep
         /\ \A j \in Jobs : job'[j].state = job[j].state \/ job[j].state = "queued"
<1>1. PICK l \in Libraries, trigger \in {"manual", "watcher", "scheduled", "startup"},
           scope \in Folders \cup {All}, prio \in {10, 50, 100}, tracked \in BOOLEAN :
        NewScope(l, scope) /\ RequestScan(l, trigger, scope, prio, tracked)
  <2>1. ASSUME NEW f \in Folders, Drain(f)
        PROVE  LibOf[f] \in Libraries /\ NewScope(LibOf[f], f) /\ RequestScan(LibOf[f], "watcher", f, 50, FALSE)
    BY <2>1, CatalogAssumption DEF Drain, NewScope, FoldersOf, Homes
  <2>2. ASSUME NEW l \in Libraries, Scheduled(l) \/ Startup(l)
        PROVE  \E trigger \in {"scheduled", "startup"} :
                 NewScope(l, All) /\ RequestScan(l, trigger, All, 10, FALSE)
    BY <2>2 DEF Scheduled, Startup, NewScope
  <2>3. ASSUME ScanAllNext
        PROVE  \E l \in Libraries : NewScope(l, All) /\ RequestScan(l, "manual", All, 100, TRUE)
    <3>1. NextOf(parent.todo) \in Libraries
      BY <2>3, NextTodo DEF ScanAllNext, CatalogInv, Types, Parent
    <3> QED
      BY <2>3, <3>1 DEF ScanAllNext, NewScope
  <2>4. CASE \E f \in Folders : Drain(f)
    BY <2>1, <2>4
  <2>5. CASE \E l \in Libraries : Scheduled(l) \/ Startup(l)
    BY <2>2, <2>5
  <2>6. CASE ScanAllNext
    BY <2>3, <2>6
  <2> QED
    BY <2>4, <2>5, <2>6 DEF Request
<1>2. lib' = lib
  BY DEF Request, Drain, Scheduled, Startup, ScanAllNext
<1> QED
  BY <1>1, <1>2, RequestTable

\* Requests of the user, the timer and the startup.
LEMMA RequestsKeep ==
  ASSUME CatalogInv, Request
  PROVE  CatalogInv'
<1>1. UNCHANGED <<disk, cat, lib, stage, worker, sweep, lost>> /\ buffer' \subseteq Folders
      /\ used' \in [Events -> Nat]
  BY SpendType DEF Request, Drain, Scheduled, Startup, ScanAllNext, world, CatalogInv, Types, Events
<1>2. parent' \in Parent
  <2>1. CASE parent' = parent
    BY <2>1 DEF CatalogInv, Types
  <2>2. CASE ScanAllNext
    <3>1. parent.todo \in Todos
      BY DEF CatalogInv, Types, Parent
    <3>2. PICK todo \in Todos : parent' = [parent EXCEPT !.todo = todo]
      BY <2>2, <3>1, NextTodo DEF ScanAllNext
    <3> QED
      BY <3>2 DEF CatalogInv, Types, Parent
  <2> QED
    BY <2>1, <2>2 DEF Request, Drain, Scheduled, Startup
<1>4. /\ job' \in Seq(JobRow) /\ TableStep
      /\ \A j \in Jobs : job'[j].state = job[j].state \/ job[j].state = "queued"
  BY RequestMoves
<1>5. Types'
  BY <1>1, <1>2, <1>4 DEF CatalogInv, Types
<1> QED
  BY <1>1, <1>4, <1>5, OutsideStep DEF LibStep

\* A request of a user marks the library offline, or asks for a scan.
LEMMA AskKeeps ==
  ASSUME CatalogInv, NEW l \in Libraries, NEW scope \in FoldersOf(l) \cup {All}, Ask(l, scope)
  PROVE  CatalogInv'
<1>1. UNCHANGED <<disk, cat, stage, worker, sweep, parent, buffer, lost>> /\ used' \in [Events -> Nat]
  BY SpendType DEF Ask, world, CatalogInv, Types, Events
<1>2. \A k \in Libraries : /\ [lib[k] EXCEPT !.state = "offline"] \in LibRow /\ lib[k] \in LibRow
                           /\ [lib[k] EXCEPT !.state = "offline"].rev = lib[k].rev
  BY DEF CatalogInv, Types, LibRow, LibStates
<1>3. CASE lib' = [lib EXCEPT ![l].state = "offline"] /\ job' = job
  <2>1. lib' \in [Libraries -> LibRow] /\ LibStep
    BY <1>2, <1>3 DEF CatalogInv, Types, LibStep
  <2>2. Types' /\ TableStep
    BY <1>1, <1>3, <2>1, SameTable DEF CatalogInv, Types
  <2> QED
    BY <1>1, <1>3, <2>1, <2>2, OutsideStep
<1>4. CASE RequestScan(l, "manual", scope, 100, FALSE) /\ lib' = lib
  <2>1. /\ job' \in Seq(JobRow) /\ TableStep
        /\ \A j \in Jobs : job'[j].state = job[j].state \/ job[j].state = "queued"
    BY <1>4, RequestTable DEF NewScope
  <2>2. Types' /\ LibStep
    BY <1>1, <1>4, <2>1 DEF CatalogInv, Types, LibStep
  <2> QED
    BY <1>1, <2>1, <2>2, OutsideStep
<1> QED
  BY <1>3, <1>4 DEF Ask

\* Files and volumes change; the watcher starts, stops and drops notices; a library
\* is marked; scan-all begins and ends; maintenance begins and ends.
LEMMA EnvironmentKeeps ==
  ASSUME CatalogInv,
         \/ \E f \in Folders : Change(f) \/ Mount(f) \/ DrainDropped(f)
         \/ \E l \in Libraries : MarkDiscovering(l)
         \/ StartWatcher \/ StopWatcher \/ LeaveWatcher
         \/ ScanAll \/ ScanAllBusy \/ ScanAllEnd \/ MaintenanceBegins \/ MaintenanceEnds
  PROVE  CatalogInv'
<1>1. UNCHANGED <<cat, job, stage, worker, sweep>> /\ buffer' \subseteq Folders /\ lost' \subseteq Folders
  BY DEF Change, Mount, DrainDropped, MarkDiscovering, StartWatcher, StopWatcher,
         LeaveWatcher, ScanAll, ScanAllBusy, ScanAllEnd,
         MaintenanceBegins, MaintenanceEnds, world, rows, CatalogInv, Types
<1>2. used' \in [Events -> Nat]
  BY SpendType DEF Change, Mount, DrainDropped, MarkDiscovering, StartWatcher, StopWatcher,
         LeaveWatcher, ScanAll, ScanAllBusy, ScanAllEnd,
         MaintenanceBegins, MaintenanceEnds, CatalogInv, Types, Events
<1>3. disk' \in [Folders -> [ver : Nat, there : BOOLEAN]]
  <2>1. ASSUME NEW f \in Folders, Change(f) \/ Mount(f)
        PROVE  disk' \in [Folders -> [ver : Nat, there : BOOLEAN]]
    <3>1. disk \in [Folders -> [ver : Nat, there : BOOLEAN]]
      BY DEF CatalogInv, Types
    <3>2. /\ [disk[f] EXCEPT !.ver = disk[f].ver + 1] \in [ver : Nat, there : BOOLEAN]
          /\ [disk[f] EXCEPT !.there = ~disk[f].there] \in [ver : Nat, there : BOOLEAN]
      <4>1. disk[f] \in [ver : Nat, there : BOOLEAN] /\ disk[f].ver + 1 \in Nat
        BY <3>1
      <4>2. \A n \in Nat : [disk[f] EXCEPT !.ver = n] \in [ver : Nat, there : BOOLEAN]
        BY <4>1
      <4>3. \A b \in BOOLEAN : [disk[f] EXCEPT !.there = b] \in [ver : Nat, there : BOOLEAN]
        BY <4>1
      <4> QED
        BY <4>1, <4>2, <4>3
    <3>3. \/ disk' = [disk EXCEPT ![f] = [disk[f] EXCEPT !.ver = disk[f].ver + 1]]
          \/ disk' = [disk EXCEPT ![f] = [disk[f] EXCEPT !.there = ~disk[f].there]]
      BY <2>1 DEF Change, Mount
    <3> QED
      BY <3>1, <3>2, <3>3
  <2>2. CASE UNCHANGED disk
    BY <2>2 DEF CatalogInv, Types
  <2> QED
    BY <2>1, <2>2 DEF DrainDropped, MarkDiscovering, StartWatcher, StopWatcher,
         LeaveWatcher, ScanAll, ScanAllBusy, ScanAllEnd, MaintenanceBegins, MaintenanceEnds, world
<1>4. lib' \in [Libraries -> LibRow] /\ LibStep
  <2>1. ASSUME NEW l \in Libraries, MarkDiscovering(l)
        PROVE  lib' \in [Libraries -> LibRow] /\ LibStep
    BY <2>1 DEF MarkDiscovering, CatalogInv, Types, LibRow, LibStates, LibStep
  <2>2. CASE UNCHANGED lib
    BY <2>2 DEF CatalogInv, Types, LibStep
  <2> QED
    BY <2>1, <2>2 DEF Change, Mount, DrainDropped, StartWatcher, StopWatcher,
         LeaveWatcher, ScanAll, ScanAllBusy, ScanAllEnd,
         MaintenanceBegins, MaintenanceEnds, world, rows
<1>5. parent' \in Parent
  <2>1. parent \in Parent
    BY DEF CatalogInv, Types
  <2>2. CASE UNCHANGED parent
    BY <2>1, <2>2
  <2>3. CASE ScanAll
    BY <2>3 DEF ScanAll, Parent, Todos, Active
  <2>4. CASE ScanAllBusy
    BY <2>1, <2>4 DEF ScanAllBusy, Parent, Todos
  <2>5. CASE ScanAllEnd
    <3>1. ParentState(job) \in Active \cup Terminal
      BY DEF ParentState, Active, Terminal
    <3> QED
      BY <2>1, <2>5, <3>1 DEF ScanAllEnd, Parent, Todos, Terminal
  <2> QED
    BY <2>2, <2>3, <2>4, <2>5 DEF Change, Mount, DrainDropped, MarkDiscovering,
         StartWatcher, StopWatcher, LeaveWatcher, MaintenanceBegins, MaintenanceEnds, world, rows
<1>6. Types'
  BY <1>1, <1>2, <1>3, <1>4, <1>5 DEF CatalogInv, Types
<1> QED
  BY <1>1, <1>4, <1>6, OutsideStep, SameTable

\* A library is configured only when it has no active job.
LEMMA ConfigureKeeps ==
  ASSUME CatalogInv, NEW l \in Libraries, Configure(l)
  PROVE  CatalogInv'
<1>1. UNCHANGED <<disk, buffer, job, stage, parent, worker, sweep, used>> /\ lost' \subseteq Folders
  BY DEF Configure, Homes, CatalogInv, Types
<1>2. cat' \in [Folders -> AssetRow]
  <2>1. \A f \in Folders : cat[f] \in AssetRow /\ \A b \in BOOLEAN : [cat[f] EXCEPT !.off = b] \in AssetRow
    BY DEF CatalogInv, Types, AssetRow
  <2>2. cat' = [f \in Folders |-> IF LibOf[f] = l /\ cat[f].ver # None
                                  THEN [cat[f] EXCEPT !.off = ~(f \in Catalogued' /\ disk[f].there)]
                                  ELSE cat[f]]
    BY DEF Configure, Recatalogued
  <2> QED
    BY <2>1, <2>2
<1>3. lib' \in [Libraries -> LibRow] /\ LibStep
  <2> DEFINE r == [lib[l] EXCEPT !.rev = lib[l].rev + 1]
  <2>1. lib \in [Libraries -> LibRow]
    BY DEF CatalogInv, Types
  <2>2. r \in LibRow
    BY <2>1 DEF LibRow
  <2>3. lib' = [lib EXCEPT ![l] = r] /\ NoActiveWork(l)
    BY DEF Configure
  <2> HIDE DEF r
  <2> QED
    BY <2>1, <2>2, <2>3 DEF LibStep
<1>4. Types'
  BY <1>1, <1>2, <1>3 DEF CatalogInv, Types
<1> QED
  BY <1>1, <1>3, <1>4, OutsideStep, SameTable

\* A claim: the job gets the only thread it will have, and the library its only
\* running job.
LEMMA ClaimKeeps ==
  ASSUME CatalogInv, NEW w \in Workers, Claim(w)
  PROVE  CatalogInv'
<1>1. PICK j \in Runnable :
        /\ job' = [Cancel(Outdated) EXCEPT ![j] = [@ EXCEPT !.state = "running", !.live = TRUE]]
        /\ worker' = [worker EXCEPT ![w] = [Idle EXCEPT !.pc = "look", !.job = j]]
  BY DEF Claim
<1>2. UNCHANGED <<disk, buffer, cat, lib, stage, parent, sweep, lost, used>> /\ sweep.found = {}
  BY DEF Claim, outside, world, config, watch, NoSweep
<1>3. j \in Jobs /\ job[j].state = "queued" /\ job[j] \in JobRow /\ j \in Nat /\ j \notin Outdated
  BY Table DEF Runnable, CatalogInv, Types
<1> DEFINE t == [Idle EXCEPT !.pc = "look", !.job = j]
           r == [job[j] EXCEPT !.state = "running", !.live = TRUE]
           c == Outdated
<1>4. t \in Thread /\ t.pc = "look" /\ t.job = j /\ ThreadOK(t)
  BY <1>3 DEF Idle, Nothing, Thread, ThreadStates, Working, ThreadOK
<1>5. /\ r \in JobRow /\ r.state = "running" /\ r.lib = job[j].lib /\ r.type = job[j].type
      /\ r.scope = job[j].scope /\ r.rev = job[j].rev
  <2>1. r \in JobRow
    BY <1>3, StateType DEF JobStates, Active
  <2> QED
    BY <1>3, <2>1 DEF JobRow
<1>6. /\ Cancel(c) \in Seq(JobRow) /\ DOMAIN Cancel(c) = Jobs /\ Cancel(c)[j] = job[j]
      /\ \A k \in Jobs : /\ RowStep(job[k], Cancel(c)[k]) /\ Cancel(c)[k] \in JobRow
                         /\ k \in c => job[k].state = "queued" /\ Cancel(c)[k].state = "cancelled"
                         /\ k \notin c => Cancel(c)[k] = job[k]
  BY <1>3, CancelTable DEF Outdated, CatalogInv, Types
<1> HIDE DEF t
<1>7. job' = [Cancel(c) EXCEPT ![j] = r] /\ worker' = [worker EXCEPT ![w] = t]
  BY <1>1, <1>6 DEF t
<1> HIDE DEF r, c
<1>8. /\ job' \in [Jobs -> JobRow] /\ Jobs' = Jobs /\ job'[j] = r
      /\ \A k \in Jobs \ {j} : job'[k] = Cancel(c)[k]
  <2>1. Cancel(c) = [k \in Jobs |-> Cancel(c)[k]]
    BY DEF Cancel
  <2>2. Cancel(c) \in [Jobs -> JobRow]
    BY <1>6, <2>1
  <2> QED
    BY <1>3, <1>5, <1>7, <2>2 DEF Jobs
<1>9. job' \in Seq(JobRow)
  BY <1>8, Table DEF CatalogInv, Types
<1>10. Types'
  BY <1>2, <1>4, <1>7, <1>9 DEF CatalogInv, Types
<1>11. \A k \in Jobs : /\ job'[k].lib = job[k].lib /\ job'[k].type = job[k].type
                       /\ job'[k].scope = job[k].scope /\ job'[k].rev = job[k].rev
                       /\ k # j /\ job[k].state # "queued" => job'[k].state = job[k].state
                       /\ job'[k].state \in Active => job[k].state \in Active
                       /\ job'[k].state = "running" => k = j \/ job[k].state = "running"
                       /\ job'[k].state = "queued" => job[k].state = "queued"
  BY <1>3, <1>5, <1>6, <1>8 DEF RowStep, Active
<1>12. /\ worker[w].pc = "idle" /\ worker'[w] = t
       /\ \A v \in Workers \ {w} : worker'[v] = worker[v]
  BY <1>7 DEF Claim, At, CatalogInv, Types
<1>13. \A v \in Workers : Busy(v) => worker[v].job \in Jobs /\ job[worker[v].job].state # "queued"
  BY DEF CatalogInv, Owners, Mine
<1>14. Owners'
  <2> SUFFICES ASSUME NEW v \in Workers
               PROVE  /\ ThreadOK(worker'[v])
                      /\ Busy(v)' => worker'[v].job \in Jobs' /\ job'[worker'[v].job].state # "queued"
                      /\ worker'[v].pc \in Working => job'[worker'[v].job].state = "running"
                      /\ \A u \in Workers : Busy(u)' /\ Busy(v)' /\ worker'[u].job = worker'[v].job => u = v
    BY DEF Owners, Mine
  <2>1. CASE v = w
    BY <1>3, <1>4, <1>5, <1>8, <1>12, <1>13, <2>1 DEF Busy
  <2>2. CASE v # w
    <3>1. worker'[v] = worker[v] /\ ThreadOK(worker'[v])
      BY <1>12, <2>2 DEF CatalogInv, Owners
    <3>2. Busy(v) => worker[v].job # j /\ job'[worker[v].job].state = job[worker[v].job].state
      BY <1>3, <1>11, <1>13
    <3>3. worker[v].pc \in Working => job'[worker[v].job].state = "running"
      BY <3>2 DEF CatalogInv, Owners, Mine, Busy, Working
    <3>4. \A u \in Workers : Busy(u)' /\ Busy(v)' /\ worker'[u].job = worker'[v].job => u = v
      BY <1>4, <1>12, <3>1, <3>2 DEF CatalogInv, Owners, Busy
    <3> QED
      BY <1>8, <1>13, <3>1, <3>2, <3>3, <3>4 DEF Busy
  <2> QED
    BY <2>1, <2>2
<1>15. SweepApart'
  BY <1>2 DEF SweepApart
<1>16. StageOwned'
  <2>1. \A s \in stage : s.job \in Jobs /\ job[s.job].state \in Kept /\ job[s.job].type = "rebuild" /\ s.job # j
    BY <1>3 DEF CatalogInv, StageOwned, Kept
  <2>2. \A v \in Workers, s \in stage : worker'[v].pc \in Clear => s.job # worker'[v].job
    BY <1>4, <1>12, <2>1 DEF CatalogInv, StageOwned
  <2> QED
    BY <1>2, <1>8, <1>11, <2>1, <2>2 DEF StageOwned, Kept
<1>17. ScopesOwned'
  BY <1>8, <1>11 DEF CatalogInv, ScopesOwned, ScopeOK
<1>18. JobsMatchConfiguration'
  <2>1. \A k \in Jobs : job'[k].state \in Active => job'[k].rev = lib'[job'[k].lib].rev
    BY <1>2, <1>11 DEF CatalogInv, JobsMatchConfiguration
  <2>2. \A k \in Jobs : job[k].state = "running" => job[k].lib # job[j].lib
    BY DEF Runnable, ActiveOf, Active
  <2>3. ASSUME NEW i \in Jobs, NEW k \in Jobs, job'[i].state = "running", job'[k].state = "running",
               job'[i].lib = job'[k].lib
        PROVE  i = k
    BY <1>11, <2>2, <2>3 DEF CatalogInv, JobsMatchConfiguration
  <2> QED
    BY <1>8, <2>1, <2>3 DEF JobsMatchConfiguration
<1> QED
  BY <1>10, <1>14, <1>15, <1>16, <1>17, <1>18 DEF CatalogInv

\* The list of libraries holds libraries.
LEMMA ListedType == Listed \in [1..Cardinality(Libraries) -> Libraries] /\ Cardinality(Libraries) \in Nat
<1>1. Cardinality(Libraries) \in Nat /\ ExistsBijection(1..Cardinality(Libraries), Libraries)
  BY FS_CardinalityType, CatalogAssumption
<1>2. \E order \in [1..Cardinality(Libraries) -> Libraries] :
        \A l \in Libraries : \E i \in DOMAIN order : order[i] = l
  BY <1>1 DEF ExistsBijection, Bijection, Surjection
<1> QED
  BY <1>1, <1>2 DEF Listed

\* The catalog is cleared with its jobs; every library gets a rebuild.
LEMMA RebuildImportedDataKeeps ==
  ASSUME CatalogInv, RebuildImportedData
  PROVE  CatalogInv'
<1> DEFINE n == Cardinality(Libraries)
           gone(j) == [job[j] EXCEPT !.state = "gone"]
           new(i) == NewJob(Listed[i], "rebuild", "manual", All, 100, TRUE)
           old == [j \in Jobs |-> gone(j)]
           more == [i \in DOMAIN Listed |-> new(i)]
<1>1. /\ n \in Nat /\ DOMAIN Listed = 1..n
      /\ \A i \in 1..n : Listed[i] \in Libraries
  BY ListedType
<1>2. \A j \in Jobs : job[j] \in JobRow /\ gone(j) \in JobRow
  BY Table, StateType DEF JobStates, CatalogInv, Types
<1>3. \A j \in Jobs : gone(j).state = "gone" /\ RowStep(job[j], gone(j))
  BY <1>2 DEF JobRow, RowStep, Active
<1>4. \A i \in 1..n : new(i) \in JobRow /\ new(i).state = "queued" /\ ScopeOK(new(i))
                      /\ new(i).lib \in Libraries /\ new(i).rev = lib[new(i).lib].rev
  <2> SUFFICES ASSUME NEW l \in Libraries
               PROVE  LET r == NewJob(l, "rebuild", "manual", All, 100, TRUE)
                      IN /\ r \in JobRow /\ r.state = "queued" /\ ScopeOK(r)
                         /\ r.lib \in Libraries /\ r.rev = lib[r.lib].rev
    BY <1>1
  <2>1. lib[l].rev \in Nat
    BY DEF CatalogInv, Types, LibRow
  <2> QED
    BY <2>1 DEF NewJob, JobRow, JobStates, Active, ScopeOK
<1>5. job' = old \o more
  BY DEF RebuildImportedData
<1> HIDE DEF gone, new
<1>6. old \in Seq(JobRow) /\ Len(old) = Len(job) /\ DOMAIN old = Jobs
  BY <1>2, Table DEF CatalogInv, Types
<1>7. more \in Seq(JobRow) /\ Len(more) = n /\ \A i \in 1..n : more[i] = new(i)
  <2>1. more \in [1..n -> JobRow]
    BY <1>1, <1>4
  <2>2. more \in Seq(JobRow)
    BY <1>1, <2>1, SeqDef
  <2> QED
    BY <1>1, <2>1, <2>2, LenProperties
<1>8. Jobs = 1..Len(job) /\ Len(job) \in Nat
  BY Table DEF CatalogInv, Types
<1> HIDE DEF old, more
<1>9. /\ job' \in Seq(JobRow) /\ Len(job') = Len(job) + n
      /\ \A j \in 1..(Len(job) + n) : job'[j] = IF j <= Len(job) THEN old[j] ELSE more[j - Len(job)]
  <2>1. /\ old \o more \in Seq(JobRow) /\ Len(old \o more) = Len(old) + Len(more)
        /\ \A j \in 1..(Len(old) + Len(more)) :
             (old \o more)[j] = IF j <= Len(old) THEN old[j] ELSE more[j - Len(old)]
    BY <1>6, <1>7, ConcatProperties
  <2> QED
    BY <1>5, <1>6, <1>7, <2>1
<1>10. Jobs' = 1..(Len(job) + n)
  BY <1>9, LenProperties DEF Jobs
<1>11. \A j \in Jobs : j \in Jobs' /\ job'[j] = gone(j)
  <2>1. \A j \in Jobs : old[j] = gone(j)
    BY DEF old
  <2> QED
    BY <1>1, <1>8, <1>9, <1>10, <2>1
<1>12. ASSUME NEW j \in Jobs' \ Jobs PROVE j - Len(job) \in 1..n /\ job'[j] = new(j - Len(job))
  <2>1. j - Len(job) \in 1..n /\ ~(j <= Len(job)) /\ j \in 1..(Len(job) + n)
    BY <1>1, <1>8, <1>10
  <2> QED
    BY <1>7, <1>9, <2>1
<1>13. \A l \in Libraries : lib[l] \in LibRow /\ [lib[l] EXCEPT !.state = "discovering"] \in LibRow
                            /\ [lib[l] EXCEPT !.state = "discovering"].rev = lib[l].rev
  BY DEF CatalogInv, Types, LibRow, LibStates
<1>14. lib' \in [Libraries -> LibRow] /\ \A l \in Libraries : lib'[l].rev = lib[l].rev
  BY <1>13 DEF RebuildImportedData
<1>15. TableStep
  <2>1. \A j \in Jobs' \ Jobs : NewRow(job'[j])
    BY <1>4, <1>12, <1>14 DEF NewRow
  <2> QED
    BY <1>3, <1>11, <2>1 DEF TableStep
<1>16. UNCHANGED <<disk, buffer, worker, sweep, lost, used>> /\ stage' = {}
  BY DEF RebuildImportedData, outside, world, config, watch
<1>17. Types'
  <2>1. cat' \in [Folders -> AssetRow]
    BY DEF RebuildImportedData, AssetRow, Unindexed
  <2>2. parent' \in Parent
    BY DEF RebuildImportedData, Parent, Todos, Active
  <2> QED
    BY <1>9, <1>14, <1>16, <2>1, <2>2 DEF CatalogInv, Types
<1>18. ASSUME NEW v \in Workers PROVE ThreadStep(v)
  <2>1. worker[v].pc \notin Working
    <3>1. \A j \in Jobs : job[j].state # "running"
      BY <1>2 DEF RebuildImportedData, ActiveOf, Active, JobRow
    <3> QED
      BY <3>1, ThreadFacts DEF Mine
  <2> QED
    BY <1>16, <2>1 DEF ThreadStep, Busy, CatalogInv, Owners
<1> QED
  BY <1>14, <1>15, <1>16, <1>17, <1>18, StepsKeep DEF Steps, LibStep, StageStep, SweepStep

-----------------------------------------------------------------------------
(* The theorems.                                                           *)

\* The empty table and idle threads satisfy the invariant.
LEMMA CatalogInitially == CInit => CatalogInv
<1> SUFFICES ASSUME CInit PROVE CatalogInv
  OBVIOUS
<1>1. Idle \in Thread /\ Idle.pc = "idle" /\ ThreadOK(Idle)
  BY DEF Idle, Nothing, Thread, ThreadStates, ThreadOK
<1>2. job \in Seq(JobRow) /\ Jobs = {}
  <2>1. <<>> \in Seq(JobRow) /\ Len(<<>>) = 0
    BY EmptySeq
  <2>2. DOMAIN <<>> = 1..0
    BY <2>1, LenProperties
  <2> QED
    BY <2>1, <2>2 DEF CInit, Jobs
<1>3. parent \in Parent
  BY DEF CInit, NoParent, Parent, Todos
<1>4. Types
  BY <1>1, <1>2, <1>3 DEF CInit, Types, AssetRow, Unindexed, LibRow, LibStates
<1> QED
  BY <1>1, <1>2, <1>4 DEF CInit, CatalogInv, Owners, Busy, Working, SweepApart, NoSweep, StageOwned,
     Clear, ScopesOwned, JobsMatchConfiguration

\* Every step of every actor, and a stutter, keeps the invariant.
LEMMA CatalogStep == CatalogInv /\ [CNext]_vars => CatalogInv'
<1> SUFFICES ASSUME CatalogInv, [CNext]_vars PROVE CatalogInv'
  OBVIOUS
<1>1. CASE \E f \in Folders : Change(f) \/ Mount(f) \/ Drain(f) \/ DrainDropped(f)
  BY <1>1, EnvironmentKeeps, RequestsKeep DEF Request
<1>0. CASE StartWatcher \/ StopWatcher \/ LeaveWatcher
  BY <1>0, EnvironmentKeeps
<1>2. CASE \E l \in Libraries : \/ Scheduled(l) \/ Startup(l) \/ MarkDiscovering(l) \/ Configure(l)
                                \/ \E scope \in FoldersOf(l) \cup {All} : Ask(l, scope)
  BY <1>2, RequestsKeep, EnvironmentKeeps, ConfigureKeeps, AskKeeps DEF Request
<1>3. CASE ScanAll \/ ScanAllNext \/ ScanAllBusy \/ ScanAllEnd
  BY <1>3, EnvironmentKeeps, RequestsKeep DEF Request
<1>4. CASE \E w \in Workers : Claim(w) \/ WorkerStep(w) \/ Raise(w) \/ Renew(w)
  <2>1. PICK w \in Workers : Claim(w) \/ WorkerStep(w) \/ Raise(w) \/ Renew(w)
    BY <1>4
  <2>2. CASE WorkerStep(w)
    BY <2>2, LookKeeps, MarkOfflineKeeps, EndsKeep, WasReadyKeeps, StartKeeps, WalkKeeps, WriteKeeps,
       ProgressKeeps, ActivateKeeps, CleanKeeps, LeaveKeeps, CloseKeeps, TellKeeps DEF WorkerStep
  <2> QED
    BY <2>1, <2>2, ClaimKeeps, RaiseKeeps, LeaseKeeps
<1>5. CASE \/ \E j \in Jobs : Expire(j)
           \/ SweepRead \/ SweepWrite \/ SweepTell
           \/ Restart \/ MaintenanceBegins \/ MaintenanceEnds \/ RebuildImportedData
  BY <1>5, LeaseKeeps, SweepReadKeeps, SweepWriteKeeps, TellKeeps, RestartKeeps, EnvironmentKeeps,
     RebuildImportedDataKeeps
<1>6. CASE UNCHANGED vars
  <2>1. Types'
    BY <1>6 DEF vars, world, config, watch, CatalogInv, Types
  <2> QED
    BY <1>6, <2>1, OutsideStep, SameTable DEF vars, world, config, watch, LibStep
<1> QED
  BY <1>0, <1>1, <1>2, <1>3, <1>4, <1>5, <1>6 DEF CNext

\* The invariant holds in every reachable state.
LEMMA CatalogAlways == CSpec => []CatalogInv
BY CatalogInitially, CatalogStep, PTL DEF CSpec

\* The import paths, the patterns and the watcher name folders, and what is not
\* catalogued is in lost.
ConfigInv ==
  /\ paths \subseteq Folders /\ excluded \subseteq Folders
  /\ watcher \in [roots : SUBSET Folders, seen : SUBSET Folders]
  /\ watcher.seen \subseteq watcher.roots
  /\ Folders \ Catalogued \subseteq lost

\* Most steps leave the configuration, and take nothing out of lost.
LEMMA ConfigKept ==
  ASSUME ConfigInv, UNCHANGED config, watcher' = watcher, lost \subseteq lost'
  PROVE  ConfigInv'
BY DEF ConfigInv, config, Catalogued

LEMMA ConfigStep == ConfigInv /\ [CNext]_vars => ConfigInv'
<1> SUFFICES ASSUME ConfigInv, [CNext]_vars PROVE ConfigInv'
  OBVIOUS
<1>1. ASSUME NEW f \in Folders, Change(f)
      PROVE  ConfigInv'
  BY <1>1 DEF Change, ConfigInv, config, watch, Catalogued
<1>2. ASSUME NEW f \in Folders, Mount(f)
      PROVE  ConfigInv'
  <2>1. /\ UNCHANGED config /\ lost' = lost
        /\ watcher' = watcher \/ watcher' = [watcher EXCEPT !.seen = watcher.seen \ {f}]
    BY <1>2 DEF Mount
  <2>2. CASE watcher' = watcher
    BY <2>1, <2>2, ConfigKept
  <2>3. CASE watcher' = [watcher EXCEPT !.seen = watcher.seen \ {f}]
    BY <2>1, <2>3 DEF ConfigInv, config, Catalogued
  <2> QED
    BY <2>1, <2>2, <2>3
<1>3. CASE StartWatcher \/ StopWatcher \/ LeaveWatcher
  BY <1>3 DEF StartWatcher, StopWatcher, LeaveWatcher, Unwatched, ConfigInv, config, Catalogued
<1>4. ASSUME NEW f \in Folders, Drain(f) \/ DrainDropped(f)
      PROVE  ConfigInv'
  BY <1>4, ConfigKept DEF Drain, DrainDropped, world, watch
<1>5. ASSUME NEW l \in Libraries, Scheduled(l) \/ Startup(l) \/ MarkDiscovering(l)
      PROVE  ConfigInv'
  BY <1>5, ConfigKept DEF Scheduled, Startup, MarkDiscovering, world, watch
<1>6. ASSUME NEW l \in Libraries, NEW scope \in FoldersOf(l) \cup {All}, Ask(l, scope)
      PROVE  ConfigInv'
  BY <1>6, ConfigKept DEF Ask, world, watch
<1>7. ASSUME NEW l \in Libraries, Configure(l)
      PROVE  ConfigInv'
  <2>1. PICK roots \in SUBSET Homes(l), hidden \in SUBSET Homes(l) :
          /\ paths' = (paths \ Homes(l)) \cup roots
          /\ excluded' = (excluded \ Homes(l)) \cup hidden
    BY <1>7 DEF Configure
  <2>2. Homes(l) \subseteq Folders /\ watcher' = watcher
    BY <1>7 DEF Homes, Configure
  <2>3. lost' = lost \cup {f \in Homes(l) : ~disk[f].there \/ f \notin Catalogued \cap Catalogued'}
    BY <1>7 DEF Configure
  <2>4. \A f \in Folders \ Homes(l) : f \in Catalogued' => f \in Catalogued
    BY <2>1 DEF Catalogued
  <2>5. \A f \in Folders \ Homes(l) : f \in Catalogued => f \in Catalogued'
    BY <2>1 DEF Catalogued
  <2>6. \A f \in Folders \ Catalogued' : f \in lost'
    BY <2>3, <2>4, <2>5 DEF ConfigInv
  <2> QED
    BY <2>1, <2>2, <2>6 DEF ConfigInv
<1>8. CASE ScanAll \/ ScanAllNext \/ ScanAllBusy \/ ScanAllEnd
  BY <1>8, ConfigKept DEF ScanAll, ScanAllNext, ScanAllBusy, ScanAllEnd, world, watch
<1>9. ASSUME NEW w \in Workers, Walk(w)
      PROVE  ConfigInv'
  <2>1. PICK readable \in BOOLEAN :
          /\ IF disk[NextOf(worker[w].todo)].there /\ NextOf(worker[w].todo) \in Catalogued
             THEN IF readable THEN used' = used ELSE Spend("trouble") ELSE ~readable /\ used' = used
          /\ lost' = IF readable THEN lost \ {NextOf(worker[w].todo)} ELSE lost \cup {NextOf(worker[w].todo)}
    BY <1>9 DEF Walk
  <2>2. UNCHANGED config /\ watcher' = watcher
    BY <1>9 DEF Walk, outside, world, watch
  <2>3. CASE readable
    BY <2>1, <2>2, <2>3 DEF ConfigInv, config, Catalogued
  <2>4. CASE ~readable
    BY <2>1, <2>2, <2>4, ConfigKept
  <2> QED
    BY <2>3, <2>4
<1>10. ASSUME NEW w \in Workers,
              \/ Claim(w) \/ Raise(w) \/ Renew(w) \/ Look(w) \/ MarkOffline(w) \/ NothingThere(w)
              \/ WasReady(w) \/ Start(w) \/ Write(w) \/ Progress(w) \/ Activate(w) \/ Finish(w)
              \/ Clean(w) \/ Fail(w) \/ ClaimLost(w) \/ Leave(w) \/ Tell(w)
       PROVE  ConfigInv'
  <2>1. UNCHANGED <<config, watcher, lost>>
    BY <1>10 DEF Claim, Raise, Renew, Look, MarkOffline, NothingThere, WasReady, Start, Write, Progress,
       Activate, Finish, Clean, Fail, ClaimLost, Leave, Tell, outside, world, watch
  <2> QED
    BY <2>1, ConfigKept
<1>11. ASSUME NEW w \in Workers, Close(w)
       PROVE  ConfigInv'
  BY <1>11, ConfigKept DEF Close, FailJobs, outside, world, watch
<1>12. CASE SweepWrite
  BY <1>12, ConfigKept DEF SweepWrite, FailJobs, outside, world, watch
<1>13. CASE Restart
  <2>1. UNCHANGED config /\ lost \subseteq lost' /\ watcher' = Unwatched
    BY <1>13 DEF Restart, FailJobs
  <2> QED
    BY <2>1 DEF ConfigInv, config, Catalogued, Unwatched
<1>14. CASE \/ \E j \in Jobs : Expire(j)
            \/ SweepRead \/ SweepTell \/ MaintenanceBegins \/ MaintenanceEnds \/ RebuildImportedData
            \/ UNCHANGED vars
  BY <1>14, ConfigKept DEF Expire, SweepRead, SweepTell, MaintenanceBegins, MaintenanceEnds,
     RebuildImportedData, vars, outside, world, watch
<1> QED
  BY <1>1, <1>2, <1>3, <1>4, <1>5, <1>6, <1>7, <1>8, <1>9, <1>10, <1>11, <1>12, <1>13, <1>14
     DEF CNext, WorkerStep

LEMMA ConfigAlways == CSpec => []ConfigInv
<1>1. CInit => ConfigInv
  BY CatalogAssumption DEF CInit, ConfigInv, Catalogued
<1> QED
  BY <1>1, ConfigStep, PTL DEF CSpec

\* Rows and threads keep their shape, and staging rows belong to a rebuild that runs
\* or failed.
THEOREM CatalogTypeCorrect == CSpec => []CTypeOK
<1>1. CatalogInv /\ ConfigInv => CTypeOK
  <2> SUFFICES ASSUME CatalogInv, ConfigInv PROVE CTypeOK
    OBVIOUS
  <2>1. stage \subseteq [job : Jobs, folder : Folders, ver : Nat]
    BY DEF CatalogInv, Types, StageRow, StageOwned
  <2>2. \A w \in Workers : worker[w].pc # "idle" => worker[w].job \in Jobs
    BY DEF CatalogInv, Owners, Busy
  <2>3. sweep.found \subseteq Jobs
    BY DEF CatalogInv, SweepApart
  <2>4. \A j \in Jobs : job[j] \in JobRow
    BY Table DEF CatalogInv, Types
  <2>5. UNION {paths, excluded, watcher.roots, buffer, lost} \subseteq Folders
    BY DEF CatalogInv, Types, ConfigInv
  <2> QED
    BY <2>1, <2>2, <2>3, <2>4, <2>5
       DEF CatalogInv, ConfigInv, CTypeOK, Types, AssetRow, LibRow, LibStates, JobRow, JobStates,
           StageOwned, Kept, Parent
<1> QED
  BY <1>1, CatalogAlways, ConfigAlways, PTL

\* However requests, claims, failures and reconfigurations interleave, no job made
\* for an old configuration waits or runs, and a library has one running job.
THEOREM JobsAreCurrent == CSpec => []JobsMatchConfiguration
<1>1. CatalogInv => JobsMatchConfiguration
  BY DEF CatalogInv
<1> QED
  BY <1>1, CatalogAlways, PTL

\* A step outside FailJobs and the end of a job leaves running jobs running.
LEMMA RunningStays ==
  ASSUME CatalogInv, NEW j \in Jobs, job[j].state = "running",
         \/ Request
         \/ \E l \in Libraries : \E scope \in FoldersOf(l) \cup {All} : Ask(l, scope)
         \/ \E w \in Workers : Claim(w) \/ Renew(w) \/ job' = Extended(w)
         \/ \E k \in Jobs : Expire(k)
         \/ RebuildImportedData
         \/ UNCHANGED job
  PROVE  job'[j].state # "failed"
<1>1. CASE Request
  BY <1>1, RequestMoves
<1>2. ASSUME NEW l \in Libraries, NEW scope \in FoldersOf(l) \cup {All}, Ask(l, scope)
      PROVE  job'[j].state # "failed"
  <2>1. CASE job' = job
    BY <2>1
  <2>2. CASE RequestScan(l, "manual", scope, 100, FALSE) /\ lib' = lib
    BY <2>2, RequestTable DEF NewScope
  <2> QED
    BY <1>2, <2>1, <2>2 DEF Ask
<1>3. ASSUME NEW k, NEW b \in BOOLEAN, job' = [job EXCEPT ![k].live = b]
      PROVE  job'[j].state # "failed"
  BY <1>3, LiveTable DEF CatalogInv, Types
<1>4. ASSUME NEW w \in Workers, Claim(w)
      PROVE  job'[j].state # "failed"
  <2>1. PICK k \in Runnable :
          job' = [Cancel(Outdated) EXCEPT ![k] = [@ EXCEPT !.state = "running", !.live = TRUE]]
    BY <1>4 DEF Claim
  <2>2. j # k /\ j \notin Outdated
    BY DEF Runnable, Outdated
  <2>3. Cancel(Outdated)[j] = job[j]
    BY <2>2 DEF Cancel
  <2>4. job'[j] = Cancel(Outdated)[j]
    BY <2>1, <2>2 DEF Cancel
  <2> QED
    BY <2>3, <2>4
<1>5. CASE RebuildImportedData
  <2>1. job[j].lib \in Libraries
    BY Table DEF CatalogInv, Types, JobRow
  <2> QED
    BY <1>5, <2>1 DEF RebuildImportedData, ActiveOf, Active
<1> QED
  BY <1>1, <1>2, <1>3, <1>4, <1>5 DEF Renew, Expire, Extended

\* The supervisor and a thread that leaves fail no job some thread is working on,
\* whatever became of its lease.
LEMMA LiveClaimStep ==
  ASSUME CatalogInv, [CNext]_vars, NEW j \in Jobs, job[j].state = "running",
         job'[j].state = "failed", used' = used
  PROVE  \/ j \notin Registered
         \/ \E w \in Workers : worker[w].job = j /\ worker'[w].pc = "leave"
<1>1. ASSUME NEW w \in Workers, WorkerStep(w)
      PROVE  \/ j \notin Registered
             \/ \E v \in Workers : worker[v].job = j /\ worker'[v].pc = "leave"
  <2>1. CASE NothingThere(w) \/ Finish(w) \/ Fail(w)
    <3>1. PICK s \in {"succeeded", "failed"} : Ended(w, s)
      BY <2>1 DEF NothingThere, Finish, Fail
    <3>2. worker'[w].pc = "leave"
      BY <3>1 DEF Ended, GiveUp, Idle, CatalogInv, Types
    <3>3. j # worker[w].job => job'[j] = job[j]
      BY <3>1 DEF Ended
    <3> QED
      BY <3>2, <3>3
  <2>2. CASE Close(w)
    <3>1. worker[w].pc = "close" /\ Busy(w)
      BY <2>2 DEF Close, At, Busy
    <3>2. j # worker[w].job => job'[j] = job[j]
      BY <2>2 DEF Close, FailJobs
    <3>3. \A v \in Workers : worker[v].pc \notin {"idle", "close"} => worker[v].job # worker[w].job
      BY <3>1 DEF CatalogInv, Owners, Busy
    <3> QED
      BY <3>2, <3>3 DEF Registered
  <2>3. CASE \/ MarkOffline(w) \/ Start(w) \/ Write(w) \/ Progress(w) \/ Activate(w)
    BY <2>3, RunningStays DEF MarkOffline, Start, Write, Progress, Activate
  <2>4. CASE Look(w) \/ WasReady(w) \/ Walk(w) \/ Clean(w) \/ ClaimLost(w) \/ Leave(w) \/ Tell(w)
    BY <2>4 DEF Look, WasReady, Walk, Clean, ClaimLost, Leave, Tell, rows
  <2> QED
    BY <1>1, <2>1, <2>2, <2>3, <2>4 DEF WorkerStep
<1>2. CASE SweepWrite
  <2>1. j \notin sweep.found => job'[j] = job[j]
    BY <1>2 DEF SweepWrite, FailJobs
  <2> QED
    BY <2>1 DEF CatalogInv, SweepApart
<1>3. CASE Restart
  BY <1>3, SpendType DEF Restart, CatalogInv, Types, Events
<1>4. CASE \/ \E f \in Folders : Change(f) \/ Mount(f) \/ DrainDropped(f)
           \/ \E l \in Libraries : MarkDiscovering(l) \/ Configure(l)
           \/ StartWatcher \/ StopWatcher \/ LeaveWatcher
           \/ ScanAll \/ ScanAllBusy \/ ScanAllEnd
           \/ \E w \in Workers : Raise(w)
           \/ SweepRead \/ SweepTell \/ MaintenanceBegins \/ MaintenanceEnds
           \/ UNCHANGED vars
  BY <1>4 DEF Change, Mount, DrainDropped, StartWatcher, StopWatcher, LeaveWatcher, MarkDiscovering,
     Configure, ScanAll, ScanAllBusy, ScanAllEnd,
     Raise, SweepRead, SweepTell, MaintenanceBegins, MaintenanceEnds, rows, vars, world, config, watch
<1>5. CASE \/ Request
           \/ \E l \in Libraries : \E scope \in FoldersOf(l) \cup {All} : Ask(l, scope)
           \/ \E w \in Workers : Claim(w) \/ Renew(w)
           \/ \E k \in Jobs : Expire(k)
           \/ RebuildImportedData
  BY <1>5, RunningStays
<1> QED
  BY <1>1, <1>2, <1>3, <1>4, <1>5 DEF CNext, Request

\* The supervisor fails no job that a worker of this process is working on, even
\* while its lease has lapsed.
THEOREM LiveClaimsAreProtected == CSpec => LiveClaimProtected
<1>1. CatalogInv /\ [CNext]_vars =>
        \A j \in Jobs : (job[j].state = "running" /\ job'[j].state = "failed" /\ used' = used) =>
          \/ j \notin Registered
          \/ \E w \in Workers : worker[w].job = j /\ worker'[w].pc = "leave"
  BY LiveClaimStep
<1> QED
  BY <1>1, CatalogAlways, PTL DEF CSpec, LiveClaimProtected

\* Outside maintenance the catalog changes under a good claim only.
LEMMA FencedWrites ==
  ASSUME [CNext]_vars, cat' # cat, ~maint
  PROVE  \E w \in Workers : /\ worker[w].pc \in {"mark", "write", "activate"}
                           /\ Mine(w).state = "running" /\ Mine(w).live
<1>1. CASE \E w \in Workers : MarkOffline(w) \/ Write(w) \/ Activate(w)
  BY <1>1 DEF MarkOffline, Write, Activate, Fenced, At, Holds
<1>2. CASE \E w \in Workers : \/ Look(w) \/ NothingThere(w) \/ WasReady(w) \/ Start(w) \/ Walk(w)
                              \/ Progress(w) \/ Finish(w) \/ Clean(w) \/ Fail(w) \/ ClaimLost(w)
                              \/ Leave(w) \/ Close(w) \/ Tell(w) \/ Claim(w) \/ Raise(w) \/ Renew(w)
  BY <1>2 DEF Look, NothingThere, WasReady, Start, Walk, Progress, Finish, Clean, Fail, ClaimLost,
     Leave, Close, Tell, Claim, Raise, Renew, rows
<1>3. CASE \/ \E f \in Folders : Change(f) \/ Mount(f) \/ Drain(f) \/ DrainDropped(f)
           \/ \E l \in Libraries : \/ Scheduled(l) \/ Startup(l) \/ MarkDiscovering(l) \/ Configure(l)
                                   \/ \E scope \in FoldersOf(l) \cup {All} : Ask(l, scope)
           \/ StartWatcher \/ StopWatcher \/ LeaveWatcher
           \/ ScanAll \/ ScanAllNext \/ ScanAllBusy \/ ScanAllEnd
  BY <1>3 DEF Change, Mount, Drain, DrainDropped, StartWatcher, StopWatcher, LeaveWatcher, Scheduled, Startup, MarkDiscovering, Configure, Ask,
     ScanAll, ScanAllNext, ScanAllBusy, ScanAllEnd, rows
<1>4. CASE \/ \E j \in Jobs : Expire(j)
           \/ SweepRead \/ SweepWrite \/ SweepTell
           \/ Restart \/ MaintenanceBegins \/ MaintenanceEnds \/ RebuildImportedData
           \/ UNCHANGED vars
  BY <1>4 DEF Expire, SweepRead, SweepWrite, SweepTell, Restart, MaintenanceBegins, MaintenanceEnds,
     RebuildImportedData, rows, vars, world, config, watch
<1> QED
  BY <1>1, <1>2, <1>3, <1>4 DEF CNext, WorkerStep

\* Outside maintenance only the worker whose claim is good changes the catalog.
THEOREM CatalogIsFenced == CSpec => CatalogWritesFenced
<1>1. [CNext]_vars =>
        (cat' # cat /\ ~maint =>
           \E w \in Workers : /\ worker[w].pc \in {"mark", "write", "activate"}
                              /\ Mine(w).state = "running" /\ Mine(w).live)
  BY FencedWrites
<1> QED
  BY <1>1, PTL DEF CSpec, CatalogWritesFenced

-----------------------------------------------------------------------------
(* Completeness.  A library that reports itself ready has a complete        *)
(* catalog, or the work that completes it is on its way.  The argument      *)
(* follows a folder through a job: once a thread has passed it, either what *)
(* it saw is still what is on disk and will be in the catalog when the job  *)
(* succeeds, or a follow-up waits.                                          *)

Good(f) == cat[f] = [ver |-> disk[f].ver, off |-> FALSE]
Works(w) == worker[w].pc \in Working

\* A library reports itself ready, or a thread will say so again after its scan of
\* one folder.
ReadyLike(l) ==
  \/ lib[l].state = "ready"
  \/ \E w \in Workers : Works(w) /\ worker[w].ready /\ Mine(w).lib = l
Accounted == \A f \in Folders : (ReadyLike(LibOf[f]) /\ f \notin lost) => Coming(f) \/ Good(f)

\* Who will still look at a folder.
JobFor(f, state) == \E j \in Jobs : job[j].state = state /\ job[j].lib = LibOf[f] /\ f \in Scope(j)
FollowUp(f) == f \in buffer \/ JobFor(f, "queued")

\* Where a thread is in its list of folders.
Walking == {"walk", "write", "progress", "activate", "finish"}
InHand(w, f) == worker[w].pc = "write" /\ worker[w].seen.folder = f
Shape(w) ==
  LET t == worker[w]
      scope == Scope(t.job)
  IN /\ Works(w) /\ t.pc # "look" => t.todo \subseteq scope
     /\ t.pc = "mark" => t.todo \subseteq t.off
     /\ t.pc \in {"mark", "start"} => t.on \cup t.off = scope
     /\ t.pc = "write" => t.seen.folder \in scope \ t.todo
     /\ t.pc \in {"activate", "finish"} => t.todo = {}
     /\ t.pc = "activate" => Rebuilds(w)
     /\ t.pc \in Walking => \A s \in stage : s.job = t.job => s.folder \notin t.todo /\ ~InHand(w, s.folder)

\* What the thread saw of f is what is on disk, and it is on its way to the catalog.
RowOf(w, f, s) == s.job = worker[w].job /\ s.folder = f
Delivers(w, f) ==
  IF InHand(w, f) THEN worker[w].seen.there /\ worker[w].seen.ver = disk[f].ver
  ELSE IF Rebuilds(w) /\ worker[w].pc # "finish"
  THEN (\E s \in stage : RowOf(w, f, s)) /\ \A s \in stage : RowOf(w, f, s) => s.ver = disk[f].ver
  ELSE Good(f)
Passed(w) ==
  worker[w].pc \in Walking /\ worker[w].off = {} =>
    \A f \in Scope(worker[w].job) \ worker[w].todo : f \in lost \/ FollowUp(f) \/ Delivers(w, f)

CompleteInv == CatalogInv /\ Accounted /\ \A w \in Workers : Shape(w) /\ Passed(w)

-----------------------------------------------------------------------------
(* What a step leaves of the work on a folder.                             *)

\* A folder in the scope of a job is one of its library's, so jobs that run at the
\* same time share none.
LEMMA ScopeFacts ==
  ASSUME CatalogInv, NEW j \in Jobs
  PROVE  /\ \A f \in Scope(j) : f \in Folders /\ LibOf[f] = job[j].lib
         /\ \A i \in Jobs : i # j /\ job[i].state = "running" /\ job[j].state = "running" =>
              job[i].lib # job[j].lib /\ Scope(i) \cap Scope(j) = {}
<1>1. \A i \in Jobs : job[i] \in JobRow /\ \A f \in Scope(i) : f \in Folders /\ LibOf[f] = job[i].lib
  BY Table DEF CatalogInv, Types, JobRow, Scope, FoldersOf, Homes, ScopesOwned, ScopeOK
<1> QED
  BY <1>1 DEF CatalogInv, JobsMatchConfiguration

\* What is outside the tables and the threads includes the disk, the import paths and
\* the requests to come.
LEMMA OutsideStays ==
  ASSUME UNCHANGED outside PROVE UNCHANGED <<disk, paths, buffer, startup>>
BY DEF outside, world, config, watch

\* What Coming(f) names: a folder's notice, its library's startup scan, or a job.
Awaited(f) == FollowUp(f) \/ LibOf[f] \in startup \/ JobFor(f, "running")
\* Coming is Awaited, now and after the step.
LEMMA ComingFrom == \A f : (Coming(f) <=> Awaited(f)) /\ (Coming(f)' <=> Awaited(f)')
BY DEF Coming, Awaited, FollowUp, JobFor, ActiveOf, Active, Jobs

\* Jobs keep what they were asked for, and jobs that wait or run the folders it names.
KeptRows ==
  \A j \in Jobs : /\ j \in Jobs' /\ job'[j].lib = job[j].lib /\ job'[j].type = job[j].type
                  /\ job[j].state \in Active => Scope(j)' = Scope(j)
\* A step of the table keeps what every job was asked for, under one configuration.
LEMMA TableKeepsRows == TableStep /\ paths' = paths => KeptRows
<1> SUFFICES ASSUME TableStep, paths' = paths, NEW j \in Jobs
             PROVE  /\ j \in Jobs' /\ job'[j].lib = job[j].lib /\ job'[j].type = job[j].type
                    /\ Scope(j)' = Scope(j)
  BY DEF KeptRows
<1>1. /\ j \in Jobs' /\ job'[j].lib = job[j].lib /\ job'[j].type = job[j].type
      /\ job'[j].scope = job[j].scope
  BY DEF TableStep, RowStep
<1> QED
  BY <1>1 DEF Scope, FoldersOf, Homes

\* Queued work stays queued; running work stays.
QueueKept == \A j \in Jobs : job[j].state = "queued" => job'[j].state = "queued"
RunsOn == \A j \in Jobs : job[j].state = "running" => job'[j].state = "running"
\* A job for a folder is still one for it, queued or running, after such a step.
LEMMA JobForKept ==
  ASSUME KeptRows, NEW f
  PROVE  /\ QueueKept /\ JobFor(f, "queued") => JobFor(f, "queued")'
         /\ RunsOn /\ JobFor(f, "running") => JobFor(f, "running")'
<1>1. \A j \in Jobs : job[j].state \in Active => ((f \in Scope(j)) => (f \in Scope(j))')
  BY DEF KeptRows
<1>2. ASSUME NEW s \in Active, JobFor(f, s), \A j \in Jobs : job[j].state = s => job'[j].state = s
      PROVE  JobFor(f, s)'
  <2>1. PICK j \in Jobs : job[j].state = s /\ job[j].lib = LibOf[f] /\ f \in Scope(j)
    BY <1>2 DEF JobFor
  <2>2. j \in Jobs' /\ job'[j].state = s /\ job'[j].lib = LibOf[f] /\ (f \in Scope(j))'
    BY <1>1, <1>2, <2>1 DEF KeptRows
  <2> QED
    BY <2>2 DEF JobFor
<1> QED
  BY <1>2 DEF QueueKept, RunsOn, Active

\* A thread another actor's step does not touch.
SameThread(v) ==
  LET n == worker'[v]
      o == worker[v]
  IN n.pc = o.pc /\ n.job = o.job /\ n.on = o.on /\ n.off = o.off /\ n.todo = o.todo
     /\ n.seen = o.seen /\ n.ready = o.ready
\* What that step may do to a folder the thread has passed.
Undisturbed(f) ==
  /\ f \in lost \/ FollowUp(f) => f \in lost' \/ FollowUp(f)'
  /\ (cat'[f] = cat[f] /\ disk'[f].ver = disk[f].ver) \/ f \in lost' \/ FollowUp(f)'
SameStage(j) == \A s \in stage \cup stage' : s.job = j => (s \in stage <=> s \in stage')
\* What a thread passed stays passed while nothing it covers is disturbed.
LEMMA ThreadStays ==
  ASSUME CatalogInv, NEW v \in Workers, Shape(v), Passed(v), SameThread(v), KeptRows,
         Works(v) => /\ \A f \in Scope(worker[v].job) : Undisturbed(f)
                     /\ SameStage(worker[v].job)
  PROVE  Shape(v)' /\ Passed(v)'
<1>1. CASE ~Works(v)
  BY <1>1 DEF Works, Working, Shape, Passed, Walking, SameThread
<1>2. CASE Works(v)
  <2>1. worker[v].job \in Jobs /\ job[worker[v].job].state \in Active
    BY <1>2, ThreadFacts DEF Works, Mine, Active
  <2>2. Scope(worker[v].job)' = Scope(worker[v].job) /\ Rebuilds(v)' = Rebuilds(v)
    <3>1. worker'[v].job = worker[v].job
      BY DEF SameThread
    <3>2. Scope(worker[v].job)' = Scope(worker[v].job)
      BY <2>1, <3>1 DEF KeptRows, Scope
    <3> QED
      BY <2>1, <3>1, <3>2 DEF KeptRows, Rebuilds, Mine
  <2>3. Shape(v)'
    BY <1>2, <2>2 DEF Shape, SameThread, InHand, Works, SameStage
  <2>4. ASSUME NEW f \in Scope(worker[v].job), Delivers(v, f)
        PROVE  Delivers(v, f)' \/ f \in lost' \/ FollowUp(f)'
    <3>1. CASE f \in lost' \/ FollowUp(f)'
      BY <3>1
    <3>2. CASE cat'[f] = cat[f] /\ disk'[f].ver = disk[f].ver
      BY <1>2, <2>2, <2>4, <3>2 DEF Delivers, SameThread, InHand, SameStage, RowOf, Good
    <3> QED
      BY <1>2, <3>1, <3>2 DEF Undisturbed
  <2>5. Passed(v)'
    BY <1>2, <2>2, <2>4 DEF Passed, SameThread, Undisturbed
  <2> QED
    BY <2>3, <2>5
<1> QED
  BY <1>1, <1>2

-----------------------------------------------------------------------------
(* A step of one thread.                                                   *)

\* What the step may change of the catalog, the lost notices and the staging rows.
Reach(w) ==
  /\ \A f \in Folders : \/ cat'[f] = cat[f] /\ (f \in lost => f \in lost')
                        \/ f \in Scope(worker[w].job) /\ Mine(w).state = "running"
  /\ \A s \in stage \cup stage' : s.job # worker[w].job => (s \in stage <=> s \in stage')

\* The other threads do not notice.
LEMMA OthersStay ==
  ASSUME CompleteInv, NEW w \in Workers, Busy(w), \A v \in Workers \ {w} : worker'[v] = worker[v],
         TableStep, QueueKept, UNCHANGED <<disk, paths, buffer>>, Reach(w)
  PROVE  \A v \in Workers \ {w} : Shape(v)' /\ Passed(v)'
<1> SUFFICES ASSUME NEW v \in Workers \ {w} PROVE Shape(v)' /\ Passed(v)'
  OBVIOUS
<1>1. CatalogInv /\ Shape(v) /\ Passed(v) /\ KeptRows /\ SameThread(v)
  BY TableKeepsRows DEF CompleteInv, SameThread
<1>2. ASSUME Works(v)
      PROVE  (\A f \in Scope(worker[v].job) : Undisturbed(f)) /\ SameStage(worker[v].job)
  <2>1. /\ worker[v].job \in Jobs /\ worker[w].job \in Jobs /\ worker[v].job # worker[w].job
        /\ job[worker[v].job].state = "running"
    BY <1>1, <1>2, ThreadFacts DEF CatalogInv, Owners, Works, Mine
  <2>2. ASSUME NEW f \in Scope(worker[v].job) PROVE Undisturbed(f)
    <3>1. f \in Folders /\ ~(f \in Scope(worker[w].job) /\ Mine(w).state = "running")
      BY <1>1, <2>1, ScopeFacts DEF Mine
    <3>2. FollowUp(f) => FollowUp(f)'
      BY <1>1, JobForKept DEF FollowUp
    <3> QED
      BY <3>1, <3>2 DEF Undisturbed, Reach
  <2>3. SameStage(worker[v].job)
    BY <2>1 DEF Reach, SameStage
  <2> QED
    BY <2>2, <2>3
<1> QED
  BY <1>1, <1>2, ThreadStays

\* Readiness is not gained.
NotReadier ==
  /\ \A l \in Libraries : lib'[l].state = "ready" => lib[l].state = "ready"
  /\ \A v \in Workers : Works(v)' /\ worker'[v].ready =>
       Works(v) /\ worker'[v].job = worker[v].job /\ ReadyLike(Mine(v).lib)
\* A library that looks ready after the step did before, when no thread said so.
LEMMA ReadyBefore ==
  ASSUME CatalogInv, KeptRows, NotReadier, NEW l \in Libraries, ReadyLike(l)'
  PROVE  ReadyLike(l)
<1>1. ASSUME NEW v \in Workers, Works(v)', worker'[v].ready, Mine(v)'.lib = l
      PROVE  ReadyLike(l)
  <2>1. Works(v) /\ worker'[v].job = worker[v].job /\ ReadyLike(Mine(v).lib) /\ worker[v].job \in Jobs
    BY <1>1, ThreadFacts DEF NotReadier, Works
  <2>2. Mine(v).lib = l
    BY <1>1, <2>1 DEF KeptRows, Mine
  <2> QED
    BY <2>1, <2>2
<1> QED
  BY <1>1 DEF ReadyLike, NotReadier

\* Work that was coming still is, and what else was good stays so.
LEMMA AccountedStays ==
  ASSUME CatalogInv, Accounted, KeptRows, QueueKept, RunsOn, NotReadier,
         buffer \subseteq buffer', startup \subseteq startup',
         \A f \in Folders : \/ cat'[f] = cat[f] /\ disk'[f].ver = disk[f].ver /\ (f \in lost => f \in lost')
                            \/ Awaited(f)'
  PROVE  Accounted'
<1> SUFFICES ASSUME NEW f \in Folders, ReadyLike(LibOf[f])', f \notin lost'
             PROVE  Coming(f)' \/ Good(f)'
  BY DEF Accounted
<1>1. ReadyLike(LibOf[f])
  BY ReadyBefore, CatalogAssumption
<1>2. Awaited(f) => Awaited(f)'
  BY JobForKept DEF Awaited, FollowUp
<1>3. CASE Awaited(f)'
  BY <1>3, ComingFrom
<1>4. CASE ~Awaited(f)'
  <2>1. f \notin lost /\ cat'[f] = cat[f] /\ disk'[f].ver = disk[f].ver
    BY <1>4
  <2>2. Good(f)
    BY <1>1, <1>2, <1>4, <2>1, ComingFrom DEF Accounted
  <2> QED
    BY <2>1, <2>2 DEF Good
<1> QED
  BY <1>3, <1>4

\* So a thread that goes on with its work, or leaves it, keeps the invariant if it
\* keeps its own part of it.
LEMMA WorkStep ==
  ASSUME CompleteInv, CatalogInv', NEW w \in Workers, Busy(w),
         \A v \in Workers \ {w} : worker'[v] = worker[v],
         Works(w)' => /\ Works(w) /\ worker'[w].job = worker[w].job
                      /\ worker'[w].ready => ReadyLike(Mine(w).lib),
         TableStep, QueueKept, RunsOn, UNCHANGED <<disk, paths, buffer, startup>>, Reach(w),
         \A l \in Libraries : lib'[l].state = "ready" => lib[l].state = "ready",
         Shape(w)', Passed(w)'
  PROVE  CompleteInv'
<1>1. CatalogInv /\ Accounted /\ KeptRows
  BY TableKeepsRows DEF CompleteInv
<1>2. NotReadier
  BY <1>1 DEF NotReadier, ReadyLike, Works
<1>3. ASSUME NEW f \in Folders, f \in Scope(worker[w].job), Mine(w).state = "running"
      PROVE  Awaited(f)'
  <2>1. worker[w].job \in Jobs /\ Mine(w).lib = LibOf[f]
    BY <1>1, <1>3, ThreadFacts, ScopeFacts DEF Mine
  <2>2. JobFor(f, "running")
    BY <1>3, <2>1 DEF JobFor, Mine
  <2> QED
    BY <1>1, <2>2, JobForKept DEF Awaited
<1>4. Accounted'
  BY <1>1, <1>2, <1>3, AccountedStays DEF Reach
<1>5. \A v \in Workers : Shape(v)' /\ Passed(v)'
  BY OthersStay
<1> QED
  BY <1>4, <1>5 DEF CompleteInv

-----------------------------------------------------------------------------
(* What each step of a thread makes of its own list.                       *)

\* The claim of a job is extended, or the table stays.
LEMMA ClaimsOnly ==
  ASSUME CatalogInv, NEW w \in Workers, paths' = paths, job' = job \/ job' = Extended(w)
  PROVE  TableStep /\ KeptRows /\ QueueKept /\ RunsOn /\ \A j \in Jobs : job'[j].state = job[j].state
<1>1. job' = job => TableStep /\ Jobs' = Jobs
  BY SameTable
<1>2. job' = Extended(w) => TableStep /\ \A j \in Jobs : job'[j].state = job[j].state
  BY LiveTable DEF Extended, CatalogInv, Types
<1> QED
  BY <1>1, <1>2, TableKeepsRows DEF QueueKept, RunsOn

\* The scope of the job a thread goes on with.
LEMMA ScopeStays ==
  ASSUME CatalogInv, NEW w \in Workers, Busy(w), worker'[w].job = worker[w].job, TableStep, paths' = paths
  PROVE  /\ Scope(worker[w].job)' = Scope(worker[w].job) /\ Rebuilds(w)' = Rebuilds(w)
         /\ worker[w].job \in Jobs
<1>1. worker[w].job \in Jobs
  BY ThreadFacts
<1> QED
  BY <1>1 DEF Scope, FoldersOf, Homes, TableStep, RowStep, Rebuilds, Mine

\* A thread that has given up its work has nothing in hand.
LEMMA GaveUp ==
  ASSUME NEW w \in Workers, \/ worker'[w].pc \in {"idle", "leave", "close"}
                            \/ worker'[w].pc \in {"clean", "fail"} /\ worker'[w].todo = {}
  PROVE  Shape(w)' /\ Passed(w)'
BY DEF Shape, Passed, Works, Working, Walking

\* Steps that change no table: only the thread's own list has to be looked at.
LEMMA PrivateWork ==
  ASSUME CompleteInv, CatalogInv', NEW w \in Workers, Busy(w),
         NEW t, worker' = [worker EXCEPT ![w] = t],
         Works(w)' => /\ Works(w) /\ worker'[w].job = worker[w].job
                      /\ worker'[w].ready => ReadyLike(Mine(w).lib),
         UNCHANGED <<outside, rows>>,
         \A f \in Folders : \/ f \in lost => f \in lost'
                            \/ f \in Scope(worker[w].job) /\ Mine(w).state = "running",
         Shape(w)', Passed(w)'
  PROVE  CompleteInv'
<1>1. \A v \in Workers \ {w} : worker'[v] = worker[v]
  BY DEF CompleteInv, CatalogInv, Types
<1>2. TableStep /\ QueueKept /\ RunsOn
  BY ClaimsOnly, OutsideStays DEF rows, CompleteInv
<1>3. Reach(w)
  BY DEF Reach, rows
<1> QED
  BY <1>1, <1>2, <1>3, WorkStep DEF outside, world, config, watch, rows

\* A thread that looked at its folders has those of its scope ahead.
LEMMA LookCompletes ==
  ASSUME CompleteInv, NEW w \in Workers, Look(w)
  PROVE  CompleteInv'
<1> DEFINE scope == Scope(worker[w].job)
           on == {f \in scope : disk[f].there}
           off == scope \ on
           t == [worker[w] EXCEPT !.on = on, !.off = off, !.todo = IF Rebuilds(w) THEN {} ELSE off,
                                  !.pc = "mark"]
<1>1. CatalogInv /\ worker[w] \in Thread /\ worker[w].pc = "look" /\ Busy(w)
  BY ThreadFacts DEF CompleteInv, Look, At, Busy
<1>2. worker' = [worker EXCEPT ![w] = t] /\ UNCHANGED <<outside, rows, lost>> /\ job' = job
  BY DEF Look, rows
<1>3. /\ worker'[w].pc = "mark" /\ worker'[w].job = worker[w].job /\ worker'[w].ready = worker[w].ready
      /\ worker'[w].on = on /\ worker'[w].off = off /\ worker'[w].todo \subseteq off
  BY <1>1, <1>2 DEF Thread, CatalogInv, Types
<1>4. CatalogInv' /\ KeptRows /\ TableStep /\ paths' = paths
  BY <1>1, <1>2, LookKeeps, ClaimsOnly, OutsideStays
<1>5. Scope(worker[w].job)' = scope
  BY <1>1, <1>3, <1>4, ScopeStays
<1>6. Shape(w)' /\ Passed(w)'
  BY <1>3, <1>5 DEF Shape, Passed, Walking
<1>7. worker'[w].ready => ReadyLike(Mine(w).lib)
  BY <1>1, <1>3 DEF ReadyLike, Works, Working
<1> HIDE DEF t
<1> QED
  BY <1>1, <1>2, <1>3, <1>4, <1>6, <1>7, PrivateWork DEF Works, Working

\* The thread that remembers its library as ready took it from the table.
LEMMA WasReadyCompletes ==
  ASSUME CompleteInv, NEW w \in Workers, WasReady(w)
  PROVE  CompleteInv'
<1> DEFINE ready == lib[Mine(w).lib].state = "ready"
           t == [worker[w] EXCEPT !.ready = ready, !.pc = "start"]
<1>1. CatalogInv /\ worker[w] \in Thread /\ worker[w].pc = "mark" /\ Busy(w) /\ worker[w].todo = {}
  BY ThreadFacts DEF CompleteInv, WasReady, At, Busy
<1>2. worker' = [worker EXCEPT ![w] = t] /\ UNCHANGED <<outside, rows, lost>> /\ job' = job
  BY DEF WasReady, rows
<1>3. /\ worker'[w].pc = "start" /\ worker'[w].job = worker[w].job /\ worker'[w].ready = ready
      /\ worker'[w].on = worker[w].on /\ worker'[w].off = worker[w].off /\ worker'[w].todo = {}
  BY <1>1, <1>2 DEF Thread, CatalogInv, Types
<1>4. CatalogInv' /\ KeptRows /\ TableStep /\ paths' = paths
  BY <1>1, <1>2, WasReadyKeeps, ClaimsOnly, OutsideStays
<1>5. Scope(worker[w].job)' = Scope(worker[w].job)
  BY <1>1, <1>3, <1>4, ScopeStays
<1>6. Shape(w)' /\ Passed(w)'
  BY <1>1, <1>3, <1>5 DEF CompleteInv, Shape, Passed, Walking
<1>7. worker'[w].ready => ReadyLike(Mine(w).lib)
  BY <1>3 DEF ReadyLike
<1> HIDE DEF t
<1> QED
  BY <1>1, <1>2, <1>3, <1>4, <1>6, <1>7, PrivateWork DEF Works, Working

\* A walk takes the folder in hand with what it found, or gives its notice up.
LEMMA WalkCompletes ==
  ASSUME CompleteInv, NEW w \in Workers, Walk(w)
  PROVE  CompleteInv'
<1> DEFINE f == NextOf(worker[w].todo)
           t(seen) == [worker[w] EXCEPT !.seen = seen, !.todo = worker[w].todo \ {f}, !.pc = "write"]
<1>1. /\ CatalogInv /\ worker[w] \in Thread /\ worker[w].pc = "walk" /\ Busy(w) /\ worker[w].todo # {}
      /\ Mine(w).state = "running"
  BY ThreadFacts DEF CompleteInv, CatalogInv, Owners, ThreadOK, Walk, At, Busy, Working
<1>2. f \in worker[w].todo /\ worker[w].todo \subseteq Scope(worker[w].job)
  BY <1>1 DEF NextOf, CompleteInv, Shape, Works, Working
<1>3. PICK readable \in BOOLEAN :
        /\ lost' = IF readable THEN lost \ {f} ELSE lost \cup {f}
        /\ worker' = [worker EXCEPT ![w] = t(Found(f, readable))]
  BY ZenonT(60) DEF Walk
<1>4. UNCHANGED <<outside, rows>> /\ job' = job /\ stage' = stage /\ cat' = cat /\ disk' = disk /\ buffer' = buffer
  BY DEF Walk, rows, outside, world, config, watch
<1>5. /\ worker'[w].pc = "write" /\ worker'[w].job = worker[w].job /\ worker'[w].ready = worker[w].ready
      /\ worker'[w].on = worker[w].on /\ worker'[w].off = worker[w].off
      /\ worker'[w].todo = worker[w].todo \ {f} /\ worker'[w].seen = Found(f, readable)
  BY <1>1, <1>3 DEF Thread, CatalogInv, Types
<1>6. CatalogInv' /\ KeptRows /\ QueueKept /\ TableStep /\ paths' = paths
  BY <1>1, <1>4, WalkKeeps, ClaimsOnly, OutsideStays
<1>7. Scope(worker[w].job)' = Scope(worker[w].job) /\ Rebuilds(w)' = Rebuilds(w)
  BY <1>1, <1>5, <1>6, ScopeStays
<1> HIDE DEF f
<1>8. Shape(w)'
  <2>1. \A s \in stage : s.job = worker[w].job => s.folder \notin worker[w].todo
    BY <1>1 DEF CompleteInv, Shape, Walking
  <2>2. worker'[w].seen.folder = f
    BY <1>5 DEF Found
  <2> QED
    BY <1>2, <1>4, <1>5, <1>7, <2>1, <2>2 DEF Shape, InHand
<1>9. Passed(w)'
  <2> SUFFICES ASSUME worker[w].off = {}, NEW g \in Scope(worker[w].job), g \notin worker[w].todo \ {f}
               PROVE  g \in lost' \/ FollowUp(g)' \/ Delivers(w, g)'
    BY <1>5, <1>7 DEF Passed
  <2>1. CASE g = f
    <3>1. readable => Delivers(w, g)'
      BY <1>4, <1>5, <2>1 DEF Delivers, InHand, Found
    <3> QED
      BY <1>3, <2>1, <3>1
  <2>2. CASE g # f
    <3>1. g \in lost \/ FollowUp(g) \/ Delivers(w, g)
      BY <1>1, <2>2 DEF CompleteInv, Passed, Walking
    <3>2. FollowUp(g) => FollowUp(g)'
      BY <1>4, <1>6, JobForKept DEF FollowUp
    <3>3. ~InHand(w, g) /\ ~InHand(w, g)'
      BY <1>1, <1>5, <2>2 DEF InHand, Found
    <3>4. Delivers(w, g) => Delivers(w, g)'
      BY <1>1, <1>4, <1>5, <1>7, <3>3 DEF Delivers, RowOf, Good
    <3> QED
      BY <1>3, <2>2, <3>1, <3>2, <3>4
  <2> QED
    BY <2>1, <2>2
<1>10. worker'[w].ready => ReadyLike(Mine(w).lib)
  BY <1>1, <1>5 DEF ReadyLike, Works, Working
<1>11. \A g \in Folders : \/ g \in lost => g \in lost'
                          \/ g \in Scope(worker[w].job) /\ Mine(w).state = "running"
  BY <1>1, <1>2, <1>3
<1> HIDE DEF t
<1> QED
  BY <1>1, <1>3, <1>4, <1>5, <1>6, <1>8, <1>9, <1>10, <1>11, PrivateWork DEF Works, Working

\* A write under the claim.
LEMMA FencedWork ==
  ASSUME CompleteInv, CatalogInv', NEW w \in Workers, NEW pc \in Working, Fenced(w, pc),
         NEW t, worker' = [worker EXCEPT ![w] = t], t.pc \in Working, t.job = worker[w].job,
         t.ready = worker[w].ready, job' = Extended(w),
         UNCHANGED <<outside, lost>>,
         \A l \in Libraries : lib'[l].state = "ready" => lib[l].state = "ready",
         \A f \in Folders : cat'[f] = cat[f] \/ f \in Scope(worker[w].job),
         \A s \in stage \cup stage' : s.job # worker[w].job => (s \in stage <=> s \in stage'),
         Shape(w)', Passed(w)'
  PROVE  CompleteInv'
<1>1. CatalogInv /\ worker[w].pc = pc /\ Busy(w) /\ Works(w) /\ Mine(w).state = "running"
  BY ThreadFacts DEF CompleteInv, Fenced, At, Works
<1>2. worker'[w] = t /\ \A v \in Workers \ {w} : worker'[v] = worker[v]
  BY <1>1 DEF CatalogInv, Types
<1>3. TableStep /\ QueueKept /\ RunsOn
  BY <1>1, ClaimsOnly, OutsideStays
<1>4. Reach(w)
  BY <1>1 DEF Reach
<1>5. worker'[w].ready => ReadyLike(Mine(w).lib)
  BY <1>1, <1>2 DEF ReadyLike
<1> QED
  BY <1>1, <1>2, <1>3, <1>4, <1>5, WorkStep DEF outside, world, config, watch

\* A folder marked offline was not there, or a notice of it follows.
LEMMA MarkOfflineCompletes ==
  ASSUME CompleteInv, NEW w \in Workers, MarkOffline(w)
  PROVE  CompleteInv'
<1> DEFINE f == NextOf(worker[w].todo)
           t == [worker[w] EXCEPT !.todo = worker[w].todo \ {f}]
<1>1. CatalogInv /\ worker[w] \in Thread /\ worker[w].pc = "mark" /\ Busy(w) /\ Fenced(w, "mark")
  BY ThreadFacts DEF CompleteInv, MarkOffline, Fenced, At, Busy
<1>2. f \in worker[w].todo /\ worker[w].todo \subseteq Scope(worker[w].job)
  BY <1>1 DEF MarkOffline, NextOf, CompleteInv, Shape, Works, Working
<1>3. /\ worker' = [worker EXCEPT ![w] = t] /\ job' = Extended(w)
      /\ UNCHANGED <<outside, lib, stage, lost>>
      /\ \A g \in Folders : cat'[g] = cat[g] \/ g = f
  BY DEF MarkOffline, CompleteInv, CatalogInv, Types
<1>4. /\ t.pc = "mark" /\ t.job = worker[w].job /\ t.ready = worker[w].ready
      /\ t.on = worker[w].on /\ t.off = worker[w].off /\ t.todo = worker[w].todo \ {f}
      /\ worker'[w] = t
  BY <1>1, <1>3 DEF Thread, CatalogInv, Types
<1> HIDE DEF t, f
<1>5. CatalogInv' /\ KeptRows /\ TableStep /\ paths' = paths
  BY <1>1, <1>3, MarkOfflineKeeps, ClaimsOnly, OutsideStays
<1>6. Scope(worker[w].job)' = Scope(worker[w].job)
  BY <1>1, <1>4, <1>5, ScopeStays
<1>7. Shape(w)' /\ Passed(w)'
  BY <1>1, <1>2, <1>4, <1>6 DEF CompleteInv, Shape, Passed, Walking
<1>8. /\ \A l \in Libraries : lib'[l].state = "ready" => lib[l].state = "ready"
      /\ \A g \in Folders : cat'[g] = cat[g] \/ g \in Scope(worker[w].job)
      /\ \A s \in stage \cup stage' : s.job # worker[w].job => (s \in stage <=> s \in stage')
      /\ t.pc \in Working /\ "mark" \in Working
  BY <1>2, <1>3, <1>4 DEF Working
<1> QED
  BY <1>1, <1>3, <1>4, <1>5, <1>7, <1>8, FencedWork

\* The start of the walk has every folder that is there ahead.
LEMMA StartCompletes ==
  ASSUME CompleteInv, NEW w \in Workers, Start(w)
  PROVE  CompleteInv'
<1> DEFINE tell == Mine(w).tracked
           t == [worker[w] EXCEPT !.todo = worker[w].on, !.pc = "walk", !.tell = tell]
<1>1. /\ CatalogInv /\ worker[w] \in Thread /\ worker[w].pc = "start" /\ Busy(w) /\ Fenced(w, "start")
      /\ \A s \in stage : s.job # worker[w].job
  BY ThreadFacts DEF CompleteInv, Start, Fenced, At, Busy, Clear
<1>2. worker[w].on \cup worker[w].off = Scope(worker[w].job)
  BY <1>1 DEF CompleteInv, Shape
<1>3. /\ worker' = [worker EXCEPT ![w] = t] /\ job' = Extended(w)
      /\ UNCHANGED <<outside, cat, stage, lost>>
  BY DEF Start
<1>4. \A l \in Libraries : lib'[l].state = "ready" => lib[l].state = "ready"
  BY DEF Start, LibraryBecomes, CompleteInv, CatalogInv, Types, LibRow
<1> HIDE DEF tell
<1>5. /\ t.pc = "walk" /\ t.job = worker[w].job /\ t.ready = worker[w].ready
      /\ t.off = worker[w].off /\ t.todo = worker[w].on
      /\ worker'[w] = t
  BY <1>1, <1>3 DEF Thread, CatalogInv, Types
<1> HIDE DEF t
<1>6. CatalogInv' /\ KeptRows /\ TableStep /\ paths' = paths
  BY <1>1, <1>3, StartKeeps, ClaimsOnly, OutsideStays
<1>7. Scope(worker[w].job)' = Scope(worker[w].job)
  BY <1>1, <1>5, <1>6, ScopeStays
<1>8. Shape(w)' /\ Passed(w)'
  BY <1>1, <1>2, <1>3, <1>5, <1>7 DEF Shape, Passed, Walking
<1>9. /\ \A g \in Folders : cat'[g] = cat[g] \/ g \in Scope(worker[w].job)
      /\ \A s \in stage \cup stage' : s.job # worker[w].job => (s \in stage <=> s \in stage')
      /\ t.pc \in Working /\ "start" \in Working
  BY <1>3, <1>5 DEF Working
<1> QED
  BY <1>1, <1>3, <1>4, <1>5, <1>6, <1>8, <1>9, FencedWork

\* What was found goes into the catalog, or is staged.
LEMMA WriteCompletes ==
  ASSUME CompleteInv, NEW w \in Workers, Write(w)
  PROVE  CompleteInv'
<1> DEFINE seen == worker[w].seen
           f == seen.folder
           pc == IF Rebuilds(w) /\ worker[w].todo # {} THEN "walk" ELSE "progress"
           t == [worker[w] EXCEPT !.seen = Nothing, !.pc = pc]
           row == [job |-> worker[w].job, folder |-> f, ver |-> seen.ver]
           asset == IF seen.there THEN [ver |-> seen.ver, off |-> FALSE] ELSE [cat[f] EXCEPT !.off = TRUE]
<1>1. CatalogInv /\ worker[w] \in Thread /\ worker[w].pc = "write" /\ Busy(w) /\ Fenced(w, "write")
  BY ThreadFacts DEF CompleteInv, Write, Fenced, At, Busy
<1>2. /\ f \in Scope(worker[w].job) \ worker[w].todo /\ worker[w].todo \subseteq Scope(worker[w].job)
      /\ \A s \in stage : s.job = worker[w].job => s.folder \notin worker[w].todo /\ s.folder # f
  BY <1>1 DEF CompleteInv, Shape, Works, Working, Walking, InHand
<1>3. /\ worker' = [worker EXCEPT ![w] = t] /\ job' = Extended(w)
      /\ UNCHANGED <<outside, lib, lost>>
  BY DEF Write
<1>4. /\ Rebuilds(w) => cat' = cat /\ stage' = IF seen.there THEN stage \cup {row} ELSE stage
      /\ ~Rebuilds(w) => cat' = [cat EXCEPT ![f] = asset] /\ stage' = stage
  BY DEF Write, Staged
<1>5. f \in Folders /\ Scope(worker[w].job) \subseteq Folders
  BY <1>1, <1>2, ThreadFacts
<1>6. /\ \A g \in Folders \ {f} : cat'[g] = cat[g]
      /\ ~Rebuilds(w) => cat'[f] = asset
  BY <1>1, <1>4, <1>5 DEF CatalogInv, Types
<1>7. /\ t.pc = pc /\ t.job = worker[w].job /\ t.ready = worker[w].ready
      /\ t.off = worker[w].off /\ t.todo = worker[w].todo
      /\ worker'[w] = t
  BY <1>1, <1>3 DEF Thread, CatalogInv, Types
<1>8. t.pc \in {"walk", "progress"}
  BY <1>7
<1> HIDE DEF t, pc
<1>9. CatalogInv' /\ KeptRows /\ QueueKept /\ TableStep /\ paths' = paths
  BY <1>1, <1>3, WriteKeeps, ClaimsOnly, OutsideStays
<1>10. Scope(worker[w].job)' = Scope(worker[w].job) /\ Rebuilds(w)' = Rebuilds(w)
  BY <1>1, <1>7, <1>9, ScopeStays
<1>11. \A s \in stage' : s \in stage \/ (s = row /\ Rebuilds(w) /\ seen.there)
  BY <1>4
<1>12. Shape(w)'
  <2>1. \A s \in stage' : s.job = worker[w].job => s.folder \notin worker[w].todo
    BY <1>2, <1>11
  <2> QED
    BY <1>2, <1>7, <1>8, <1>10, <2>1 DEF Shape, InHand
<1>13. Passed(w)'
  <2> SUFFICES ASSUME worker[w].off = {}, NEW g \in Scope(worker[w].job) \ worker[w].todo
               PROVE  g \in lost' \/ FollowUp(g)' \/ Delivers(w, g)'
    BY <1>7, <1>10 DEF Passed
  <2>1. g \in lost \/ FollowUp(g) \/ Delivers(w, g)
    BY <1>1 DEF CompleteInv, Passed, Walking
  <2>2. FollowUp(g) => FollowUp(g)'
    BY <1>3, <1>9, JobForKept DEF FollowUp, outside, world, config, watch
  <2>3. ~InHand(w, g)' /\ disk'[g].ver = disk[g].ver
    BY <1>3, <1>7, <1>8 DEF InHand, outside, world, config, watch
  <2>4. ASSUME g = f, Delivers(w, g) PROVE Delivers(w, g)'
    <3>1. seen.there /\ seen.ver = disk[f].ver
      BY <1>1, <2>4 DEF Delivers, InHand
    <3>2. CASE Rebuilds(w)
      <4>1. row \in stage' /\ \A s \in stage' : s.job = worker[w].job /\ s.folder = f => s = row
        BY <1>2, <1>4, <1>11, <3>1, <3>2
      <4>2. row.ver = disk[f].ver /\ row.job = worker[w].job /\ row.folder = f
        BY <3>1
      <4> HIDE DEF row, f
      <4> QED
        BY <1>7, <1>8, <1>10, <2>3, <2>4, <3>2, <4>1, <4>2 DEF Delivers, RowOf
    <3>3. CASE ~Rebuilds(w)
      BY <1>6, <1>10, <2>3, <2>4, <3>1, <3>3 DEF Delivers, Good
    <3> QED
      BY <3>2, <3>3
  <2>5. ASSUME g # f, Delivers(w, g) PROVE Delivers(w, g)'
    <3>1. ~InHand(w, g) /\ cat'[g] = cat[g]
      BY <1>5, <1>6, <2>5 DEF InHand
    <3>2. \A s \in stage \cup stage' : s.folder = g => (s \in stage <=> s \in stage')
      BY <1>4, <2>5
    <3> QED
      BY <1>1, <1>7, <1>8, <1>10, <2>3, <2>5, <3>1, <3>2 DEF Delivers, RowOf, Good
  <2> QED
    BY <1>3, <2>1, <2>2, <2>4, <2>5
<1>14. /\ \A l \in Libraries : lib'[l].state = "ready" => lib[l].state = "ready"
       /\ \A g \in Folders : cat'[g] = cat[g] \/ g \in Scope(worker[w].job)
       /\ \A s \in stage \cup stage' : s.job # worker[w].job => (s \in stage <=> s \in stage')
       /\ t.pc \in Working /\ "write" \in Working
  <2>1. row.job = worker[w].job
    OBVIOUS
  <2> HIDE DEF row
  <2> QED
    BY <1>2, <1>3, <1>4, <1>6, <1>8, <2>1 DEF Working
<1> QED
  BY <1>1, <1>3, <1>7, <1>9, <1>12, <1>13, <1>14, FencedWork

\* A folder reported as done was written, and stays accounted for.
LEMMA ProgressCompletes ==
  ASSUME CompleteInv, NEW w \in Workers, Progress(w)
  PROVE  CompleteInv'
<1> DEFINE tell == Mine(w).tracked
           pc == IF worker[w].todo # {} THEN "walk" ELSE IF Rebuilds(w) THEN "activate" ELSE "finish"
           t == [worker[w] EXCEPT !.tell = tell, !.pc = pc]
<1>1. CatalogInv /\ worker[w] \in Thread /\ worker[w].pc = "progress" /\ Busy(w) /\ Fenced(w, "progress")
  BY ThreadFacts DEF CompleteInv, Progress, Fenced, At, Busy
<1>2. /\ worker' = [worker EXCEPT ![w] = t] /\ job' = Extended(w)
      /\ UNCHANGED <<outside, cat, lib, stage, lost>>
  BY DEF Progress
<1>3. /\ pc \in {"walk", "activate", "finish"} /\ (pc = "activate" => Rebuilds(w))
      /\ pc = "finish" => ~Rebuilds(w)
      /\ pc # "walk" => worker[w].todo = {}
  <2>1. CASE worker[w].todo # {}
    BY <2>1
  <2>2. CASE worker[w].todo = {} /\ Rebuilds(w)
    BY <2>2
  <2>3. CASE worker[w].todo = {} /\ ~Rebuilds(w)
    BY <2>3
  <2> QED
    BY <2>1, <2>2, <2>3
<1> HIDE DEF tell, pc
<1>4. /\ t.pc = pc /\ t.job = worker[w].job /\ t.ready = worker[w].ready
      /\ t.off = worker[w].off /\ t.todo = worker[w].todo
      /\ worker'[w] = t
  BY <1>1, <1>2 DEF Thread, CatalogInv, Types
<1> HIDE DEF t
<1>5. CatalogInv' /\ KeptRows /\ QueueKept /\ TableStep /\ paths' = paths
  BY <1>1, <1>2, ProgressKeeps, ClaimsOnly, OutsideStays
<1>6. Scope(worker[w].job)' = Scope(worker[w].job) /\ Rebuilds(w)' = Rebuilds(w)
  BY <1>1, <1>4, <1>5, ScopeStays
<1>7. Shape(w)'
  <2>1. /\ worker[w].todo \subseteq Scope(worker[w].job)
        /\ \A s \in stage : s.job = worker[w].job => s.folder \notin worker[w].todo
    BY <1>1 DEF CompleteInv, Shape, Works, Working, Walking
  <2> QED
    BY <1>2, <1>3, <1>4, <1>6, <2>1 DEF Shape, InHand
<1>8. Passed(w)'
  <2> SUFFICES ASSUME worker[w].off = {}, NEW g \in Scope(worker[w].job) \ worker[w].todo
               PROVE  g \in lost' \/ FollowUp(g)' \/ Delivers(w, g)'
    BY <1>4, <1>6 DEF Passed
  <2>1. g \in lost \/ FollowUp(g) \/ Delivers(w, g)
    BY <1>1 DEF CompleteInv, Passed, Walking
  <2>2. FollowUp(g) => FollowUp(g)'
    BY <1>2, <1>5, JobForKept DEF FollowUp, outside, world, config, watch
  <2>3. Delivers(w, g) => Delivers(w, g)'
    BY <1>1, <1>2, <1>3, <1>4, <1>6 DEF Delivers, InHand, RowOf, Good, outside, world, config, watch
  <2> QED
    BY <1>2, <2>1, <2>2, <2>3
<1>9. /\ \A l \in Libraries : lib'[l].state = "ready" => lib[l].state = "ready"
      /\ \A g \in Folders : cat'[g] = cat[g] \/ g \in Scope(worker[w].job)
      /\ \A s \in stage \cup stage' : s.job # worker[w].job => (s \in stage <=> s \in stage')
      /\ t.pc \in Working /\ "progress" \in Working
  BY <1>2, <1>3, <1>4 DEF Working
<1> QED
  BY <1>1, <1>2, <1>4, <1>5, <1>7, <1>8, <1>9, FencedWork

\* The staged versions become the catalog's.
LEMMA ActivateCompletes ==
  ASSUME CompleteInv, NEW w \in Workers, Activate(w)
  PROVE  CompleteInv'
<1> DEFINE j == worker[w].job
           t == [worker[w] EXCEPT !.pc = "finish"]
           Of(f) == {s \in StagedBy(j) : s.folder = f}
           new(f) == [ver |-> (CHOOSE s \in Of(f) : TRUE).ver, off |-> FALSE]
<1>1. CatalogInv /\ worker[w] \in Thread /\ worker[w].pc = "activate" /\ Busy(w) /\ Fenced(w, "activate")
  BY ThreadFacts DEF CompleteInv, Activate, Fenced, At, Busy
<1>2. worker[w].todo = {} /\ Rebuilds(w) /\ Scope(j) \subseteq Folders
  BY <1>1, ThreadFacts DEF CompleteInv, Shape
<1>3. /\ worker' = [worker EXCEPT ![w] = t] /\ job' = Extended(w)
      /\ UNCHANGED <<outside, lib, lost>> /\ stage' = Unstaged({j})
  BY DEF Activate, Goto
<1>4. cat' = [f \in Folders |->
          IF f \notin Scope(j) THEN cat[f]
          ELSE IF Of(f) = {} THEN [cat[f] EXCEPT !.off = TRUE] ELSE new(f)]
  BY DEF Activate
<1>5. ASSUME NEW f \in Folders, Of(f) # {}
      PROVE  \E s \in stage : s.job = j /\ s.folder = f /\ new(f) = [ver |-> s.ver, off |-> FALSE]
  <2>1. PICK s \in Of(f) : s = CHOOSE r \in Of(f) : TRUE
    BY <1>5
  <2> QED
    BY <2>1 DEF StagedBy
<1>6. \A f \in Folders : Of(f) = {} => \A s \in stage : ~(s.job = j /\ s.folder = f)
  BY DEF StagedBy
<1> HIDE DEF new, Of
<1>7. /\ t.pc = "finish" /\ t.job = j /\ t.ready = worker[w].ready
      /\ t.off = worker[w].off /\ t.todo = {} /\ worker'[w] = t
  BY <1>1, <1>2, <1>3 DEF Thread, CatalogInv, Types
<1> HIDE DEF t
<1>8. CatalogInv' /\ KeptRows /\ QueueKept /\ TableStep /\ paths' = paths
  BY <1>1, <1>3, ActivateKeeps, ClaimsOnly, OutsideStays
<1>9. Scope(j)' = Scope(j) /\ Rebuilds(w)' = Rebuilds(w)
  BY <1>1, <1>7, <1>8, ScopeStays
<1>10. \A s \in stage' : s.job # j
  BY <1>3 DEF Unstaged
<1>11. Shape(w)'
  BY <1>7, <1>10 DEF Shape
<1>12. Passed(w)'
  <2> SUFFICES ASSUME worker[w].off = {}, NEW g \in Scope(j)
               PROVE  g \in lost' \/ FollowUp(g)' \/ Delivers(w, g)'
    BY <1>7, <1>9 DEF Passed
  <2>1. g \in lost \/ FollowUp(g) \/ Delivers(w, g)
    BY <1>1, <1>2 DEF CompleteInv, Passed, Walking
  <2>2. FollowUp(g) => FollowUp(g)'
    BY <1>3, <1>8, JobForKept DEF FollowUp, outside, world, config, watch
  <2>3. ASSUME Delivers(w, g) PROVE Delivers(w, g)'
    <3>1. /\ \E s \in stage : RowOf(w, g, s)
          /\ \A s \in stage : RowOf(w, g, s) => s.ver = disk[g].ver
      BY <1>1, <1>2, <2>3 DEF Delivers, InHand
    <3>2. g \in Folders /\ Of(g) # {}
      BY <1>2, <1>6, <3>1 DEF RowOf
    <3>3. cat'[g] = new(g)
      BY <1>4, <3>2
    <3>4. new(g) = [ver |-> disk[g].ver, off |-> FALSE]
      BY <1>5, <3>1, <3>2 DEF RowOf
    <3>5. Good(g)'
      BY <1>3, <3>3, <3>4 DEF Good, outside, world, config, watch
    <3> QED
      BY <1>7, <3>5 DEF Delivers, InHand
  <2> QED
    BY <1>3, <2>1, <2>2, <2>3
<1>13. /\ \A l \in Libraries : lib'[l].state = "ready" => lib[l].state = "ready"
       /\ \A g \in Folders : cat'[g] = cat[g] \/ g \in Scope(worker[w].job)
       /\ \A s \in stage \cup stage' : s.job # worker[w].job => (s \in stage <=> s \in stage')
       /\ t.pc \in Working /\ "activate" \in Working
  BY <1>3, <1>4, <1>7 DEF Working, Unstaged
<1> QED
  BY <1>1, <1>3, <1>7, <1>8, <1>11, <1>12, <1>13, FencedWork

\* A thread that gives up, cleans up or leaves.
LEMMA GivingUpCompletes ==
  ASSUME CompleteInv, NEW w \in Workers, Raise(w) \/ Clean(w) \/ ClaimLost(w) \/ Leave(w)
  PROVE  CompleteInv'
<1>1. CatalogInv /\ CatalogInv'
  BY RaiseKeeps, CleanKeeps, LeaveKeeps DEF CompleteInv
<1>2. /\ worker[w] \in Thread /\ Busy(w) /\ job' = job /\ UNCHANGED <<outside, cat, lib, lost>>
      /\ UNCHANGED <<disk, paths, buffer, startup>>
  BY <1>1, ThreadFacts, OutsideStays DEF Raise, Clean, ClaimLost, Leave, Fenced, At, Busy, rows
<1>3. PICK t : /\ worker' = [worker EXCEPT ![w] = t]
               /\ t.job = worker[w].job
               /\ t.pc \in Working => Works(w)
               /\ \/ t.pc \in {"leave", "close"}
                  \/ t.pc \in {"clean", "fail"} /\ t.ready = FALSE /\ t.todo = {}
                  \/ t.pc = "fail" /\ t.ready = worker[w].ready /\ t.todo = worker[w].todo /\ worker[w].pc = "clean"
  <2> DEFINE n(pc) == [worker[w] EXCEPT !.pc = pc]
             g(pc) == [Idle EXCEPT !.pc = pc, !.job = worker[w].job, !.tell = FALSE]
  <2>1. \A pc : n(pc).pc = pc /\ n(pc).job = worker[w].job /\ n(pc).ready = worker[w].ready
                /\ n(pc).todo = worker[w].todo
    BY <1>2 DEF Thread
  <2>2. \A pc : g(pc).pc = pc /\ g(pc).job = worker[w].job /\ g(pc).ready = FALSE /\ g(pc).todo = {}
    BY DEF Idle
  <2>3. Raise(w) => /\ \E pc \in {"clean", "fail", "leave"} : worker' = [worker EXCEPT ![w] = g(pc)]
                    /\ Works(w)
    BY DEF Raise, GiveUp, Works, Working
  <2>4. ClaimLost(w) => worker' = [worker EXCEPT ![w] = g("leave")]
    BY DEF ClaimLost, GiveUp
  <2>5. Clean(w) => worker' = [worker EXCEPT ![w] = n("fail")] /\ worker[w].pc = "clean" /\ Works(w)
    BY DEF Clean, Goto, Fenced, At, Works, Working
  <2>6. Leave(w) => worker' = [worker EXCEPT ![w] = n("close")]
    BY DEF Leave, Goto
  <2>7. "leave" \notin Working /\ "close" \notin Working
    BY DEF Working
  <2> HIDE DEF n, g
  <2> QED
    BY <2>1, <2>2, <2>3, <2>4, <2>5, <2>6, <2>7
<1>4. worker'[w] = t /\ \A v \in Workers \ {w} : worker'[v] = worker[v]
  BY <1>1, <1>3 DEF CatalogInv, Types
<1>5. TableStep /\ KeptRows /\ QueueKept /\ RunsOn
  BY <1>1, <1>2, ClaimsOnly
<1>6. Works(w)' => Works(w)
  BY <1>3, <1>4 DEF Works
<1>7. Works(w)' /\ worker'[w].ready => ReadyLike(Mine(w).lib)
  <2>1. Works(w)' => worker'[w].ready = FALSE \/ worker'[w].ready = worker[w].ready
    BY <1>3, <1>4 DEF Works, Working
  <2> QED
    BY <1>6, <2>1 DEF ReadyLike
<1>8. Shape(w)' /\ Passed(w)'
  <2>1. CASE t.pc \in {"leave", "close"} \/ (t.pc \in {"clean", "fail"} /\ t.todo = {})
    BY <1>4, <2>1, GaveUp
  <2>2. CASE t.pc = "fail" /\ t.todo = worker[w].todo /\ worker[w].pc = "clean"
    <3>1. worker[w].todo \subseteq Scope(worker[w].job)
      BY <2>2 DEF CompleteInv, Shape, Works, Working
    <3>2. Scope(worker[w].job)' = Scope(worker[w].job)
      BY <1>1, <1>2, <1>3, <1>4, <1>5, ScopeStays
    <3> QED
      BY <1>4, <2>2, <3>1, <3>2 DEF Shape, Passed, Walking
  <2> QED
    BY <1>3, <2>1, <2>2
<1>9. Reach(w)
  BY <1>2 DEF Reach, Raise, Clean, ClaimLost, Leave, Unstaged, rows
<1>10. \A l \in Libraries : lib'[l].state = "ready" => lib[l].state = "ready"
  BY <1>2
<1> QED
  BY <1>1, <1>2, <1>3, <1>4, <1>5, <1>6, <1>7, <1>8, <1>9, <1>10, WorkStep DEF outside, world, config, watch

-----------------------------------------------------------------------------
(* Requests: a folder that waited for a queued job still does.             *)

\* The scans a request may join have a first one: queued before running, then by
\* priority, then by age.
LEMMA FirstExists ==
  ASSUME job \in Seq(JobRow), NEW S, S \subseteq Jobs, S # {},
         \A j \in S : job[j].state \in Active
  PROVE  \E j \in S : \A k \in S : Before(j, k)
<1> DEFINE ahead(j) == {k \in S : Before(k, j)}
           D == {ahead(j) : j \in S}
<1>1. /\ Jobs = 1..Len(job) /\ Len(job) \in Nat /\ S \subseteq Nat
      /\ \A j \in S : job[j].prio \in {10, 50, 100} /\ job[j].state \in {"queued", "running"}
  BY Table DEF JobRow, Active
<1>2. IsFiniteSet(S)
  <2>1. IsFiniteSet(1..Len(job))
    BY <1>1, FS_Interval
  <2> QED
    BY <1>1, <2>1, FS_Subset
<1>3. IsWellFoundedOn(StrictSubsetOrdering(S), SUBSET S)
  BY <1>2, FS_StrictSubsetOrderingWellFounded, FS_FiniteSubsetsOfFinite
<1>4. D \subseteq SUBSET S /\ D # {}
  OBVIOUS
<1>5. PICK d \in D : \A e \in D : <<e, d>> \notin StrictSubsetOrdering(S)
  BY <1>3, <1>4, WFMin
<1>6. PICK j \in S : d = ahead(j)
  OBVIOUS
<1>7. ASSUME NEW k \in S, ~Before(j, k) PROVE FALSE
  <2> HIDE DEF ahead, D
  <2>0. ASSUME NEW i \in S
        PROVE  /\ i \in Nat /\ job[i].prio \in Nat
               /\ job[i].state = "queued" \/ job[i].state = "running"
    BY <1>1
  <2>1. Before(k, j) /\ Before(j, j)
    <3>1. CASE job[j].state = job[k].state
      <4>1. ~(job[j].prio > job[k].prio) /\ ~(job[j].prio = job[k].prio /\ j <= k)
        BY <1>7, <3>1 DEF Before
      <4>2. job[k].prio > job[j].prio \/ (job[k].prio = job[j].prio /\ k <= j)
        BY <2>0, <4>1
      <4> QED
        BY <2>0, <3>1, <4>2 DEF Before
    <3>2. CASE job[j].state # job[k].state
      BY <1>7, <2>0, <3>2 DEF Before
    <3> QED
      BY <3>1, <3>2
  <2>2. ASSUME NEW i \in S, Before(i, k) PROVE Before(i, j)
    <3>1. CASE job[i].state = job[k].state /\ job[k].state = job[j].state
      BY <2>0, <2>1, <2>2, <3>1 DEF Before
    <3>2. CASE ~(job[i].state = job[k].state /\ job[k].state = job[j].state)
      BY <2>0, <2>1, <2>2, <3>2 DEF Before
    <3> QED
      BY <3>1, <3>2
  <2>3. ahead(k) \subseteq ahead(j) /\ j \in ahead(j) /\ j \notin ahead(k)
    BY <1>7, <2>1, <2>2 DEF ahead
  <2>4. ahead(k) \in D /\ ahead(k) \in SUBSET S /\ ahead(j) \in SUBSET S
    BY DEF ahead, D
  <2>5. <<ahead(k), ahead(j)>> \in StrictSubsetOrdering(S)
    BY <2>3, <2>4 DEF StrictSubsetOrdering
  <2> QED
    BY <1>5, <1>6, <2>4, <2>5
<1> QED
  BY <1>7

\* A request leaves every folder that waited for a job its job, and running jobs run
\* on; the import paths it asks for are then waited for, or, unless the watcher asks,
\* looked at already.
LEMMA RequestCovers ==
  ASSUME CatalogInv, ConfigInv, paths' = paths, NEW l \in Libraries,
         NEW trigger \in {"manual", "watcher", "scheduled", "startup"},
         NEW scope, NewScope(l, scope), NEW prio \in {10, 50, 100}, NEW tracked \in BOOLEAN,
         RequestScan(l, trigger, scope, prio, tracked),
         \A k \in Libraries : lib'[k].rev = lib[k].rev
  PROVE  /\ KeptRows /\ RunsOn
         /\ \A f \in paths : JobFor(f, "queued") => JobFor(f, "queued")'
         /\ \A f \in paths : LibOf[f] = l /\ Covers(scope, f) =>
              JobFor(f, "queued")' \/ (trigger # "watcher" /\ JobFor(f, "running")')
<1>1. /\ job' \in Seq(JobRow) /\ TableStep /\ KeptRows
      /\ \A j \in Jobs : job'[j].state = job[j].state \/ job[j].state = "queued"
  BY RequestTable, TableKeepsRows
<1>2. RunsOn
  BY <1>1 DEF RunsOn
<1>3. CASE MayJoin(l, trigger, scope) /\ job' = [job EXCEPT ![Join(l, trigger, scope)] =
             Joined(job[Join(l, trigger, scope)], trigger, prio, tracked)]
  <2> DEFINE j == Join(l, trigger, scope)
             r == Joined(job[j], trigger, prio, tracked)
  <2>1. j \in Joinable(l, trigger, scope)
    <3>1. /\ Joinable(l, trigger, scope) # {} /\ Joinable(l, trigger, scope) \subseteq Jobs
          /\ \A k \in Joinable(l, trigger, scope) : job[k].state \in Active
      BY <1>3 DEF MayJoin, Joinable, ActiveOf
    <3>2. \E k \in Joinable(l, trigger, scope) : \A i \in Joinable(l, trigger, scope) : Before(k, i)
      BY <3>1, FirstExists DEF CatalogInv, Types
    <3> QED
      BY <3>2 DEF Join
  <2>2. j \in Jobs /\ job[j] \in JobRow /\ job[j].lib = l /\ job[j].state \in Active
        /\ Covers(job[j].scope, scope) /\ (trigger = "watcher" => job[j].state = "queued")
    BY <2>1, Table DEF Joinable, ActiveOf, CatalogInv, Types, Active
  <2>3. r.state = job[j].state
    BY <2>2 DEF Joined, JobRow
  <2> HIDE DEF r
  <2>4. job' = [job EXCEPT ![j] = r]
    BY <1>3 DEF r
  <2> HIDE DEF j
  <2>5. \A k \in Jobs : job'[k].state = job[k].state
    BY <2>3, <2>4
  <2>6. QueueKept
    BY <2>5 DEF QueueKept
  <2>7. ASSUME NEW f \in paths, LibOf[f] = l, Covers(scope, f)
        PROVE  f \in Scope(j) /\ JobFor(f, job[j].state)
    BY <2>2, <2>7 DEF ConfigInv, Covers, Scope, FoldersOf, Homes, JobFor, Jobs
  <2> QED
    BY <1>1, <1>2, <2>2, <2>6, <2>7, JobForKept DEF Active
<1>4. CASE ~MayJoin(l, trigger, scope)
  <2> DEFINE c == IF ActiveRebuilds(l) # {} THEN {} ELSE Superseded(l, "scan", scope, prio)
             r == NewJob(l, "scan", trigger, scope, prio, tracked)
  <2>1. job' = Append(Cancel(c), r)
    BY <1>4 DEF RequestScan
  <2>2. \A j \in c : j \in Jobs /\ job[j].state = "queued" /\ job[j].lib = l /\ Covers(scope, job[j].scope)
    BY DEF Superseded, ActiveOf
  <2>3. r \in JobRow /\ r.state = "queued" /\ r.lib = l /\ r.scope = scope
    BY NewJobType DEF CatalogInv, NewJob
  <2> HIDE DEF c, r
  <2>4. /\ Cancel(c) \in Seq(JobRow) /\ DOMAIN Cancel(c) = Jobs
        /\ \A j \in Jobs : j \notin c => Cancel(c)[j] = job[j]
    BY <2>2, CancelTable DEF CatalogInv, Types
  <2>5. Jobs = 1..Len(job) /\ Len(job) \in Nat /\ Len(Cancel(c)) = Len(job)
    <3>1. Jobs = 1..Len(job) /\ Len(job) \in Nat
      BY Table DEF CatalogInv, Types
    <3>2. DOMAIN Cancel(c) = 1..Len(Cancel(c)) /\ Len(Cancel(c)) \in Nat
      BY <2>4, LenProperties
    <3> QED
      BY <2>4, <3>1, <3>2
  <2>6. PICK n : n \in Jobs' /\ job'[n] = r /\ \A j \in Jobs \ c : job'[j] = job[j]
    <3>1. /\ job' \in Seq(JobRow) /\ Len(job') = Len(job) + 1
          /\ (\A j \in Jobs : job'[j] = Cancel(c)[j]) /\ job'[Len(job) + 1] = r
      BY <2>1, <2>3, <2>4, <2>5, AppendProperties
    <3>2. Jobs' = 1..(Len(job) + 1) /\ Len(job) + 1 \in Jobs'
      BY <2>5, <3>1, LenProperties DEF Jobs
    <3> QED
      BY <2>4, <3>1, <3>2
  <2>7. ASSUME NEW f \in paths, LibOf[f] = l, Covers(scope, f)
        PROVE  JobFor(f, "queued")'
    <3>1. (f \in Scope(n))'
      BY <2>3, <2>6, <2>7 DEF ConfigInv, Covers, Scope, FoldersOf, Homes
    <3> QED
      BY <2>3, <2>6, <2>7, <3>1 DEF JobFor
  <2>8. ASSUME NEW f \in paths, JobFor(f, "queued")
        PROVE  JobFor(f, "queued")'
    <3>1. PICK j \in Jobs : job[j].state = "queued" /\ job[j].lib = LibOf[f] /\ f \in Scope(j)
      BY <2>8 DEF JobFor
    <3>2. CASE j \in c
      <4>1. LibOf[f] = l /\ Covers(scope, f)
        BY <2>2, <3>1, <3>2 DEF Covers, Scope, FoldersOf, Homes
      <4> QED
        BY <2>7, <4>1
    <3>3. CASE j \notin c
      <4>1. job'[j] = job[j] /\ j \in Jobs'
        BY <1>1, <2>6, <3>3 DEF KeptRows
      <4>2. (f \in Scope(j))'
        BY <1>1, <3>1 DEF KeptRows, Active
      <4> QED
        BY <3>1, <4>1, <4>2 DEF JobFor
    <3> QED
      BY <3>2, <3>3
  <2> QED
    BY <1>1, <1>2, <2>7, <2>8
<1> QED
  BY <1>3, <1>4 DEF RequestScan

-----------------------------------------------------------------------------
(* Steps that leave the catalog, the staging rows and every thread's work. *)

\* A step outside the threads that changes no catalog row and readies no library.
LEMMA QuietStep ==
  ASSUME CompleteInv, CatalogInv', \A v \in Workers : SameThread(v), KeptRows, RunsOn,
         UNCHANGED <<cat, stage>>,
         \A l \in Libraries : lib'[l].state = "ready" => lib[l].state = "ready",
         \A f \in Folders :
           /\ f \in lost \/ FollowUp(f) => f \in lost' \/ FollowUp(f)'
           /\ disk'[f].ver = disk[f].ver \/ f \in lost' \/ FollowUp(f)'
           /\ LibOf[f] \in startup => LibOf[f] \in startup' \/ Awaited(f)' \/ f \in lost'
  PROVE  CompleteInv'
<1>1. CatalogInv /\ Accounted
  BY DEF CompleteInv
<1>2. \A v \in Workers : Works(v)' <=> Works(v)
  BY DEF SameThread, Works
<1>3. ASSUME NEW v \in Workers PROVE Shape(v)' /\ Passed(v)'
  <2>1. Works(v) => Scope(worker[v].job) \subseteq Folders
    BY <1>1, ThreadFacts DEF Works
  <2>2. (Works(v) => \A f \in Scope(worker[v].job) : Undisturbed(f)) /\ SameStage(worker[v].job)
    BY <2>1 DEF Undisturbed, SameStage
  <2> QED
    BY <1>1, <2>2, ThreadStays DEF CompleteInv
<1>4. NotReadier
  BY <1>2 DEF NotReadier, SameThread, ReadyLike
<1>5. ASSUME NEW f \in Folders, ReadyLike(LibOf[f])', f \notin lost'
      PROVE  Coming(f)' \/ Good(f)'
  <2>1. ReadyLike(LibOf[f])
    BY <1>1, <1>4, <1>5, ReadyBefore, CatalogAssumption
  <2>2. Awaited(f) => Awaited(f)'
    BY <1>5, JobForKept DEF Awaited
  <2>3. CASE Awaited(f)'
    BY <2>3, ComingFrom
  <2>4. CASE ~Awaited(f)'
    <3>1. f \notin lost /\ disk'[f].ver = disk[f].ver
      BY <1>5, <2>4 DEF Awaited
    <3>2. Good(f)
      BY <1>1, <2>1, <2>2, <2>4, <3>1, ComingFrom DEF Accounted
    <3> QED
      BY <3>1, <3>2 DEF Good
  <2> QED
    BY <2>3, <2>4
<1> QED
  BY <1>3, <1>5 DEF CompleteInv, Accounted

\* Where no thread moves, each is the same.
LEMMA SameThreads == ASSUME worker' = worker PROVE \A v \in Workers : SameThread(v)
BY DEF SameThread

\* A folder that is no import path is in lost.
LEMMA OffPaths == ConfigInv => \A f \in Folders : f \in paths \/ f \in lost
BY DEF ConfigInv, Catalogued

\* Requests: the watcher's, the timer's, the startup's, scan-all's and the user's.
LEMMA DrainCompletes ==
  ASSUME CompleteInv, ConfigInv, NEW f \in Folders, Drain(f)
  PROVE  CompleteInv'
<1>1. CatalogInv /\ CatalogInv'
  BY RequestsKeep DEF Request, CompleteInv
<1>2. /\ UNCHANGED <<disk, paths, cat, lib, stage, worker, startup, lost>> /\ buffer' = buffer \ {f}
      /\ RequestScan(LibOf[f], "watcher", f, 50, FALSE) /\ f \in paths
  BY DEF Drain, world, config
<1>3. LibOf[f] \in Libraries /\ NewScope(LibOf[f], f)
  BY <1>2, CatalogAssumption DEF NewScope, FoldersOf, Homes
<1>4. /\ KeptRows /\ RunsOn
      /\ \A g \in paths : JobFor(g, "queued") => JobFor(g, "queued")'
      /\ \A g \in paths : LibOf[g] = LibOf[f] /\ Covers(f, g) => JobFor(g, "queued")'
  BY <1>1, <1>2, <1>3, RequestCovers
<1>5. JobFor(f, "queued")'
  BY <1>2, <1>4 DEF Covers
<1>6. ASSUME NEW g \in Folders, g \in lost \/ FollowUp(g)
      PROVE  g \in lost' \/ FollowUp(g)'
  BY <1>2, <1>4, <1>5, <1>6, OffPaths DEF FollowUp
<1> QED
  BY <1>1, <1>2, <1>4, <1>6, QuietStep, SameThreads

\* A request leaves the catalog alone and only adds to the queue.
LEMMA RequestCompletes ==
  ASSUME CompleteInv, ConfigInv, CatalogInv', NEW l \in Libraries,
         NEW trigger \in {"manual", "scheduled", "startup"},
         NEW scope \in FoldersOf(l) \cup {All}, NEW prio \in {10, 50, 100}, NEW tracked \in BOOLEAN,
         RequestScan(l, trigger, scope, prio, tracked),
         UNCHANGED <<disk, paths, cat, lib, stage, worker, lost, buffer>>,
         startup' = startup \/ (startup' = startup \ {l} /\ scope = All)
  PROVE  CompleteInv'
<1>1. CatalogInv /\ NewScope(l, scope)
  BY DEF CompleteInv, NewScope
<1>2. /\ KeptRows /\ RunsOn
      /\ \A g \in paths : JobFor(g, "queued") => JobFor(g, "queued")'
      /\ \A g \in paths : LibOf[g] = l /\ Covers(scope, g) => JobFor(g, "queued")' \/ JobFor(g, "running")'
  BY <1>1, RequestCovers
<1>3. ASSUME NEW g \in Folders, LibOf[g] \in startup
      PROVE  LibOf[g] \in startup' \/ Awaited(g)' \/ g \in lost'
  BY <1>2, <1>3, OffPaths DEF Covers, Awaited, FollowUp
<1>4. ASSUME NEW g \in Folders, g \in lost \/ FollowUp(g)
      PROVE  g \in lost' \/ FollowUp(g)'
  BY <1>2, <1>4, OffPaths DEF FollowUp
<1> QED
  BY <1>1, <1>2, <1>3, <1>4, QuietStep, SameThreads

\* Requests of the user, the timer and the startup.
LEMMA RequestsComplete ==
  ASSUME CompleteInv, ConfigInv, Request
  PROVE  CompleteInv'
<1>1. CatalogInv /\ CatalogInv'
  BY RequestsKeep DEF CompleteInv
<1>2. ASSUME NEW l \in Libraries, Scheduled(l) PROVE CompleteInv'
  BY <1>1, <1>2, RequestCompletes DEF Scheduled, world, config
<1>3. ASSUME NEW l \in Libraries, Startup(l) PROVE CompleteInv'
  BY <1>1, <1>3, RequestCompletes DEF Startup, world, config
<1>4. CASE ScanAllNext
  <2>1. NextOf(parent.todo) \in Libraries
    BY <1>1, <1>4, NextTodo DEF ScanAllNext, CatalogInv, Types, Parent
  <2> QED
    BY <1>1, <1>4, <2>1, RequestCompletes DEF ScanAllNext, world, config
<1> QED
  BY <1>2, <1>3, <1>4, DrainCompletes DEF Request

\* A change the watcher saw is in its buffer until the job for it exists.
LEMMA AskCompletes ==
  ASSUME CompleteInv, ConfigInv, NEW l \in Libraries, NEW scope \in FoldersOf(l) \cup {All}, Ask(l, scope)
  PROVE  CompleteInv'
<1>1. CatalogInv /\ CatalogInv'
  BY AskKeeps DEF CompleteInv
<1>2. UNCHANGED <<disk, paths, cat, stage, worker, lost, buffer, startup>>
  BY DEF Ask, world, config
<1>3. CASE RequestScan(l, "manual", scope, 100, FALSE) /\ lib' = lib
  BY <1>1, <1>2, <1>3, RequestCompletes
<1>4. CASE lib' = [lib EXCEPT ![l].state = "offline"] /\ job' = job
  <2>1. \A k \in Libraries : lib'[k].state = "ready" => lib[k].state = "ready"
    BY <1>1, <1>4 DEF CatalogInv, Types, LibRow
  <2>2. KeptRows /\ RunsOn
    BY <1>2, <1>4, SameTable, TableKeepsRows DEF RunsOn
  <2>3. \A f \in Folders : FollowUp(f) => FollowUp(f)'
    BY <1>2, <1>4, <2>2, JobForKept DEF FollowUp, QueueKept
  <2> QED
    BY <1>1, <1>2, <2>1, <2>2, <2>3, QuietStep, SameThreads
<1> QED
  BY <1>3, <1>4 DEF Ask

\* Files and volumes change, notices are dropped, libraries marked, scan-all begins and
\* ends, maintenance too; parents are refreshed, claims lapse, the supervisor reads.
LEMMA EnvironmentCompletes ==
  ASSUME CompleteInv,
         \/ \E f \in Folders : Change(f) \/ Mount(f) \/ DrainDropped(f)
         \/ \E l \in Libraries : MarkDiscovering(l)
         \/ StartWatcher \/ StopWatcher \/ LeaveWatcher
         \/ ScanAll \/ ScanAllBusy \/ ScanAllEnd \/ MaintenanceBegins \/ MaintenanceEnds
         \/ \E w \in Workers : Tell(w) \/ Renew(w)
         \/ \E j \in Jobs : Expire(j)
         \/ SweepTell \/ SweepRead \/ UNCHANGED vars
  PROVE  CompleteInv'
<1>1. CatalogInv /\ CatalogInv'
  <2>1. CASE UNCHANGED vars
    BY <2>1, CatalogStep DEF CompleteInv
  <2> QED
    BY <2>1, EnvironmentKeeps, TellKeeps, LeaseKeeps, SweepReadKeeps DEF CompleteInv
<1>2. UNCHANGED <<paths, cat, stage, startup>>
  BY DEF StartWatcher, StopWatcher, LeaveWatcher, Change, Mount, DrainDropped, MarkDiscovering, ScanAll, ScanAllBusy, ScanAllEnd,
         MaintenanceBegins, MaintenanceEnds, Tell, Renew, Expire, SweepTell, SweepRead, vars, world, config, watch, rows, outside, world, config, watch
<1>3. TableStep /\ \A j \in Jobs : job'[j].state = job[j].state
  <2>1. CASE UNCHANGED job
    BY <2>1, SameTable
  <2>2. CASE (\E w \in Workers : Renew(w)) \/ (\E j \in Jobs : Expire(j))
    <3>1. PICK j : \E b \in BOOLEAN : job' = [job EXCEPT ![j].live = b]
      BY <2>2 DEF Renew, Expire, Extended
    <3> QED
      BY <1>1, <3>1, LiveTable DEF CatalogInv, Types
  <2> QED
    BY <2>1, <2>2 DEF StartWatcher, StopWatcher, LeaveWatcher, Change, Mount, DrainDropped, MarkDiscovering, ScanAll, ScanAllBusy, ScanAllEnd,
       MaintenanceBegins, MaintenanceEnds, Tell, SweepTell, SweepRead, vars, world, config, watch, rows
<1>4. KeptRows /\ RunsOn /\ QueueKept
  BY <1>2, <1>3, TableKeepsRows DEF RunsOn, QueueKept
<1>5. \A v \in Workers : SameThread(v)
  <2>1. CASE worker' = worker
    BY <2>1, SameThreads
  <2>2. ASSUME NEW w \in Workers, Tell(w) PROVE \A v \in Workers : SameThread(v)
    <3>1. worker' = [worker EXCEPT ![w] = [worker[w] EXCEPT !.tell = FALSE]]
      BY <2>2 DEF Tell
    <3> QED
      BY <1>1, <3>1 DEF SameThread, CatalogInv, Types, Thread
  <2> QED
    BY <2>1, <2>2 DEF StartWatcher, StopWatcher, LeaveWatcher, Change, Mount, DrainDropped, MarkDiscovering, ScanAll, ScanAllBusy, ScanAllEnd,
       MaintenanceBegins, MaintenanceEnds, Renew, Expire, SweepTell, SweepRead, vars, world, config, watch
<1>6. \A l \in Libraries : lib'[l].state = "ready" => lib[l].state = "ready"
  <2>1. CASE lib' = lib
    BY <2>1
  <2>2. ASSUME NEW k \in Libraries, MarkDiscovering(k)
        PROVE  \A l \in Libraries : lib'[l].state = "ready" => lib[l].state = "ready"
    BY <1>1, <2>2 DEF MarkDiscovering, CatalogInv, Types, LibRow
  <2> QED
    BY <2>1, <2>2 DEF StartWatcher, StopWatcher, LeaveWatcher, Change, Mount, DrainDropped, ScanAll, ScanAllBusy, ScanAllEnd,
       MaintenanceBegins, MaintenanceEnds, Tell, Renew, Expire, SweepTell, SweepRead, vars, world, config, watch, rows
<1>7. ASSUME NEW f \in Folders
      PROVE  /\ f \in lost \/ FollowUp(f) => f \in lost' \/ FollowUp(f)'
             /\ disk'[f].ver = disk[f].ver \/ f \in lost' \/ FollowUp(f)'
  <2>1. JobFor(f, "queued") => JobFor(f, "queued")'
    BY <1>4, JobForKept
  <2>2. ASSUME NEW g \in Folders, Change(g)
        PROVE  /\ (g = f /\ f \in buffer') \/ (g = f /\ f \in lost') \/ g # f
               /\ g # f => disk'[f] = disk[f] /\ (f \in buffer => f \in buffer') /\ (f \in lost => f \in lost')
    BY <2>2 DEF Change
  <2>3. ASSUME NEW g \in Folders, Mount(g)
        PROVE  disk'[f].ver = disk[f].ver /\ buffer' = buffer /\ lost' = lost
    BY <1>1, <2>3 DEF Mount, CatalogInv, Types
  <2>4. ASSUME NEW g \in Folders, DrainDropped(g)
        PROVE  disk' = disk /\ buffer' = buffer \ {g} /\ lost' = lost \cup {g}
    BY <2>4 DEF DrainDropped, world
  <2>5. CASE UNCHANGED <<disk, buffer, lost>>
    BY <2>1, <2>5 DEF FollowUp
  <2>6. ASSUME StopWatcher
        PROVE  disk' = disk /\ lost' = lost \cup buffer
    BY <2>6 DEF StopWatcher
  <2>7. CASE \E g \in Folders : Change(g) \/ Mount(g) \/ DrainDropped(g)
    BY <2>1, <2>2, <2>3, <2>4, <2>7 DEF FollowUp
  <2>8. CASE StopWatcher
    BY <2>1, <2>6, <2>8 DEF FollowUp
  <2>9. CASE ~(StopWatcher \/ \E g \in Folders : Change(g) \/ Mount(g) \/ DrainDropped(g))
    BY <2>5, <2>9 DEF StartWatcher, LeaveWatcher, MarkDiscovering, ScanAll, ScanAllBusy, ScanAllEnd,
       MaintenanceBegins, MaintenanceEnds, Tell, Renew, Expire, SweepTell, SweepRead, vars, outside, world
  <2> QED
    BY <2>7, <2>8, <2>9
<1> QED
  BY <1>1, <1>2, <1>4, <1>5, <1>6, <1>7, QuietStep

-----------------------------------------------------------------------------
(* Jobs begin and end.                                                     *)

\* A thread that is not at work owes nothing.
LEMMA NotAtWork ==
  ASSUME NEW v \in Workers, ~Works(v)'
  PROVE  Shape(v)' /\ Passed(v)'
BY DEF Works, Working, Shape, Passed, Walking

\* A claimed job still covers what it covered while it waited; it waits for no thread
\* of its own library, for none runs there.
LEMMA ClaimCompletes ==
  ASSUME CompleteInv, NEW w \in Workers, Claim(w)
  PROVE  CompleteInv'
<1>1. CatalogInv /\ CatalogInv' /\ Accounted
  BY ClaimKeeps DEF CompleteInv
<1>2. PICK j \in Runnable :
        /\ job' = [Cancel(Outdated) EXCEPT ![j] = [@ EXCEPT !.state = "running", !.live = TRUE]]
        /\ worker' = [worker EXCEPT ![w] = [Idle EXCEPT !.pc = "look", !.job = j]]
  BY DEF Claim
<1>3. UNCHANGED <<disk, paths, buffer, startup, cat, lib, stage, lost>>
  BY DEF Claim, outside, world, config, watch
<1>4. j \in Jobs /\ job[j].state = "queued" /\ job[j] \in JobRow
      /\ \A k \in Jobs : job[k].state = "running" => job[k].lib # job[j].lib
  BY <1>1, Table DEF Runnable, ActiveOf, Active, CatalogInv, Types
<1>5. Outdated = {}
  BY <1>1 DEF Outdated, CatalogInv, JobsMatchConfiguration, Active
<1> DEFINE r == [job[j] EXCEPT !.state = "running", !.live = TRUE]
<1>6. r.state = "running" /\ r.lib = job[j].lib /\ r.type = job[j].type /\ r.scope = job[j].scope
  BY <1>4 DEF JobRow
<1>7. Cancel(Outdated) = [k \in Jobs |-> job[k]]
  BY <1>5 DEF Cancel
<1>8. job' = [k \in Jobs |-> IF k = j THEN r ELSE job[k]]
  BY <1>2, <1>4, <1>7
<1> HIDE DEF r
<1>9. Jobs' = Jobs /\ \A k \in Jobs : job'[k] = IF k = j THEN r ELSE job[k]
  BY <1>8 DEF Jobs
<1>10. KeptRows /\ RunsOn
  BY <1>3, <1>6, <1>9 DEF KeptRows, RunsOn, Scope, FoldersOf, Homes
<1>11. /\ worker'[w].pc = "look" /\ worker'[w].job = j /\ worker'[w].ready = FALSE
       /\ \A v \in Workers \ {w} : worker'[v] = worker[v]
  BY <1>1, <1>2 DEF CatalogInv, Types, Idle
<1>12. ASSUME NEW f, JobFor(f, "queued")
       PROVE  JobFor(f, "queued")' \/ (LibOf[f] = job[j].lib /\ JobFor(f, "running")')
  <2>1. PICK k \in Jobs : job[k].state = "queued" /\ job[k].lib = LibOf[f] /\ f \in Scope(k)
    BY <1>12 DEF JobFor
  <2>2. (f \in Scope(k))'
    BY <1>10, <2>1 DEF KeptRows, Active
  <2> QED
    BY <1>6, <1>9, <2>1, <2>2 DEF JobFor
<1>13. ASSUME NEW v \in Workers PROVE Shape(v)' /\ Passed(v)'
  <2>1. CASE v = w
    BY <1>11, <2>1 DEF Shape, Passed, Walking
  <2>2. CASE v # w
    <3>1. SameThread(v)
      BY <1>11, <2>2 DEF SameThread
    <3>2. ASSUME Works(v), NEW f \in Scope(worker[v].job) PROVE Undisturbed(f)
      <4>1. worker[v].job \in Jobs /\ job[worker[v].job].state = "running"
        BY <1>1, <3>2, ThreadFacts DEF Works, Mine
      <4>2. LibOf[f] # job[j].lib
        BY <1>1, <1>4, <4>1, ScopeFacts
      <4> QED
        BY <1>3, <1>12, <4>2 DEF Undisturbed, FollowUp
    <3> QED
      BY <1>1, <1>3, <1>10, <3>1, <3>2, ThreadStays DEF CompleteInv, SameStage
  <2> QED
    BY <2>1, <2>2
<1>14. NotReadier
  BY <1>3, <1>11 DEF NotReadier, Works, ReadyLike
<1>15. Accounted'
  <2> SUFFICES ASSUME NEW f \in Folders, ReadyLike(LibOf[f])', f \notin lost'
               PROVE  Coming(f)' \/ Good(f)'
    BY DEF Accounted
  <2>1. ReadyLike(LibOf[f])
    BY <1>1, <1>10, <1>14, ReadyBefore, CatalogAssumption
  <2>2. Awaited(f) => Awaited(f)'
    BY <1>3, <1>10, <1>12, JobForKept DEF Awaited, FollowUp
  <2>3. Coming(f) \/ Good(f)
    BY <1>1, <1>3, <2>1 DEF Accounted
  <2> QED
    BY <1>3, <2>2, <2>3, ComingFrom DEF Good
<1> QED
  BY <1>1, <1>13, <1>15 DEF CompleteInv

\* No other thread works for the library of a job at work.
LEMMA AloneInLibrary ==
  ASSUME CatalogInv, NEW w \in Workers, Works(w), NEW v \in Workers, Works(v), Mine(v).lib = Mine(w).lib
  PROVE  v = w
<1>1. /\ worker[v].job \in Jobs /\ job[worker[v].job].state = "running"
      /\ worker[w].job \in Jobs /\ job[worker[w].job].state = "running" /\ Busy(v) /\ Busy(w)
  BY ThreadFacts DEF Works, Mine
<1> QED
  BY <1>1 DEF CatalogInv, JobsMatchConfiguration, Owners, Mine

\* A job ends: its library is ready only if all its folders are accounted for without
\* this job.
LEMMA EndCompletes ==
  ASSUME CompleteInv, CatalogInv', NEW w \in Workers, NEW pc \in Clear \cup {"fail"}, Fenced(w, pc),
         NEW s \in {"succeeded", "failed"}, NEW ls,
         Ended(w, s), LibraryBecomes(w, ls),
         UNCHANGED <<disk, paths, buffer, startup, cat, stage, lost>>,
         ls = "ready" => \A f \in Homes(Mine(w).lib) :
           f \in lost \/ FollowUp(f) \/ LibOf[f] \in startup \/ Good(f)
  PROVE  CompleteInv'
<1>1. CatalogInv /\ Accounted /\ Works(w) /\ Busy(w) /\ worker[w].job \in Jobs /\ Mine(w).lib \in Libraries
      /\ Mine(w).state = "running"
  BY ThreadFacts DEF CompleteInv, Fenced, At, Clear, Works, Working, JobRow
<1>2. /\ TableStep /\ KeptRows
      /\ \A k \in Jobs \ {worker[w].job} : job'[k].state = job[k].state
  BY <1>1, EndedTable, TableKeepsRows DEF CatalogInv, Types, Ended
<1>3. QueueKept
  BY <1>1, <1>2 DEF QueueKept, Mine
<1>4. worker'[w].pc = "leave" /\ \A v \in Workers \ {w} : worker'[v] = worker[v]
  BY <1>1 DEF Ended, GiveUp, Idle, CatalogInv, Types
<1>5. \A v \in Workers : Shape(v)' /\ Passed(v)'
  <2>1. Reach(w)
    BY DEF Reach
  <2> QED
    BY <1>1, <1>2, <1>3, <1>4, <2>1, OthersStay, GaveUp
<1>6. \A l \in Libraries : lib'[l].state = IF l = Mine(w).lib THEN ls ELSE lib[l].state
  BY <1>1 DEF LibraryBecomes, CatalogInv, Types, LibRow
<1>7. ASSUME NEW v \in Workers, Works(v)'
      PROVE  Works(v) /\ worker'[v] = worker[v] /\ Mine(v)'.lib = Mine(v).lib /\ Mine(v).lib # Mine(w).lib
  <2>1. v # w /\ worker'[v] = worker[v] /\ Works(v)
    BY <1>4, <1>7 DEF Works, Working
  <2>2. worker[v].job \in Jobs
    BY <1>1, <2>1, ThreadFacts DEF Works
  <2> QED
    BY <1>1, <1>2, <2>1, <2>2, AloneInLibrary DEF KeptRows, Mine
<1>8. ASSUME NEW f \in Folders, ReadyLike(LibOf[f])', f \notin lost'
      PROVE  Coming(f)' \/ Good(f)'
  <2>1. FollowUp(f) => FollowUp(f)'
    BY <1>2, <1>3, JobForKept DEF FollowUp
  <2>2. CASE LibOf[f] = Mine(w).lib
    <3>1. ls = "ready"
      BY <1>1, <1>6, <1>7, <1>8, <2>2 DEF ReadyLike
    <3>2. FollowUp(f) \/ LibOf[f] \in startup \/ Good(f)
      BY <1>8, <2>2, <3>1 DEF Homes
    <3>3. Awaited(f)' \/ Good(f)'
      BY <2>1, <3>2 DEF Awaited, Good
    <3> QED
      BY <3>3, ComingFrom
  <2>3. CASE LibOf[f] # Mine(w).lib
    <3>1. ReadyLike(LibOf[f])
      <4>1. LibOf[f] \in Libraries
        BY CatalogAssumption
      <4> QED
        BY <1>6, <1>7, <1>8, <2>3, <4>1 DEF ReadyLike
    <3>2. JobFor(f, "running") => JobFor(f, "running")'
      <4>1. ASSUME NEW k \in Jobs, job[k].state = "running", job[k].lib = LibOf[f], f \in Scope(k)
            PROVE  JobFor(f, "running")'
        <5>1. k \in Jobs' /\ job'[k].state = "running" /\ job'[k].lib = LibOf[f] /\ (f \in Scope(k))'
          BY <1>2, <2>3, <4>1 DEF KeptRows, Mine, Active
        <5> QED
          BY <5>1 DEF JobFor
      <4> QED
        BY <4>1 DEF JobFor
    <3>3. Awaited(f) => Awaited(f)'
      BY <2>1, <3>2 DEF Awaited
    <3>4. Coming(f) \/ Good(f)
      BY <1>1, <1>8, <3>1 DEF Accounted
    <3> QED
      BY <3>3, <3>4, ComingFrom DEF Good
  <2> QED
    BY <2>2, <2>3
<1> QED
  BY <1>5, <1>8 DEF CompleteInv, Accounted

\* A scan that found every folder it was to look at has delivered them all; one of a
\* single folder makes the library ready only if it was.
LEMMA FinishAccounts ==
  ASSUME CompleteInv, ConfigInv, NEW w \in Workers, Fenced(w, "finish"), StateAfter(w) = "ready"
  PROVE  \A f \in Homes(Mine(w).lib) :
           f \in lost \/ FollowUp(f) \/ LibOf[f] \in startup \/ Good(f)
<1>1. /\ CatalogInv /\ Works(w) /\ worker[w].pc = "finish" /\ worker[w].job \in Jobs
      /\ Mine(w).state = "running" /\ worker[w].todo = {}
  BY ThreadFacts DEF CompleteInv, Fenced, At, Works, Working, Shape
<1>2. worker[w].off = {} /\ (Mine(w).scope = All \/ worker[w].ready)
  BY DEF StateAfter
<1> SUFFICES ASSUME NEW f \in Folders, LibOf[f] = Mine(w).lib
             PROVE  f \in lost \/ FollowUp(f) \/ LibOf[f] \in startup \/ Good(f)
  BY DEF Homes
<1>3. CASE f \in Scope(worker[w].job)
  <2>1. f \in lost \/ FollowUp(f) \/ Delivers(w, f)
    BY <1>1, <1>2, <1>3 DEF CompleteInv, Passed, Walking
  <2> QED
    BY <1>1, <2>1 DEF Delivers, InHand
<1>4. CASE f \in paths /\ f \notin Scope(worker[w].job)
  <2>1. worker[w].ready
    BY <1>2, <1>4 DEF Scope, FoldersOf, Homes, Mine
  <2>2. f \in lost \/ Coming(f) \/ Good(f)
    BY <1>1, <2>1 DEF CompleteInv, Accounted, ReadyLike
  <2>3. ~JobFor(f, "running")
    BY <1>1, <1>4 DEF JobFor, CatalogInv, JobsMatchConfiguration, Mine
  <2> QED
    BY <2>2, <2>3, ComingFrom DEF Awaited
<1> QED
  BY <1>3, <1>4, OffPaths

\* A job ends ready only when every folder of its library is accounted for.
LEMMA EndsComplete ==
  ASSUME CompleteInv, ConfigInv, NEW w \in Workers, NothingThere(w) \/ Finish(w) \/ Fail(w)
  PROVE  CompleteInv'
<1>1. CatalogInv' /\ {"mark", "finish", "fail"} \subseteq Clear \cup {"fail"}
  BY EndsKeep DEF CompleteInv, Clear
<1>2. UNCHANGED <<disk, paths, buffer, startup, cat, stage, lost>>
  BY DEF NothingThere, Finish, Fail, outside, world, config, watch
<1>3. CASE NothingThere(w)
  <2>1. Fenced(w, "mark") /\ Ended(w, "failed") /\ LibraryBecomes(w, "offline")
    BY <1>3 DEF NothingThere
  <2> QED
    BY <1>1, <1>2, <2>1, EndCompletes
<1>4. CASE Finish(w)
  <2>1. Fenced(w, "finish") /\ Ended(w, "succeeded") /\ LibraryBecomes(w, StateAfter(w))
    BY <1>4 DEF Finish
  <2>2. StateAfter(w) = "ready" => \A f \in Homes(Mine(w).lib) :
          f \in lost \/ FollowUp(f) \/ LibOf[f] \in startup \/ Good(f)
    BY <2>1, FinishAccounts
  <2> QED
    BY <1>1, <1>2, <2>1, <2>2, EndCompletes
<1>5. CASE Fail(w)
  <2>1. Fenced(w, "fail") /\ Ended(w, "failed") /\ LibraryBecomes(w, "error")
    BY <1>5 DEF Fail
  <2> QED
    BY <1>1, <1>2, <2>1, EndCompletes
<1> QED
  BY <1>3, <1>4, <1>5

\* Jobs that were left running fail.  A library that was not marked yet may stay ready;
\* what its job was to look at is then among the lost notices.
LEMMA FailuresComplete ==
  ASSUME CompleteInv, CatalogInv', NEW js, js \subseteq Jobs, \A j \in js : job[j].state = "running",
         FailJobs(js), UNCHANGED <<disk, paths, buffer, startup, cat>>,
         \A v \in Workers : Works(v)' => SameThread(v) /\ worker[v].job \notin js
  PROVE  CompleteInv'
<1>1. CatalogInv /\ Accounted
  BY DEF CompleteInv
<1>2. TableStep /\ KeptRows /\ (\A j \in Jobs \ js : job'[j] = job[j]) /\ stage' = Unstaged(js)
  BY <1>1, FailedTable, TableKeepsRows DEF FailJobs
<1>3. QueueKept
  BY <1>2 DEF QueueKept
<1>4. lost' = lost \cup {f \in Folders : lib[LibOf[f]].state = "ready" /\ \E j \in js : f \in Scope(j)}
  BY DEF FailJobs
<1>5. \A l \in Libraries : lib'[l].state = "ready" => lib[l].state = "ready" /\ lib'[l] = lib[l]
  BY <1>1 DEF FailJobs, CatalogInv, Types, LibRow
<1>6. ASSUME NEW v \in Workers PROVE Shape(v)' /\ Passed(v)'
  <2>1. CASE ~Works(v)'
    BY <2>1, NotAtWork
  <2>2. CASE Works(v)'
    <3>1. SameThread(v) /\ worker[v].job \notin js
      BY <2>2
    <3>2. \A f : FollowUp(f) => FollowUp(f)'
      BY <1>2, <1>3, JobForKept DEF FollowUp
    <3>3. (\A f \in Scope(worker[v].job) : Undisturbed(f)) /\ SameStage(worker[v].job)
      BY <1>2, <1>4, <3>1, <3>2 DEF Undisturbed, SameStage, Unstaged
    <3> QED
      BY <1>1, <1>2, <3>1, <3>3, ThreadStays DEF CompleteInv
  <2> QED
    BY <2>1, <2>2
<1>7. NotReadier
  BY <1>5 DEF NotReadier, SameThread, ReadyLike, Works
<1>8. ASSUME NEW f \in Folders, ReadyLike(LibOf[f])', f \notin lost'
      PROVE  Coming(f)' \/ Good(f)'
  <2>1. ReadyLike(LibOf[f]) /\ f \notin lost /\ LibOf[f] \in Libraries
    BY <1>1, <1>2, <1>4, <1>7, <1>8, ReadyBefore, CatalogAssumption
  <2>2. ASSUME NEW k \in Jobs, job[k].state = "running", job[k].lib = LibOf[f], f \in Scope(k)
        PROVE  k \notin js
    <3>1. CASE lib'[LibOf[f]].state = "ready"
      BY <1>4, <1>5, <1>8, <2>1, <2>2, <3>1
    <3>2. ASSUME NEW v \in Workers, Works(v)', Mine(v)'.lib = LibOf[f]
          PROVE  k \notin js
      <4>1. worker'[v].job = worker[v].job /\ Works(v) /\ worker[v].job \notin js
        BY <3>2 DEF SameThread, Works
      <4>2. worker[v].job \in Jobs /\ job[worker[v].job].state = "running"
        BY <1>1, <4>1, ThreadFacts DEF Works, Mine
      <4>3. job[worker[v].job].lib = LibOf[f]
        BY <1>2, <3>2, <4>1, <4>2 DEF KeptRows, Mine
      <4>4. k = worker[v].job
        BY <1>1, <2>2, <4>2, <4>3 DEF CatalogInv, JobsMatchConfiguration
      <4> QED
        BY <4>1, <4>4
    <3> QED
      BY <1>8, <3>1, <3>2 DEF ReadyLike
  <2>3. JobFor(f, "running") => JobFor(f, "running")'
    <3>1. ASSUME NEW k \in Jobs, job[k].state = "running", job[k].lib = LibOf[f], f \in Scope(k)
          PROVE  JobFor(f, "running")'
      <4>1. k \in Jobs' /\ job'[k] = job[k] /\ (f \in Scope(k))'
        BY <1>2, <2>2, <3>1 DEF KeptRows, Active
      <4> QED
        BY <3>1, <4>1 DEF JobFor
    <3> QED
      BY <3>1 DEF JobFor
  <2>4. Awaited(f) => Awaited(f)'
    BY <1>2, <1>3, <2>3, JobForKept DEF Awaited, FollowUp
  <2>5. Coming(f) \/ Good(f)
    BY <1>1, <2>1 DEF Accounted
  <2> QED
    BY <2>4, <2>5, ComingFrom DEF Good
<1> QED
  BY <1>6, <1>8 DEF CompleteInv, Accounted

\* A job its thread left running: its library leaves ready, or its notices are lost.
LEMMA CloseCompletes ==
  ASSUME CompleteInv, NEW w \in Workers, Close(w)
  PROVE  CompleteInv'
<1> DEFINE left == {worker[w].job} \cap {j \in Jobs : job[j].state = "running"}
<1>1. CatalogInv /\ CatalogInv' /\ worker[w].pc = "close" /\ Busy(w)
  BY CloseKeeps DEF CompleteInv, Close, At, Busy
<1>2. UNCHANGED <<disk, paths, buffer, startup, cat>>
  BY DEF Close, outside, world, config, watch
<1>3. ~Works(w)' /\ \A v \in Workers \ {w} : worker'[v] = worker[v]
  BY <1>1 DEF Close, Idle, Works, Working, CatalogInv, Types
<1>4. CASE FailJobs(left)
  <2>1. ASSUME NEW v \in Workers, Works(v)' PROVE SameThread(v) /\ worker[v].job \notin left
    <3>1. v # w /\ worker'[v] = worker[v] /\ Works(v)
      BY <1>3, <2>1 DEF Works
    <3>2. worker[v].job # worker[w].job
      BY <1>1, <3>1, ThreadFacts DEF Works, CatalogInv, Owners
    <3> QED
      BY <3>1, <3>2 DEF SameThread
  <2> HIDE DEF left
  <2>2. left \subseteq Jobs /\ \A j \in left : job[j].state = "running"
    BY DEF left
  <2> QED
    BY <1>1, <1>2, <1>4, <2>1, <2>2, FailuresComplete
<1>5. CASE UNCHANGED <<job, lib, stage, lost>>
  <2>1. Reach(w) /\ TableStep /\ QueueKept /\ RunsOn
    BY <1>1, <1>2, <1>5, ClaimsOnly DEF Reach
  <2> QED
    BY <1>1, <1>2, <1>3, <1>5, <2>1, WorkStep, NotAtWork
<1> QED
  BY <1>4, <1>5 DEF Close

\* A job the supervisor found abandoned, likewise.
LEMMA SweepWriteCompletes ==
  ASSUME CompleteInv, SweepWrite
  PROVE  CompleteInv'
<1> DEFINE left == {j \in sweep.found : job[j].state = "running"}
<1>1. CatalogInv /\ CatalogInv'
  BY SweepWriteKeeps DEF CompleteInv
<1>2. FailJobs(left) /\ worker' = worker /\ UNCHANGED <<disk, paths, buffer, startup, cat>>
  BY DEF SweepWrite, outside, world, config, watch
<1>3. left \subseteq Jobs /\ \A j \in left : job[j].state = "running" /\ j \notin Registered
  BY <1>1 DEF CatalogInv, SweepApart
<1> HIDE DEF left
<1>4. ASSUME NEW v \in Workers, Works(v)' PROVE SameThread(v) /\ worker[v].job \notin left
  <2>1. Works(v)
    BY <1>2, <1>4 DEF Works
  <2>2. worker[v].job \in Registered
    BY <2>1 DEF Registered, Works, Working
  <2> QED
    BY <1>2, <1>3, <2>2 DEF SameThread
<1> QED
  BY <1>1, <1>2, <1>3, <1>4, FailuresComplete

\* After a restart every library waits for its startup scan.
LEMMA RestartCompletes ==
  ASSUME CompleteInv, Restart
  PROVE  CompleteInv'
<1>1. CatalogInv'
  BY RestartKeeps DEF CompleteInv
<1>2. \A v \in Workers : ~Works(v)'
  BY DEF Restart, Works, Working, Idle
<1>3. \A f \in Folders : Coming(f)'
  BY CatalogAssumption DEF Restart, Coming
<1> QED
  BY <1>1, <1>2, <1>3, NotAtWork DEF CompleteInv, Accounted

\* A new configuration brings back assets as they were, for a library without work; what
\* comes into it only now is in lost.
LEMMA ConfigureCompletes ==
  ASSUME CompleteInv, NEW l \in Libraries, Configure(l)
  PROVE  CompleteInv'
<1>1. CatalogInv /\ CatalogInv' /\ Accounted
  BY ConfigureKeeps DEF CompleteInv
<1>2. /\ UNCHANGED <<disk, buffer, startup, job, stage, worker>> /\ NoActiveWork(l)
      /\ lost' = lost \cup {f \in Homes(l) : ~disk[f].there \/ f \notin Catalogued \cap Catalogued'}
  BY DEF Configure
<1>3. \A k \in Libraries : lib'[k].state = lib[k].state
  BY <1>1 DEF Configure, CatalogInv, Types, LibRow
<1>4. \A f \in Folders :
        IF LibOf[f] = l /\ cat[f].ver # None
        THEN cat'[f] = [cat[f] EXCEPT !.off = ~(f \in Catalogued' /\ disk[f].there)]
        ELSE cat'[f] = cat[f]
  BY DEF Configure, Recatalogued
<1>5. KeptRows
  <2> SUFFICES ASSUME NEW j \in Jobs, job[j].state \in Active PROVE Scope(j)' = Scope(j)
    BY <1>2 DEF KeptRows, Jobs
  <2>1. job[j].lib # l
    BY <1>2 DEF NoActiveWork, ActiveOf
  <2>2. PICK roots \in SUBSET Homes(l) : paths' = (paths \ Homes(l)) \cup roots
    BY DEF Configure
  <2>3. FoldersOf(job[j].lib)' = FoldersOf(job[j].lib)
    BY <1>2, <2>1, <2>2 DEF FoldersOf, Homes
  <2> QED
    BY <1>2, <2>3 DEF Scope
<1>6. \A f : FollowUp(f) => FollowUp(f)'
  BY <1>2, <1>5, JobForKept DEF FollowUp, QueueKept
<1>7. ASSUME NEW v \in Workers PROVE Shape(v)' /\ Passed(v)'
  <2>1. ASSUME Works(v), NEW f \in Scope(worker[v].job) PROVE Undisturbed(f)
    <3>1. worker[v].job \in Jobs /\ job[worker[v].job].state = "running"
      BY <1>1, <2>1, ThreadFacts DEF Works, Mine
    <3>2. f \in Folders /\ LibOf[f] # l
      BY <1>1, <1>2, <2>1, <3>1, ScopeFacts DEF NoActiveWork, ActiveOf, Active
    <3> QED
      BY <1>2, <1>4, <1>6, <3>2 DEF Undisturbed
  <2> QED
    BY <1>1, <1>2, <1>5, <2>1, SameThreads, ThreadStays DEF CompleteInv, SameStage
<1>8. ASSUME NEW f \in Folders, ReadyLike(LibOf[f])', f \notin lost'
      PROVE  Coming(f)' \/ Good(f)'
  <2>1. ReadyLike(LibOf[f])
    <3>1. NotReadier
      BY <1>2, <1>3 DEF NotReadier, ReadyLike, Works
    <3> QED
      BY <1>1, <1>5, <1>8, <3>1, ReadyBefore, CatalogAssumption
  <2>2. Coming(f) \/ Good(f)
    BY <1>1, <1>2, <1>8, <2>1 DEF Accounted
  <2>3. Coming(f) => Coming(f)'
    <3>1. JobFor(f, "running") => JobFor(f, "running")'
      BY <1>2, <1>5, JobForKept DEF RunsOn
    <3> QED
      BY <1>2, <1>6, <3>1, ComingFrom DEF Awaited
  <2>4. Good(f) => Good(f)'
    <3> SUFFICES ASSUME Good(f) PROVE Good(f)'
      OBVIOUS
    <3>1. CASE LibOf[f] = l /\ cat[f].ver # None
      <4>1. disk[f].there /\ f \in Catalogued'
        BY <1>2, <1>8, <3>1 DEF Homes
      <4>2. cat[f] \in AssetRow
        BY <1>1 DEF CatalogInv, Types
      <4>6. cat[f].ver = disk[f].ver
        BY DEF Good
      <4>3. cat'[f] = [cat[f] EXCEPT !.off = ~(f \in Catalogued' /\ disk[f].there)]
        BY <1>4, <3>1
      <4>4. cat'[f] = [cat[f] EXCEPT !.off = FALSE]
        BY <4>1, <4>3, Zenon
      <4>5. ASSUME NEW b \in BOOLEAN
            PROVE  [cat[f] EXCEPT !.off = b] = [ver |-> cat[f].ver, off |-> b]
        <5>1. [cat[f] EXCEPT !.off = b] \in AssetRow /\ [ver |-> cat[f].ver, off |-> b] \in AssetRow
          BY <4>2 DEF AssetRow
        <5>2. [cat[f] EXCEPT !.off = b].ver = cat[f].ver /\ [cat[f] EXCEPT !.off = b].off = b
          BY <4>2 DEF AssetRow
        <5> QED
          BY <5>1, <5>2 DEF AssetRow
      <4> QED
        BY <1>2, <4>4, <4>5, <4>6 DEF Good
    <3>2. CASE ~(LibOf[f] = l /\ cat[f].ver # None)
      BY <1>2, <1>4, <3>2 DEF Good
    <3> QED
      BY <3>1, <3>2
  <2> QED
    BY <2>2, <2>3, <2>4
<1> QED
  BY <1>1, <1>7, <1>8 DEF CompleteInv, Accounted

\* A cleared catalog is announced by every library's state.
LEMMA RebuildImportedDataCompletes ==
  ASSUME CompleteInv, RebuildImportedData
  PROVE  CompleteInv'
<1>1. CatalogInv /\ CatalogInv'
  BY RebuildImportedDataKeeps DEF CompleteInv
<1>2. worker' = worker /\ \A l \in Libraries : lib'[l].state = "discovering"
  BY <1>1 DEF RebuildImportedData, CatalogInv, Types, LibRow
<1>3. ASSUME NEW v \in Workers PROVE ~Works(v)'
  <2>1. ASSUME Works(v) PROVE FALSE
    <3>1. worker[v].job \in Jobs /\ Mine(v) \in JobRow /\ Mine(v).state = "running"
      BY <1>1, <2>1, ThreadFacts DEF Works
    <3>2. worker[v].job \in ActiveOf(Mine(v).lib) /\ Mine(v).lib \in Libraries
      BY <3>1 DEF ActiveOf, Active, Mine, JobRow
    <3> QED
      BY <3>2 DEF RebuildImportedData
  <2> QED
    BY <1>2, <2>1 DEF Works
<1>4. \A f \in Folders : ~ReadyLike(LibOf[f])'
  BY <1>2, <1>3, CatalogAssumption DEF ReadyLike
<1> QED
  BY <1>1, <1>3, <1>4, NotAtWork DEF CompleteInv, Accounted

-----------------------------------------------------------------------------
(* The theorem.                                                            *)

\* The catalog starts as the disk is, and no thread is at work.
LEMMA CompleteInitially == CInit => CompleteInv
<1> SUFFICES ASSUME CInit PROVE CompleteInv
  OBVIOUS
<1>1. \A w \in Workers : worker[w].pc = "idle"
  BY DEF CInit, Idle
<1>2. \A w \in Workers : Shape(w) /\ Passed(w)
  BY <1>1 DEF Shape, Passed, Works, Working, Walking
<1>3. \A f \in Folders : f \in lost \/ Good(f)
  BY DEF CInit, Good
<1> QED
  BY <1>2, <1>3, CatalogInitially DEF CompleteInv, Accounted

\* Every step of every actor keeps the invariant.
LEMMA CompleteStep == CompleteInv /\ ConfigInv /\ [CNext]_vars => CompleteInv'
<1> SUFFICES ASSUME CompleteInv, ConfigInv, [CNext]_vars PROVE CompleteInv'
  OBVIOUS
<1>1. CASE \E f \in Folders : Change(f) \/ Mount(f) \/ Drain(f) \/ DrainDropped(f)
  BY <1>1, EnvironmentCompletes, DrainCompletes
<1>2. CASE \E l \in Libraries : \/ Scheduled(l) \/ Startup(l) \/ MarkDiscovering(l) \/ Configure(l)
                                \/ \E scope \in FoldersOf(l) \cup {All} : Ask(l, scope)
  BY <1>2, RequestsComplete, EnvironmentCompletes, ConfigureCompletes, AskCompletes DEF Request
<1>3. CASE \/ StartWatcher \/ StopWatcher \/ LeaveWatcher
           \/ ScanAll \/ ScanAllNext \/ ScanAllBusy \/ ScanAllEnd
  BY <1>3, EnvironmentCompletes, RequestsComplete DEF Request
<1>4. CASE \E w \in Workers : Claim(w) \/ WorkerStep(w) \/ Raise(w) \/ Renew(w)
  <2>1. PICK w \in Workers : Claim(w) \/ WorkerStep(w) \/ Raise(w) \/ Renew(w)
    BY <1>4
  <2>2. CASE WorkerStep(w)
    BY <2>2, LookCompletes, MarkOfflineCompletes, EndsComplete, WasReadyCompletes, StartCompletes,
       WalkCompletes, WriteCompletes, ProgressCompletes, ActivateCompletes, GivingUpCompletes,
       CloseCompletes, EnvironmentCompletes DEF WorkerStep
  <2> QED
    BY <2>1, <2>2, ClaimCompletes, GivingUpCompletes, EnvironmentCompletes
<1>5. CASE \/ \E j \in Jobs : Expire(j)
           \/ SweepRead \/ SweepWrite \/ SweepTell
           \/ Restart \/ MaintenanceBegins \/ MaintenanceEnds \/ RebuildImportedData
  BY <1>5, EnvironmentCompletes, SweepWriteCompletes, RestartCompletes, RebuildImportedDataCompletes
<1>6. CASE UNCHANGED vars
  BY <1>6, EnvironmentCompletes
<1> QED
  BY <1>1, <1>2, <1>3, <1>4, <1>5, <1>6 DEF CNext

\* A library that reports itself ready has a catalog that agrees with the disk, or work is
\* on its way that will make it agree, but for the folders in lost: the watcher's
\* follow-ups, the joining and superseding of requests, claims and their loss, the states
\* of the library, failures and restarts all keep this, and a change of import paths,
\* patterns or the watcher adds no other exception.
THEOREM ReadyCatalogsAreComplete == CSpec => []ReadyIsComplete
<1>1. CompleteInv /\ ConfigInv => ReadyIsComplete
  BY DEF ConfigInv, Catalogued, CompleteInv, Accounted, ReadyLike, ReadyIsComplete, Good
<1>2. CSpec => []CompleteInv
  BY CompleteInitially, CompleteStep, ConfigAlways, PTL DEF CSpec
<1> QED
  BY <1>1, <1>2, ConfigAlways, PTL
=============================================================================
