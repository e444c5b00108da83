------------------------------ MODULE CatalogJobs ------------------------------
(***************************************************************************)
(* The catalog job queue: metadata_store/job_store.py with scan_worker.py, *)
(* rebuild_store.py, watcher.py, refresh.py and the library endpoints.     *)
(* Requests from users, the watcher, the timer and the start of the        *)
(* process create or join rows of library_jobs; workers claim them, walk   *)
(* the folders and write the catalog; a supervisor fails what its worker   *)
(* left.  A folder is an import path when its library's configuration has  *)
(* it, the scope of a job is one of them or All.  A folder's content is a  *)
(* version number.                                                         *)
(*                                                                         *)
(* A row is claimed at most once in its life, so its claim token is "the   *)
(* claim of this job", and "the token matches" is "the job still runs".    *)
(* Writes go through run_write, which waits while maintenance is on.       *)
(***************************************************************************)
EXTENDS Naturals, Sequences, FiniteSets

CONSTANTS
  Libraries, Folders, Workers,
  LibOf,     \* the library of a folder
  All,       \* scope_path NULL: every import path
  None,
  AtStart,   \* the import paths and hidden folders the process may find at its start
  MaxJobs,   \* rows ever created (bound)
  MaxRevs,   \* how often a library may be configured (bound)
  Budget,    \* how often each kind of event below may happen (bound)
  MaxEvents  \* how many events may happen in all (bound)

\* "trouble": faults, lapsed leases, volumes that come and go, maintenance, restarts
Events == {"change", "request", "trouble"}

ASSUME CatalogAssumption ==
  /\ LibOf \in [Folders -> Libraries]
  /\ All \notin Folders
  /\ IsFiniteSet(Libraries)
  /\ MaxJobs \in Nat \ {0}
  /\ AtStart \subseteq [paths : SUBSET Folders, hidden : SUBSET Folders]
  /\ MaxRevs \in Nat
  /\ Budget \in [Events -> Nat] /\ MaxEvents \in Nat

VARIABLES
  disk,     \* content of each folder, and whether it is there
  paths,    \* library_import_paths
  excluded, \* folders an exclusion pattern hides
  cat,      \* the asset of each folder: version indexed, and offline flag
  lib,      \* state and config_revision of each library
  job,      \* library_jobs of type scan and rebuild, in order of creation
  stage,    \* catalog_rebuild_entries: job, folder, version
  worker,   \* the catalog worker threads
  sweep,    \* what recover_stale_jobs read, and whether it still has parents to refresh
  parent,   \* an aggregate parent job and the libraries its request has yet to queue
  watcher,  \* the roots the watcher was started with, and those it observes
  settle,   \* is the watcher still to be brought in line with the import paths?
  buffer,   \* folders in the watcher's debounce buffer
  marking,  \* libraries a scan request is about to mark discovering
  startup,  \* libraries whose startup scan is not queued yet
  maint,    \* is the maintenance gate held?
  lost,     \* history: folders whose changes, if any, no work was told of
  used      \* events that happened

config == <<paths, excluded>>
watch == <<watcher, settle>>
vars == <<disk, config, cat, lib, job, stage, worker, sweep, parent, watch, buffer, marking,
          startup, maint, lost, used>>
world == <<disk, config, watch>>
rows == <<cat, lib, job, stage, parent>>
outside == <<world, buffer, marking, startup, maint>>

-----------------------------------------------------------------------------
Active == {"queued", "running"}
Terminal == {"succeeded", "failed", "cancelled"}
Unindexed == [ver |-> None, off |-> TRUE]
Nothing == [folder |-> None, ver |-> 0, there |-> FALSE]
Idle == [pc |-> "idle", job |-> 0, on |-> {}, off |-> {}, todo |-> {}, seen |-> Nothing,
         ready |-> FALSE, tell |-> FALSE]
NoParent == [state |-> "none", todo |-> {}]
NoSweep == [found |-> {}, tell |-> FALSE]
\* Import paths and libraries are handled in the order of their lists.
NextOf(S) == CHOOSE x \in S : TRUE
Homes(l) == {f \in Folders : LibOf[f] = l}
FoldersOf(l) == Homes(l) \cap paths
\* The folders whose assets belong in the catalog.
Catalogued == paths \ excluded
Unwatched == [roots |-> {}, seen |-> {}]
Scope(j) == IF job[j].scope = All THEN FoldersOf(job[j].lib) ELSE {job[j].scope}
Jobs == DOMAIN job
Spent == used["change"] + used["request"] + used["trouble"]
Spend(e) == /\ used[e] < Budget[e] /\ Spent < MaxEvents
            /\ used' = [used EXCEPT ![e] = @ + 1]

CInit ==
  /\ disk = [f \in Folders |-> [ver |-> 0, there |-> TRUE]]
  /\ \E start \in AtStart : paths = start.paths /\ excluded = start.hidden
  /\ lost = Folders \ Catalogued
  /\ watcher = [roots |-> paths, seen |-> paths] /\ settle = FALSE
  /\ cat = [f \in Folders |-> IF f \in Catalogued THEN [ver |-> 0, off |-> FALSE] ELSE Unindexed]
  /\ lib = [l \in Libraries |-> [state |-> "ready", rev |-> 0]]
  /\ job = <<>> /\ stage = {}
  /\ worker = [w \in Workers |-> Idle]
  /\ sweep = NoSweep /\ parent = NoParent
  /\ buffer = {} /\ marking = {} /\ startup = {}
  /\ maint = FALSE
  /\ used = [e \in Events |-> 0]

-----------------------------------------------------------------------------
(* The file system and the watcher                                         *)

\* A file of the folder changes, and the watcher notes the folder if it observes it.
Change(f) ==
  /\ disk[f].there /\ Spend("change")
  /\ disk' = [disk EXCEPT ![f].ver = @ + 1]
  /\ buffer' = IF f \in watcher.seen THEN buffer \cup {f} ELSE buffer
  /\ lost' = IF f \in watcher.seen /\ f \in Catalogued THEN lost \ {f} ELSE lost \cup {f}
  /\ UNCHANGED <<rows, config, watch, worker, sweep, marking, startup, maint>>

\* A volume goes away or comes back.  The watcher sees nothing of it; the watch on
\* it may not outlive it.
Mount(f) ==
  /\ Spend("trouble")
  /\ disk' = [disk EXCEPT ![f].there = ~@]
  /\ \/ watcher' = watcher
     \/ disk[f].there /\ watcher' = [watcher EXCEPT !.seen = @ \ {f}]
  /\ UNCHANGED <<rows, config, settle, worker, sweep, buffer, marking, startup, maint, lost>>

\* start_watcher, at the start of the process after the startup scans are queued
\* and from reconcile_watcher: it observes the import paths that are there.
StartWatcher ==
  /\ settle /\ startup = {} /\ watcher.roots = {}
  /\ watcher' = [roots |-> paths, seen |-> {f \in paths : disk[f].there}]
  /\ settle' = FALSE
  /\ UNCHANGED <<disk, config, rows, worker, sweep, buffer, marking, startup, maint, lost, used>>

\* reconcile_watcher, which the endpoint calls after an update of import paths: a
\* watcher with other roots is stopped, and its buffer goes with it, the notices of
\* every library in it.  One that does not stop in time is not started again.
StopWatcher ==
  /\ settle /\ watcher.roots \notin {{}, paths}
  /\ watcher' = Unwatched /\ buffer' = {} /\ lost' = lost \cup buffer
  /\ \/ settle' = settle /\ used' = used
     \/ settle' = FALSE /\ Spend("trouble")
  /\ UNCHANGED <<disk, config, rows, worker, sweep, marking, startup, maint>>
LeaveWatcher ==
  /\ settle /\ watcher.roots = paths /\ settle' = FALSE
  /\ UNCHANGED <<disk, config, rows, watcher, worker, sweep, buffer, marking, startup, maint,
                 lost, used>>

-----------------------------------------------------------------------------
(* Requests: create_or_coalesce_catalog_job                                *)

Covers(wide, narrow) == wide \in {All, narrow}
ActiveOf(l) == {j \in Jobs : job[j].lib = l /\ job[j].state \in Active}
ActiveRebuilds(l) == {j \in ActiveOf(l) : job[j].type = "rebuild"}

NewJob(l, type, trigger, scope, prio, tracked) ==
  [lib |-> l, type |-> type, trigger |-> trigger, scope |-> scope, prio |-> prio,
   state |-> "queued", rev |-> lib[l].rev, live |-> FALSE, tracked |-> tracked]

\* Mutant: the watcher joins a running scan too.
MutantJoinable(l, trigger, scope) == {j \in ActiveOf(l) : Covers(job[j].scope, scope)}
\* The active scans a request may join.  A running scan may have passed the
\* folder already, so the watcher does not join it.
Joinable(l, trigger, scope) ==
  {j \in ActiveOf(l) : /\ Covers(job[j].scope, scope)
                       /\ ~(job[j].state = "running" /\ trigger = "watcher")}

Before(i, j) ==
  \/ job[i].state = "queued" /\ job[j].state = "running"
  \/ /\ job[i].state = job[j].state
     /\ \/ job[i].prio > job[j].prio
        \/ job[i].prio = job[j].prio /\ i <= j
Join(l, trigger, scope) ==
  CHOOSE j \in Joinable(l, trigger, scope) :
    \A k \in Joinable(l, trigger, scope) : Before(j, k)

\* A queued job takes the request's priority if that is higher, and its trigger.
Joined(row, trigger, prio, tracked) ==
  LET raise == row.state = "queued" /\ prio > row.prio
  IN [row EXCEPT !.prio = IF raise THEN prio ELSE @,
                 !.trigger = IF raise THEN trigger ELSE @,
                 !.tracked = @ \/ tracked]

\* Queued scans a new job makes superfluous.
Superseded(l, type, scope, prio) ==
  {j \in ActiveOf(l) : /\ job[j].type = "scan" /\ job[j].state = "queued"
                       /\ Covers(scope, job[j].scope)
                       /\ type = "rebuild" \/ prio >= job[j].prio}
Cancel(cancelled) ==
  [j \in Jobs |-> IF j \in cancelled THEN [job[j] EXCEPT !.state = "cancelled"] ELSE job[j]]

\* A scan request: 409 (Conflict) while a rebuild is active if a user asked, a
\* follow-up if not; otherwise it joins an active scan or becomes a new one.
Conflict(l, trigger) == ActiveRebuilds(l) # {} /\ trigger = "manual"
MayJoin(l, trigger, scope) == ActiveRebuilds(l) = {} /\ Joinable(l, trigger, scope) # {}
RequestScan(l, trigger, scope, prio, tracked) ==
  \/ /\ MayJoin(l, trigger, scope)
     /\ LET j == Join(l, trigger, scope)
        IN job' = [job EXCEPT ![j] = Joined(job[j], trigger, prio, tracked)]
  \/ /\ ~MayJoin(l, trigger, scope)
     /\ Len(job) < MaxJobs
     /\ LET cancelled == IF ActiveRebuilds(l) # {} THEN {}
                         ELSE Superseded(l, "scan", scope, prio)
        IN job' = Append(Cancel(cancelled), NewJob(l, "scan", trigger, scope, prio, tracked))

\* The watcher takes a folder out of its buffer and asks for a scan of it.
Drain(f) ==
  /\ f \in buffer \cap paths /\ ~maint
  /\ buffer' = buffer \ {f}
  /\ RequestScan(LibOf[f], "watcher", f, 50, FALSE)
  /\ UNCHANGED <<world, cat, lib, stage, worker, sweep, parent, marking, startup, maint,
                 lost, used>>

\* queue_watcher_scan gives up while maintenance is on and on a folder of no
\* library, and the loop drops a notice whose request failed, whatever the reason;
\* the folder has left the buffer by then.
DrainDropped(f) ==
  /\ f \in buffer
  /\ \/ (maint \/ f \notin paths) /\ used' = used
     \/ Spend("trouble")
  /\ buffer' = buffer \ {f}
  /\ lost' = lost \cup {f}
  /\ UNCHANGED <<world, rows, worker, sweep, marking, startup, maint>>

\* _run_refresh_tick for one library.
Scheduled(l) ==
  /\ ~maint /\ Spend("request")
  /\ RequestScan(l, "scheduled", All, 10, FALSE)
  /\ UNCHANGED <<world, cat, lib, stage, worker, sweep, parent, buffer, marking, startup,
                 maint, lost>>

\* queue_startup_scans for one library.
Startup(l) ==
  /\ l \in startup /\ ~maint
  /\ startup' = startup \ {l}
  /\ RequestScan(l, "startup", All, 10, FALSE)
  /\ UNCHANGED <<world, cat, lib, stage, worker, sweep, parent, buffer, marking, maint,
                 lost, used>>

\* POST /api/libraries/{id}/scan.  The library is marked discovering in an op of
\* its own once the job exists.
Ask(l, scope) ==
  /\ ~maint /\ Spend("request")
  /\ LET folders == IF scope = All THEN FoldersOf(l) ELSE {scope}
         there == \E f \in folders : disk[f].there
     IN \/ /\ ~there
           /\ lib' = [lib EXCEPT ![l].state = "offline"]
           /\ UNCHANGED <<job, marking>>
        \/ /\ there /\ ~Conflict(l, "manual")
           /\ RequestScan(l, "manual", scope, 100, FALSE)
           /\ marking' = IF MayJoin(l, "manual", scope) THEN marking ELSE marking \cup {l}
           /\ lib' = lib
  /\ UNCHANGED <<world, cat, stage, worker, sweep, parent, buffer, startup, maint, lost>>

MarkDiscovering(l) ==
  /\ l \in marking /\ ~maint
  /\ marking' = marking \ {l}
  /\ lib' = [lib EXCEPT ![l].state = "discovering"]
  /\ UNCHANGED <<world, cat, job, stage, worker, sweep, parent, buffer, startup, maint,
                 lost, used>>

-----------------------------------------------------------------------------
(* Aggregate parents: POST /api/libraries/scan-all, update_parent_aggregate_job *)

Children(table) == {j \in DOMAIN table : table[j].tracked /\ table[j].state # "gone"}
ParentState(table) ==
  CASE \E j \in Children(table) : table[j].state \in Active -> "running"
    [] Children(table) # {} /\ \A j \in Children(table) : table[j].state = "succeeded" -> "succeeded"
    [] OTHER -> "failed"
Refreshed(table) ==
  IF parent.state \in Active THEN [parent EXCEPT !.state = ParentState(table)] ELSE parent

ScanAll ==
  /\ parent.state = "none" /\ ~maint /\ Spend("request")
  /\ parent' = [state |-> "queued", todo |-> Libraries]
  /\ UNCHANGED <<world, cat, lib, job, stage, worker, sweep, buffer, marking, startup,
                 maint, lost>>

\* The request queues its children one by one (one parent is modelled at a time, so
\* no rebuild is active, which would be a conflict); the last step sets the parent
\* running and refreshes it.  A parent that is terminal by then refuses the
\* transition, and the request ends in an error.
ScanAllNext ==
  /\ parent.todo \cap Libraries # {} /\ ~maint
  /\ LET l == NextOf(parent.todo)
     IN /\ RequestScan(l, "manual", All, 100, TRUE)
        /\ parent' = [parent EXCEPT !.todo = IF @ = {l} THEN {All} ELSE @ \ {l}]
  /\ UNCHANGED <<world, cat, lib, stage, worker, sweep, buffer, marking, startup, maint,
                 lost, used>>
ScanAllBusy ==
  /\ parent.todo \cap Libraries # {} /\ maint
  /\ parent' = [parent EXCEPT !.todo = {None}]
  /\ UNCHANGED <<world, cat, lib, job, stage, worker, sweep, buffer, marking, startup, maint,
                 lost, used>>
ScanAllEnd ==
  /\ parent.todo \in {{All}, {None}} /\ ~maint
  /\ LET after == IF parent.todo = {All} THEN ParentState(job) ELSE "failed"
     IN parent' = [state |-> IF parent.state \in Active THEN after ELSE parent.state, todo |-> {}]
  /\ UNCHANGED <<world, cat, lib, job, stage, worker, sweep, buffer, marking, startup, maint,
                 lost, used>>

-----------------------------------------------------------------------------
(* Workers: run_once, execute_scan_job, execute_rebuild_job                *)

Mine(w) == job[worker[w].job]
Rebuilds(w) == Mine(w).type = "rebuild"
Goto(w, pc) == worker' = [worker EXCEPT ![w].pc = pc]
\* The work on the job is over; only the job is remembered.
GiveUp(w, pc, tell) ==
  worker' = [worker EXCEPT ![w] = [Idle EXCEPT !.pc = pc, !.job = worker[w].job, !.tell = tell]]

\* assert_catalog_job_claim_conn: the claim this worker holds is still good.
\* Mutant: the assertion forgets the state of the row.
MutantHolds(w) == TRUE
Holds(w) == Mine(w).state = "running" /\ Mine(w).live
\* A worker that has reported on a job refreshes its parents before it goes on.
At(w, pc) == worker[w].pc = pc /\ ~worker[w].tell
\* A write of worker w, fenced with its claim, which it extends before it commits.
Fenced(w, pc) == At(w, pc) /\ ~maint /\ Holds(w)
Extended(w) == [job EXCEPT ![worker[w].job].live = TRUE]
\* _transition_job to a state that ends the job.
Ended(w, state) ==
  /\ job' = [job EXCEPT ![worker[w].job] = [@ EXCEPT !.state = state, !.live = FALSE]]
  /\ GiveUp(w, "leave", Mine(w).tracked)
LibraryBecomes(w, state) == lib' = [lib EXCEPT ![Mine(w).lib].state = state]

\* claim_next_catalog_job: cancels jobs made for another configuration, then takes
\* a job of a library with none running, by priority and age.  One that has waited
\* long enough has the highest priority.  _service_lock covers the claim, its
\* registration and every pass of the supervisor.
Outdated == {j \in Jobs : job[j].state = "queued" /\ job[j].rev # lib[job[j].lib].rev}
\* Mutant: a library may have two running jobs.
MutantRunnable == {j \in Jobs : job[j].state = "queued" /\ j \notin Outdated}
Runnable == {j \in Jobs : /\ job[j].state = "queued" /\ j \notin Outdated
                          /\ \A k \in ActiveOf(job[j].lib) : job[k].state = "queued"}
First(j) == \/ \A k \in Runnable : j <= k
            \/ \A k \in Runnable : Before(j, k)
Claim(w) ==
  /\ At(w, "idle") /\ ~maint /\ sweep = NoSweep
  /\ \E j \in Runnable :
       /\ First(j)
       /\ job' = [Cancel(Outdated) EXCEPT ![j] = [@ EXCEPT !.state = "running", !.live = TRUE]]
       /\ worker' = [worker EXCEPT ![w] = [Idle EXCEPT !.pc = "look", !.job = j]]
  /\ UNCHANGED <<outside, cat, lib, stage, parent, sweep, lost, used>>

\* _scan_paths_for_job: which folders are there.
Look(w) ==
  /\ At(w, "look")
  /\ LET on == {f \in Scope(worker[w].job) : disk[f].there}
         off == Scope(worker[w].job) \ on
     IN worker' = [worker EXCEPT ![w] =
          [@ EXCEPT !.on = on, !.off = off, !.todo = IF Rebuilds(w) THEN {} ELSE off,
                    !.pc = "mark"]]
  /\ UNCHANGED <<outside, rows, sweep, lost, used>>

\* A scan marks the asset of each folder that is not there offline.
MarkOffline(w) ==
  /\ Fenced(w, "mark")
  /\ worker[w].todo # {}
  /\ LET f == NextOf(worker[w].todo)
     IN /\ cat' = [cat EXCEPT ![f].off = TRUE]
        /\ worker' = [worker EXCEPT ![w].todo = @ \ {f}]
  /\ job' = Extended(w)
  /\ UNCHANGED <<outside, lib, stage, parent, sweep, lost, used>>

\* All paths offline: the job fails.
NothingThere(w) ==
  /\ Fenced(w, "mark") /\ worker[w].todo = {} /\ worker[w].on = {}
  /\ Ended(w, "failed") /\ LibraryBecomes(w, "offline")
  /\ UNCHANGED <<outside, cat, stage, parent, sweep, lost, used>>

\* _library_is_ready, read before the library is marked.
WasReady(w) ==
  /\ At(w, "mark") /\ worker[w].todo = {} /\ worker[w].on # {}
  /\ worker' = [worker EXCEPT ![w] =
       [@ EXCEPT !.ready = lib[Mine(w).lib].state = "ready", !.pc = "start"]]
  /\ UNCHANGED <<outside, rows, sweep, lost, used>>

Start(w) ==
  /\ Fenced(w, "start")
  /\ LibraryBecomes(w, IF worker[w].off = {} THEN "indexing" ELSE "degraded")
  /\ job' = Extended(w)
  /\ worker' = [worker EXCEPT ![w] =
       [@ EXCEPT !.todo = worker[w].on, !.pc = "walk", !.tell = Mine(w).tracked]]
  /\ UNCHANGED <<outside, cat, stage, parent, sweep, lost, used>>

\* What a walk of folder f finds.  A directory that cannot be listed counts as empty,
\* one that is excluded is passed over.
Found(f, readable) ==
  [folder |-> f, ver |-> IF readable THEN disk[f].ver ELSE 0, there |-> readable]

\* index_directory_tree and enumerate_to_rebuild_staging walk a folder outside any
\* transaction.
Walk(w) ==
  /\ At(w, "walk")
  /\ LET f == NextOf(worker[w].todo)
         here == disk[f].there /\ f \in Catalogued
     IN \E readable \in BOOLEAN :
       /\ readable => here
       /\ IF here /\ ~readable THEN Spend("trouble") ELSE used' = used
       /\ lost' = IF readable THEN lost \ {f} ELSE lost \cup {f}
       /\ worker' = [worker EXCEPT ![w] =
            [@ EXCEPT !.seen = Found(f, readable), !.todo = worker[w].todo \ {f},
                      !.pc = "write"]]
  /\ UNCHANGED <<outside, rows, sweep>>

\* enumerate_to_rebuild_staging: what the walk of a rebuild found.
Staged(j, seen) ==
  IF seen.there THEN stage \cup {[job |-> j, folder |-> seen.folder, ver |-> seen.ver]} ELSE stage

\* A scan upserts what it found and marks what it did not find offline; a rebuild
\* stages what it found.
Write(w) ==
  /\ Fenced(w, "write")
  /\ LET seen == worker[w].seen
     IN IF Rebuilds(w)
        THEN /\ stage' = Staged(worker[w].job, seen)
             /\ cat' = cat
        ELSE /\ cat' = [cat EXCEPT ![seen.folder] =
                 IF seen.there THEN [ver |-> seen.ver, off |-> FALSE] ELSE [@ EXCEPT !.off = TRUE]]
             /\ stage' = stage
  /\ job' = Extended(w)
  /\ worker' = [worker EXCEPT ![w] =
       [@ EXCEPT !.seen = Nothing,
                 !.pc = IF Rebuilds(w) /\ worker[w].todo # {} THEN "walk" ELSE "progress"]]
  /\ UNCHANGED <<outside, lib, parent, sweep, lost, used>>

Progress(w) ==
  /\ Fenced(w, "progress")
  /\ job' = Extended(w)
  /\ worker' = [worker EXCEPT ![w] =
       [@ EXCEPT !.tell = Mine(w).tracked,
                 !.pc = IF worker[w].todo # {} THEN "walk"
                        ELSE IF Rebuilds(w) THEN "activate" ELSE "finish"]]
  /\ UNCHANGED <<outside, cat, lib, stage, parent, sweep, lost, used>>

\* Mutant: staging rows stay.
MutantUnstaged(js) == stage
StagedBy(j) == {s \in stage : s.job = j}
Unstaged(js) == {s \in stage : s.job \notin js}

\* activate_rebuild_staging: one transaction.
Activate(w) ==
  LET j == worker[w].job
      Of(f) == {s \in StagedBy(j) : s.folder = f}
  IN /\ Fenced(w, "activate")
     /\ cat' = [f \in Folders |->
          IF f \notin Scope(j) THEN cat[f]
          ELSE IF Of(f) = {} THEN [cat[f] EXCEPT !.off = TRUE]
          ELSE [ver |-> (CHOOSE s \in Of(f) : TRUE).ver, off |-> FALSE]]
     /\ stage' = Unstaged({j})
     /\ job' = Extended(w)
     /\ Goto(w, "finish")
     /\ UNCHANGED <<outside, lib, parent, sweep, lost, used>>

\* _library_state_after_success.
StateAfter(w) ==
  IF worker[w].off # {} THEN "degraded"
  ELSE IF Mine(w).scope = All \/ worker[w].ready THEN "ready" ELSE "indexing"
Finish(w) ==
  /\ Fenced(w, "finish")
  /\ Ended(w, "succeeded") /\ LibraryBecomes(w, StateAfter(w))
  /\ UNCHANGED <<outside, cat, stage, parent, sweep, lost, used>>

\* The job raises; a rebuild deletes its staging rows first.  A job that raises as
\* it reports its failure leaves that to its thread's end.
Raise(w) ==
  /\ worker[w].pc \in {"look", "mark", "start", "walk", "write", "progress", "activate",
                       "finish", "fail"}
  /\ Spend("trouble")
  /\ GiveUp(w, IF worker[w].pc = "fail" THEN "leave"
               ELSE IF Rebuilds(w) THEN "clean" ELSE "fail", FALSE)
  /\ UNCHANGED <<outside, rows, sweep, lost>>
\* A deletion that fails is logged, and the job fails all the same.
Clean(w) ==
  /\ \/ /\ Fenced(w, "clean")
        /\ stage' = Unstaged({worker[w].job}) /\ used' = used
     \/ /\ At(w, "clean")
        /\ stage' = stage /\ Spend("trouble")
  /\ Goto(w, "fail")
  /\ UNCHANGED <<outside, cat, lib, job, parent, sweep, lost>>
Fail(w) ==
  /\ Fenced(w, "fail")
  /\ Ended(w, "failed") /\ LibraryBecomes(w, "error")
  /\ UNCHANGED <<outside, cat, stage, parent, sweep, lost, used>>

\* CatalogJobClaimLost: the work stops; a rebuild deletes its staging rows, unless
\* that fails or it was reporting its failure.
ClaimLost(w) ==
  /\ worker[w].pc \in {"mark", "start", "write", "progress", "activate", "finish", "clean", "fail"}
  /\ ~worker[w].tell /\ ~maint /\ ~Holds(w)
  /\ \/ worker[w].pc # "fail" /\ stage' = Unstaged({worker[w].job}) /\ used' = used
     \/ worker[w].pc = "fail" /\ stage' = stage /\ used' = used
     \/ stage' = stage /\ Spend("trouble")
  /\ GiveUp(w, "leave", FALSE)
  /\ UNCHANGED <<outside, cat, lib, job, parent, sweep, lost>>

\* The heartbeat stops and the claim is unregistered.
Leave(w) ==
  /\ At(w, "leave") /\ Goto(w, "close")
  /\ UNCHANGED <<outside, rows, sweep, lost, used>>

\* Jobs that were left running fail, with their staging rows; their library goes to
\* error if it was marked.  The notice of a library that was not is lost.
Marked == {"discovering", "indexing", "degraded"}
FailJobs(js) ==
  LET libs == {job[j].lib : j \in js}
  IN /\ job' = [j \in Jobs |-> IF j \in js THEN [job[j] EXCEPT !.state = "failed", !.live = FALSE]
                               ELSE job[j]]
     /\ lib' = [l \in Libraries |->
          IF l \in libs /\ lib[l].state \in Marked THEN [lib[l] EXCEPT !.state = "error"] ELSE lib[l]]
     /\ stage' = Unstaged(js)
     /\ lost' = lost \cup {f \in Folders : lib[LibOf[f]].state = "ready" /\ \E j \in js : f \in Scope(j)}

\* fail_abandoned_catalog_job_claim; its own write may fail.
Close(w) ==
  /\ At(w, "close")
  /\ LET left == {worker[w].job} \cap {j \in Jobs : job[j].state = "running"}
     IN \/ /\ ~maint /\ FailJobs(left) /\ used' = used
           /\ worker' = [worker EXCEPT ![w] = [Idle EXCEPT !.tell = \E j \in left : job[j].tracked]]
        \/ /\ left # {} /\ Spend("trouble")
           /\ worker' = [worker EXCEPT ![w] = Idle]
           /\ UNCHANGED <<job, lib, stage, lost>>
  /\ UNCHANGED <<outside, cat, parent, sweep>>

\* _emit_job_and_parent_updates.
Tell(w) ==
  /\ worker[w].tell /\ ~maint
  /\ parent' = Refreshed(job)
  /\ worker' = [worker EXCEPT ![w].tell = FALSE]
  /\ UNCHANGED <<outside, cat, lib, job, stage, sweep, lost, used>>

\* The registry of active claims, and the heartbeat of each.
Registered == {worker[w].job : w \in {v \in Workers : worker[v].pc \notin {"idle", "close"}}}
Renew(w) ==
  /\ worker[w].pc \notin {"idle", "close"} /\ ~maint
  /\ Mine(w).state = "running" /\ ~Mine(w).live
  /\ job' = Extended(w)
  /\ UNCHANGED <<outside, cat, lib, stage, parent, worker, sweep, lost, used>>
Expire(j) ==
  /\ job[j].state = "running" /\ job[j].live /\ Spend("trouble")
  /\ job' = [job EXCEPT ![j].live = FALSE]
  /\ UNCHANGED <<outside, cat, lib, stage, parent, worker, sweep, lost>>

-----------------------------------------------------------------------------
(* The supervisor, the process and maintenance                             *)

\* ensure_running: recover_stale_jobs reads the running jobs nobody works on, fails
\* those that still run, and refreshes their parents.
\* Mutant: an expired lease is enough.
MutantAbandoned == {j \in Jobs : job[j].state = "running" /\ (j \notin Registered \/ ~job[j].live)}
Abandoned == {j \in Jobs : job[j].state = "running" /\ j \notin Registered}
SweepRead ==
  /\ sweep = NoSweep /\ Abandoned # {}
  /\ sweep' = [found |-> Abandoned, tell |-> FALSE]
  /\ UNCHANGED <<outside, rows, worker, lost, used>>
SweepWrite ==
  /\ sweep.found # {} /\ ~maint
  /\ LET left == {j \in sweep.found : job[j].state = "running"}
     IN /\ FailJobs(left)
        /\ sweep' = [found |-> {}, tell |-> \E j \in left : job[j].tracked]
  /\ UNCHANGED <<outside, cat, parent, worker, used>>
SweepTell ==
  /\ sweep.tell /\ ~maint
  /\ sweep' = NoSweep
  /\ parent' = Refreshed(job)
  /\ UNCHANGED <<outside, cat, lib, job, stage, worker, lost, used>>

\* The process dies and starts again: startup recovery fails every running job and
\* refreshes every active parent before the workers start; then come the startup
\* scans, and the watcher last.
Restart ==
  /\ Spend("trouble")
  /\ FailJobs({j \in Jobs : job[j].state = "running"})
  /\ parent' = [Refreshed(job') EXCEPT !.todo = {}]
  /\ worker' = [w \in Workers |-> Idle]
  /\ sweep' = NoSweep /\ buffer' = {} /\ marking' = {} /\ maint' = FALSE
  /\ startup' = Libraries /\ watcher' = Unwatched /\ settle' = TRUE
  /\ UNCHANGED <<disk, config, cat>>

MaintenanceBegins ==
  /\ ~maint /\ Spend("trouble") /\ maint' = TRUE
  /\ UNCHANGED <<world, rows, worker, sweep, buffer, marking, startup, lost>>
MaintenanceEnds ==
  /\ maint /\ maint' = FALSE
  /\ UNCHANGED <<world, rows, worker, sweep, buffer, marking, startup, lost, used>>

\* _update_library with new import paths or exclusion patterns: refused while the
\* library has active work.  Assets that have come into its scope and whose file is
\* there come back as they were; no job is queued for what they may have missed, nor
\* for a folder that was never indexed.  The endpoint reconciles the watcher if
\* import paths were given, changed or not.  Patterns matter for import paths only.
NoActiveWork(l) == ActiveOf(l) = {}
Recatalogued(l) ==
  [f \in Folders |->
     IF LibOf[f] = l /\ cat[f].ver # None
     THEN [cat[f] EXCEPT !.off = ~(f \in Catalogued' /\ disk[f].there)] ELSE cat[f]]
Configure(l) ==
  /\ maint /\ NoActiveWork(l)
  /\ lib[l].rev < MaxRevs
  /\ lib' = [lib EXCEPT ![l].rev = @ + 1]
  /\ \E roots \in (SUBSET Homes(l)) \ {{}} : \E hidden \in SUBSET roots :
       /\ paths' = (paths \ Homes(l)) \cup roots
       /\ excluded' = (excluded \ Homes(l)) \cup hidden
  /\ settle' \in {TRUE} \cup (IF paths' = paths THEN {settle} ELSE {})
  /\ cat' = Recatalogued(l)
  /\ lost' = lost \cup {f \in Homes(l) : ~disk[f].there \/ f \notin Catalogued \cap Catalogued'}
  /\ UNCHANGED <<disk, watcher, buffer, marking, startup, maint, job, stage, parent, worker,
                 sweep, used>>

Listed == CHOOSE order \in [1..Cardinality(Libraries) -> Libraries] :
            \A l \in Libraries : \E i \in DOMAIN order : order[i] = l
\* rebuild_imported_data: the catalog is cleared, with its jobs, and a rebuild of
\* every library queued, before any worker may write again.
RebuildImportedData ==
  /\ maint /\ \A l \in Libraries : ActiveOf(l) = {}
  /\ parent.todo = {} /\ Len(job) + Cardinality(Libraries) <= MaxJobs
  /\ cat' = [f \in Folders |-> Unindexed]
  /\ lib' = [l \in Libraries |-> [lib[l] EXCEPT !.state = "discovering"]]
  /\ stage' = {}
  /\ parent' = [state |-> "running", todo |-> {}]
  /\ job' = [j \in Jobs |-> [job[j] EXCEPT !.state = "gone"]] \o
       [i \in DOMAIN Listed |-> NewJob(Listed[i], "rebuild", "manual", All, 100, TRUE)]
  /\ UNCHANGED <<outside, worker, sweep, lost, used>>

-----------------------------------------------------------------------------
WorkerStep(w) ==
  \/ Look(w) \/ MarkOffline(w) \/ NothingThere(w) \/ WasReady(w) \/ Start(w)
  \/ Walk(w) \/ Write(w) \/ Progress(w) \/ Activate(w) \/ Finish(w)
  \/ Clean(w) \/ Fail(w) \/ ClaimLost(w) \/ Leave(w) \/ Close(w) \/ Tell(w)

CNext ==
  \/ \E f \in Folders : Change(f) \/ Mount(f) \/ Drain(f) \/ DrainDropped(f)
  \/ \E l \in Libraries : \/ Scheduled(l) \/ Startup(l) \/ MarkDiscovering(l) \/ Configure(l)
                          \/ \E scope \in FoldersOf(l) \cup {All} : Ask(l, scope)
  \/ StartWatcher \/ StopWatcher \/ LeaveWatcher
  \/ ScanAll \/ ScanAllNext \/ ScanAllBusy \/ ScanAllEnd
  \/ \E w \in Workers : Claim(w) \/ WorkerStep(w) \/ Raise(w) \/ Renew(w)
  \/ \E j \in Jobs : Expire(j)
  \/ SweepRead \/ SweepWrite \/ SweepTell
  \/ Restart \/ MaintenanceBegins \/ MaintenanceEnds \/ RebuildImportedData

CSpec == CInit /\ [][CNext]_vars

-----------------------------------------------------------------------------
(* Properties                                                              *)

\* Rows and threads have the shape the schema and the code give them, and what one
\* names is there.  Staging rows belong to a rebuild that runs or failed: one that
\* succeeded has left none, and nothing else ends a rebuild that has staged.
CTypeOK ==
  /\ disk \in [Folders -> [ver : Nat, there : BOOLEAN]]
  /\ cat \in [Folders -> [ver : Nat \cup {None}, off : BOOLEAN]]
  /\ lib \in [Libraries -> [state : {"discovering", "indexing", "ready", "degraded", "error",
                                    "offline"}, rev : Nat]]
  /\ \A j \in Jobs :
       job[j] \in [lib : Libraries, type : {"scan", "rebuild"},
                   trigger : {"manual", "watcher", "scheduled", "startup"},
                   scope : Folders \cup {All}, prio : {10, 50, 100},
                   state : Active \cup Terminal \cup {"gone"}, rev : Nat, live : BOOLEAN,
                   tracked : BOOLEAN]
  /\ stage \subseteq [job : Jobs, folder : Folders, ver : Nat]
  /\ \A s \in stage : job[s.job].state \in {"running", "failed"} /\ job[s.job].type = "rebuild"
  /\ \A w \in Workers : worker[w].pc # "idle" => worker[w].job \in Jobs
  /\ parent.state \in {"none"} \cup Active \cup Terminal
  /\ sweep.found \subseteq Jobs
  /\ watcher.seen \subseteq watcher.roots
  /\ UNION {paths, excluded, watcher.roots, buffer, lost} \subseteq Folders

\* Work that will still look at folder f.
Coming(f) ==
  \/ f \in buffer \/ LibOf[f] \in startup
  \/ \E j \in ActiveOf(LibOf[f]) : f \in Scope(j)

\* A library that reports itself ready has a catalog that agrees with the disk, or
\* work is on its way that will make it agree; the exceptions are the folders in
\* lost: those whose notice was dropped or never made, and those a change of the
\* configuration brought in, for which the code queues nothing.  The watcher's
\* follow-ups, the coalescing of requests, claims that are lost and the states the
\* library passes through have to work together for this.
ReadyIsComplete ==
  \A f \in Catalogued :
    (lib[LibOf[f]].state = "ready" /\ disk[f].there /\ f \notin lost) =>
       Coming(f) \/ cat[f] = [ver |-> disk[f].ver, off |-> FALSE]

\* Only the worker whose claim is good changes the catalog, outside maintenance:
\* not one whose lease lapsed or whose job was failed meanwhile.
CatalogWritesFenced ==
  [][cat' # cat /\ ~maint =>
       \E w \in Workers : /\ worker[w].pc \in {"mark", "write", "activate"}
                          /\ Mine(w).state = "running" /\ Mine(w).live]_vars

\* The supervisor fails no job that a worker of this process is working on.
LiveClaimProtected ==
  [][\A j \in Jobs : (job[j].state = "running" /\ job'[j].state = "failed" /\ used' = used) =>
       \/ j \notin Registered
       \/ \E w \in Workers : worker[w].job = j /\ worker'[w].pc = "leave"]_vars

\* Jobs that wait or run are for the present configuration of their library, and one
\* at most runs.
JobsMatchConfiguration ==
  \A i, j \in Jobs :
    /\ job[i].state \in Active => job[i].rev = lib[job[i].lib].rev
    /\ (job[i].state = "running" /\ job[j].state = "running" /\ job[i].lib = job[j].lib) => i = j
=============================================================================
