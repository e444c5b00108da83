----------------------------- MODULE DerivativeServing -----------------------------
(***************************************************************************)
(* Requests for thumbnails and previews (backend/thumbnails.py,            *)
(* _serve_derivative) and the fast path (backend/derivative_fastpath.py),  *)
(* on top of the derivative scheduler.  Each await of the handler is one   *)
(* step: what it read before may be stale when it goes on.                 *)
(***************************************************************************)
EXTENDS Derivatives

CONSTANTS Requests  \* HTTP requests that arrive (bound)

VARIABLES
  req,  \* what each request is doing
  fast  \* derivative_fast_path, keyed by asset and variant: identity and path

svars == <<dvars, req, fast>>

-----------------------------------------------------------------------------
NoEntry == [ident |-> 0, path |-> <<>>]

\* ident: what the handler stat'ed, for which it made its headers.  did: the
\* derivative it waits for.  path: the file it streams.  shared: history,
\* another response of that file ended meanwhile.
NewReq == [pc |-> "new", av |-> <<>>, ident |-> 0, entry |-> NoEntry, did |-> <<>>,
           path |-> <<>>, found |-> 0, again |-> FALSE, status |-> 0, shared |-> FALSE]

Requested == Assets \X Variant
IdentKey(q, i) == <<req[q].av[1], req[q].av[2], i>>
SourceOf(q) == disk[req[q].av[1]]

SInit ==
  /\ DInit
  /\ req = [q \in Requests |-> NewReq]
  /\ fast = [av \in Requested |-> NoEntry]

SetReq(q, r) == req' = [req EXCEPT ![q] = r]
Answer(q, code) == SetReq(q, [NewReq EXCEPT !.pc = "done", !.status = code])
CoreSame == UNCHANGED dvars

-----------------------------------------------------------------------------
\* A browser asks.
Arrive(q) ==
  /\ req[q].pc = "new"
  /\ \E av \in Requested : SetReq(q, [NewReq EXCEPT !.pc = "fast", !.av = av])
  /\ UNCHANGED fast
  /\ CoreSame

\* discard: only if the very entry is still there.
Discarded(q, e) == [fast EXCEPT ![req[q].av] = IF @ = e THEN NoEntry ELSE @]

\* _check_fast_path: one stat of the source decides.
FastCheck(q) ==
  /\ req[q].pc = "fast"
  /\ LET e == fast[req[q].av]
         hit == e # NoEntry /\ SourceOf(q) = e.ident
     IN /\ SetReq(q, IF hit THEN [req[q] EXCEPT !.pc = "hit", !.entry = e, !.ident = e.ident]
                            ELSE [req[q] EXCEPT !.pc = "resolve"])
        /\ fast' = IF hit THEN fast ELSE Discarded(q, e)
  /\ CoreSame

\* try_acquire_serving, under the file lock.
FastAcquire(q) ==
  /\ req[q].pc = "hit" /\ FileLockFree
  /\ LET e == req[q].entry
     IN IF file[e.path] # 0
        THEN /\ served' = served \cup {e.path}
             /\ SetReq(q, [req[q] EXCEPT !.pc = "stream", !.path = e.path])
             /\ UNCHANGED fast
        ELSE /\ SetReq(q, [req[q] EXCEPT !.pc = "resolve"])
             /\ fast' = Discarded(q, e)
             /\ UNCHANGED served
  /\ UNCHANGED <<disk, cat, db, file, claims, worker, generating, deferred, op, sweep, audit, left>>

\* _resolve_derivative_source, and the headers of what it stat'ed.
Resolve(q) ==
  /\ req[q].pc = "resolve"
  /\ IF cat[req[q].av[1]].active /\ SourceOf(q) # 0
     THEN SetReq(q, [req[q] EXCEPT !.pc = "lookup", !.ident = SourceOf(q)])
     ELSE Answer(q, 404)
  /\ UNCHANGED fast
  /\ CoreSame

ReadyAt(k) == row[k].st = "ready" /\ HasFile(k, row[k])

\* acquire_ready_derivative: the lookup, then the file lock.
Lookup(q) ==
  /\ req[q].pc = "lookup"
  /\ LET k == IdentKey(q, req[q].ident)
     IN SetReq(q, IF ReadyAt(k)
                  THEN [req[q] EXCEPT !.pc = "acquire", !.path = PathOf(k, row[k].path), !.found = k[3]]
                  ELSE [req[q] EXCEPT !.pc = "schedule"])
  /\ UNCHANGED fast
  /\ CoreSame

\* Mutant: the entry is made for the file as it is by now.
MutantRemembered(q) == [ident |-> SourceOf(q), path |-> req[q].path]
\* What FastPathCache.put keeps: the identity the handler stat'ed.
Remembered(q) == [ident |-> req[q].ident, path |-> req[q].path]

\* Protect the file found and stream it; only what was found under the stat'ed
\* identity is remembered.
Acquire(q, otherwise) ==
  /\ FileLockFree
  /\ IF file[req[q].path] # 0
     THEN /\ served' = served \cup {req[q].path}
          /\ SetReq(q, [req[q] EXCEPT !.pc = "stream"])
          /\ fast' = IF req[q].found = req[q].ident
                     THEN [fast EXCEPT ![req[q].av] = Remembered(q)]
                     ELSE fast
     ELSE otherwise /\ UNCHANGED <<served, fast>>
  /\ UNCHANGED <<disk, cat, db, file, claims, worker, generating, deferred, op, sweep, audit, left>>

AcquireFound(q) ==
  req[q].pc = "acquire" /\ Acquire(q, SetReq(q, [req[q] EXCEPT !.pc = "schedule"]))

-----------------------------------------------------------------------------
(* Not ready: schedule and wait.                                             *)

\* schedule_derivative stats the source itself.
RequestSchedule(q) ==
  /\ req[q].pc = "schedule" /\ op = NoOp
  /\ IF cat[req[q].av[1]].active /\ SourceOf(q) # 0
     THEN /\ ScheduleBy(q, req[q].av[1], req[q].av[2], 0)
          /\ SetReq(q, [req[q] EXCEPT !.pc = "scheduling", !.did = IdentKey(q, SourceOf(q))])
     ELSE Answer(q, 404) /\ UNCHANGED op
  /\ UNCHANGED <<disk, cat, db, file, claims, worker, generating, served, deferred, sweep, audit, left, fast>>

Scheduled(q) ==
  /\ req[q].pc = "scheduling" /\ op.by # q
  /\ SetReq(q, [req[q] EXCEPT !.pc = "wait"])
  /\ UNCHANGED fast
  /\ CoreSame

\* One poll of get_derivative_outcome that ends the wait.
Poll(q) ==
  /\ req[q].pc = "wait"
  /\ LET k == req[q].did
         r == row[k]
         changed == r.st = "skipped" /\ job[k].rc = "source_changed"
     IN \/ ReadyAt(k) /\ SetReq(q, [req[q] EXCEPT !.pc = "relookup"])
        \/ r.st = "absent" /\ Answer(q, 503)
        \/ r.st = "failed" /\ Answer(q, 500)
        \/ r.st \in {"deferred_capacity", "evicted"} /\ Answer(q, 507)
        \/ changed /\ ~req[q].again /\ SetReq(q, [req[q] EXCEPT !.pc = "schedule", !.again = TRUE])
        \/ changed /\ req[q].again /\ Answer(q, 409)
        \/ r.st = "skipped" /\ ~changed /\ Answer(q, 404)
  /\ UNCHANGED fast
  /\ CoreSame

\* Ten seconds pass.
TimesOut(q) ==
  /\ req[q].pc = "wait"
  /\ Answer(q, 503)
  /\ UNCHANGED fast
  /\ CoreSame

\* acquire_ready_derivative(asset_id, kind, variant): for the file as it is by now.
Relookup(q) ==
  /\ req[q].pc = "relookup"
  /\ LET k == IdentKey(q, SourceOf(q))
     IN IF SourceOf(q) # 0 /\ ReadyAt(k)
        THEN SetReq(q, [req[q] EXCEPT !.pc = "reacquire", !.path = PathOf(k, row[k].path), !.found = k[3]])
        ELSE Answer(q, 503)
  /\ UNCHANGED fast
  /\ CoreSame

Reacquire(q) == req[q].pc = "reacquire" /\ Acquire(q, Answer(q, 503))

-----------------------------------------------------------------------------
\* The response ends: release_serving takes the path out of the served set,
\* and then finishes an unlink that was put off.
EndResponse(q) ==
  /\ req[q].pc = "stream" /\ FileLockFree
  /\ served' = served \ {req[q].path}
  /\ req' = [r \in Requests |->
       IF r = q THEN [req[q] EXCEPT !.pc = "released"]
       ELSE IF req[r].pc = "stream" /\ req[r].path = req[q].path
            THEN [req[r] EXCEPT !.shared = TRUE] ELSE req[r]]
  /\ UNCHANGED <<disk, cat, db, file, claims, worker, generating, deferred, op, sweep, audit, left, fast>>

FinishUnlink(q) ==
  /\ req[q].pc = "released" /\ FileLockFree
  /\ LET due == {req[q].path} \cap (deferred \ served)
     IN /\ deferred' = deferred \ due
        /\ file' = [p \in Key |-> IF p \in Finished(due) THEN 0 ELSE file[p]]
  /\ Answer(q, 200)
  /\ UNCHANGED <<disk, cat, db, claims, worker, generating, served, op, sweep, audit, left, fast>>

\* The fast path is a bounded LRU with a time to live.
FastForget ==
  /\ \E av \in Requested : fast[av] # NoEntry /\ fast' = [fast EXCEPT ![av] = NoEntry]
  /\ UNCHANGED req
  /\ CoreSame

-----------------------------------------------------------------------------
Serve(q) ==
  \/ Arrive(q) \/ FastCheck(q) \/ FastAcquire(q) \/ Resolve(q) \/ Lookup(q) \/ AcquireFound(q)
  \/ RequestSchedule(q) \/ Scheduled(q) \/ Poll(q) \/ TimesOut(q) \/ Relookup(q) \/ Reacquire(q)
  \/ EndResponse(q) \/ FinishUnlink(q)

Restarted ==
  /\ Restart
  /\ req' = [q \in Requests |-> IF req[q].pc = "new" THEN req[q] ELSE [NewReq EXCEPT !.pc = "done"]]
  /\ fast' = [av \in Requested |-> NoEntry]

SNext ==
  \/ \E q \in Requests : Serve(q)
  \/ FastForget
  \/ DNext /\ UNCHANGED <<req, fast>>
  \/ Restarted

SSpec == SInit /\ [][SNext]_svars

-----------------------------------------------------------------------------
(* Properties.                                                               *)

Streaming(q) == req[q].pc = "stream"

\* _served_paths is a set, not a count: the end of one response takes away the
\* protection of every other response of the same file.
Uncovered(q) == req[q].shared /\ req[q].path \notin served

\* A file that is being streamed stays: quota, supersession, clearing and
\* deferred unlinks all leave it alone until the response ends, or until another
\* response of the same file ends (Uncovered).
ServedOnDisk ==
  \A q \in Requests : Streaming(q) => file[req[q].path] # 0 \/ Uncovered(q)

\* While the source is still what the request found, the response streams that
\* version's pixels, whatever was evicted, retired or rendered again meanwhile
\* and whatever the fast path remembered.
CurrentPixelsServed ==
  \A q \in Requests :
    Streaming(q) /\ SourceOf(q) = req[q].ident
      => file[req[q].path] = req[q].ident \/ (file[req[q].path] = 0 /\ Uncovered(q))

\* A put off unlink is never forgotten: a response that will finish it is open.
DeferredIsServed == deferred \subseteq served \cup {req[q].path : q \in {r \in Requests : req[r].pc = "released"}}

=============================================================================
